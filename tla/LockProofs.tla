---------------------------- MODULE LockProofs ----------------------------
(* Mutual exclusion of the locks, and the order in which they are handed   *)
(* over, for any number of threads and locks.                              *)
EXTENDS Locks, RingProofs, Sequences, FiniteSetTheorems, WellFoundedInduction

USE LockAssumption

-----------------------------------------------------------------------------
(* Nobody holds a lock when the drivers start. *)
LEMMA InitLockInv == Init => LockInv
  <1> SUFFICES ASSUME Init PROVE LockInv
    OBVIOUS
  <1>1. TypeOK
    BY DEF Init, TypeOK, SelfLinked, Ring, Places, Free
  <1>2. OwnerInv
    BY DEF Init, OwnerInv, Releasing, Free
  <1>3. MonitorInv
    BY DEF Init, MonitorInv
  <1>4. LinkInv
    <2>1. \A t \in Thread : Alone(ring, t)
      BY DEF Init, SelfLinked, Alone
    <2>2. WellLinked(ring)
      BY DEF Init, SelfLinked, WellLinked
    <2>3. RingOf(ring, runnable) = {t \in Thread : Runs(t)}
      BY <1>1, <2>1, AloneRing DEF Init, TypeOK, Runs
    <2>4. \A l \in Lock : word[l].blocked = NULL /\ BlockedOn(l) = {}
      BY DEF Init, Free, BlockedOn
    <2>5. Runs(Idle)
      BY DEF Init, Runs
    <2> QED
      BY <2>1, <2>2, <2>3, <2>4, <2>5 DEF Init, LinkInv, ListsOK
  <1>5. IdleInv
    BY DEF Init, IdleInv
  <1> QED
    BY <1>1, <1>2, <1>3, <1>4, <1>5 DEF LockInv, WordInv

(* core->runnable can run, is not the only one unless it is the idle       *)
(* thread, and no thread of its ring is in the line of a lock.             *)
LEMMA RunnableFacts ==
    ASSUME TypeOK, LinkInv
    PROVE  /\ runnable \in Thread /\ Runs(runnable)
           /\ ring.next[runnable] \in Thread /\ Runs(ring.next[runnable])
           /\ runnable # Idle => ring.next[runnable] # runnable
  <1>1. ring \in Ring /\ runnable \in Thread /\ WellLinked(ring)
    BY DEF TypeOK, LinkInv
  <1>2. /\ runnable \in RingOf(ring, runnable)
        /\ Closed(ring, RingOf(ring, runnable))
        /\ RingOf(ring, runnable) = {t \in Thread : Runs(t)}
    BY <1>1, SelfInRing, RingClosed DEF LinkInv, ListsOK
  <1>3. Runs(runnable) /\ ring.next[runnable] \in Thread /\ Runs(ring.next[runnable])
    BY <1>2 DEF Closed
  <1>4. ASSUME ring.next[runnable] = runnable PROVE runnable = Idle
    <2>1. Alone(ring, runnable)
      BY <1>1, <1>4 DEF WellLinked, Alone
    <2>2. RingOf(ring, runnable) = {runnable}
      BY <1>1, <2>1, AloneRing
    <2>3. Idle \in RingOf(ring, runnable)
      BY <1>2 DEF LinkInv
    <2> QED
      BY <2>2, <2>3
  <1> QED
    BY <1>1, <1>3, <1>4

(* The line of a lock: all of it, and only it, waits for this lock. *)
LEMMA LineFacts ==
    ASSUME TypeOK, LinkInv, NEW l \in Lock, word[l].blocked # NULL
    PROVE  /\ word[l].blocked \in BlockedOn(l)
           /\ ring.next[word[l].blocked] \in BlockedOn(l)
           /\ RingOf(ring, word[l].blocked) = BlockedOn(l)
           /\ BlockedOn(l) \subseteq Thread
  <1>1. ring \in Ring /\ word[l].blocked \in Thread
    BY DEF TypeOK
  <1>2. RingOf(ring, word[l].blocked) = BlockedOn(l)
    BY DEF LinkInv, ListsOK
  <1> QED
    BY <1>1, <1>2, SelfInRing, RingClosed DEF Closed, BlockedOn

(* A step that leaves every word alone, and takes no thread into, out of   *)
(* or towards a lock, keeps what is known of the owners.                   *)
LEMMA OwnerFrame ==
    ASSUME OwnerInv, UNCHANGED <<word, inside>>,
           \A t \in Thread, l \in Lock : Releasing(t, l)' <=> Releasing(t, l)
    PROVE  OwnerInv'
  BY DEF OwnerInv

(* A step of the running thread that touches no list. *)
LEMMA LinkFrame ==
    ASSUME TypeOK, LinkInv, UNCHANGED <<ring, runnable>>,
           \A l \in Lock : word'[l].blocked = word[l].blocked,
           \A t \in Thread \ {runnable} : pc'[t] = pc[t] /\ x17'[t] = x17[t],
           pc'[runnable] \notin {"blocked", "asleep"},
           pc'[runnable] # "run" => x17'[runnable] \in Lock
    PROVE  LinkInv'
  <1>1. runnable \in Thread /\ Runs(runnable)
    BY RunnableFacts
  <1>2. \A t \in Thread : Runs(t)' <=> Runs(t)
    BY <1>1 DEF Runs
  <1>3. \A l \in Lock : BlockedOn(l)' = BlockedOn(l)
    BY <1>1 DEF BlockedOn, Runs
  <1>4. ListsOK'
    BY <1>2, <1>3 DEF LinkInv, ListsOK
  <1>5. \A t \in Thread : /\ pc'[t] = "asleep" => Alone(ring, t)
                          /\ pc'[t] \notin {"run", "asleep"} => x17'[t] \in Lock
    BY <1>1 DEF LinkInv
  <1> QED
    BY <1>2, <1>4, <1>5 DEF LinkInv

-----------------------------------------------------------------------------
(* One lemma per kind of step: each preserves the invariant. *)

(* Instructions that write no lock word. *)
LEMMA PlainStepWordInv ==
    ASSUME WordInv,
           \/ Interrupt \/ ClaimLoad \/ ClaimAgain \/ ReleaseLoad
           \/ ReleaseStoreFails \/ BSOD
    PROVE  WordInv'
  <1> USE DEF WordInv, At, GoOn
  <1>1. runnable \in Thread /\ pc \in [Thread -> Places] /\ Runs(runnable)
    BY RunnableFacts DEF TypeOK
  <1>2. UNCHANGED <<ring, runnable, word, inside, x17>>
    BY DEF Interrupt, ClaimLoad, ClaimAgain, ReleaseLoad, ReleaseStoreFails,
           BSOD
  <1>3. \/ pc' = pc
        \/ \E place \in {"claim_stxr", "svc_wait", "claim_ldxr"} :
              /\ pc[runnable] \in {"claim_ldxr", "claim_stxr"}
              /\ pc' = [pc EXCEPT ![runnable] = place]
        \/ \E place \in {"release_stxr", "svc_release", "release_ldxr"} :
              /\ pc[runnable] \in {"release_ldxr", "release_stxr"}
              /\ pc' = [pc EXCEPT ![runnable] = place]
    BY DEF Interrupt, ClaimLoad, ClaimAgain, ReleaseLoad, ReleaseStoreFails,
           BSOD
  <1>4. TypeOK'
    <2>1. monitor' \in Thread \union {NULL} /\ bsod' \in BOOLEAN
      BY <1>1 DEF TypeOK, Interrupt, ClaimLoad, ClaimAgain, ReleaseLoad,
              ReleaseStoreFails, BSOD
    <2>2. pc' \in [Thread -> Places]
      BY <1>1, <1>3 DEF Places
    <2> QED
      BY <1>2, <2>1, <2>2 DEF TypeOK
  <1>5. OwnerInv'
    <2>1. \A t \in Thread, l \in Lock : Releasing(t, l)' <=> Releasing(t, l)
      BY <1>1, <1>2, <1>3 DEF Releasing
    <2> QED
      BY <1>2, <2>1, OwnerFrame
  <1>6. MonitorInv'
    <2>1. CASE monitor' = NULL
      BY <1>1, <1>2, <2>1 DEF MonitorInv
    <2>2. CASE ClaimLoad
      BY <1>1, <2>2 DEF ClaimLoad, MonitorInv
    <2>3. CASE ReleaseLoad
      BY <1>1, <2>3 DEF ReleaseLoad, MonitorInv
    <2>4. CASE BSOD
      BY <2>4 DEF BSOD, MonitorInv
    <2> QED
      BY <2>1, <2>2, <2>3, <2>4 DEF Interrupt, ClaimAgain, ReleaseStoreFails
  <1>7. LinkInv'
    <2>1. \A t \in Thread \ {runnable} : pc'[t] = pc[t] /\ x17'[t] = x17[t]
      BY <1>1, <1>2, <1>3
    <2>2. pc'[runnable] \notin {"blocked", "asleep"}
      BY <1>1, <1>3 DEF Runs
    <2>3. pc'[runnable] # "run" => x17'[runnable] \in Lock
      BY <1>1, <1>2, <1>3 DEF LinkInv, Runs
    <2> QED
      BY <1>2, <2>1, <2>2, <2>3, LinkFrame
  <1> QED
    BY <1>4, <1>5, <1>6, <1>7

(* A thread sets out to claim or to release a lock. *)
LEMMA SetOutWordInv ==
    ASSUME WordInv, NEW l \in Lock, Claim(l) \/ Release(l)
    PROVE  WordInv'
  <1> USE DEF WordInv, At, GoOn
  <1>0. PICK r \in Thread : r = runnable
    BY DEF TypeOK
  <1>1. /\ pc \in [Thread -> Places] /\ x17 \in [Thread -> Lock \union {NULL}]
        /\ inside \in [Thread -> SUBSET Lock]
        /\ pc[r] = "run"
        /\ UNCHANGED <<ring, runnable, word, monitor, bsod>>
        /\ x17' = [x17 EXCEPT ![r] = l]
    BY <1>0 DEF TypeOK, Claim, Release
  <1>2. \/ pc' = [pc EXCEPT ![r] = "claim_ldxr"] /\ inside' = inside
        \/ /\ pc' = [pc EXCEPT ![r] = "release_ldxr"]
           /\ l \in inside[r]
           /\ inside' = [inside EXCEPT ![r] = @ \ {l}]
    BY <1>0 DEF Claim, Release
  <1>3. TypeOK'
    <2>1. pc' \in [Thread -> Places] /\ inside' \in [Thread -> SUBSET Lock]
      BY <1>1, <1>2 DEF Places
    <2> QED
      BY <1>1, <2>1 DEF TypeOK
  <1>4. OwnerInv'
    <2> SUFFICES ASSUME NEW k \in Lock, NEW t \in Thread
                 PROVE  /\ word[k].owner = t <=> (k \in inside'[t] \/ Releasing(t, k)')
                        /\ Releasing(t, k)' => k \notin inside'[t]
      BY <1>1 DEF OwnerInv
    <2>1. /\ word[k].owner = t <=> (k \in inside[t] \/ Releasing(t, k))
          /\ Releasing(t, k) => k \notin inside[t]
      BY DEF OwnerInv
    <2>2. CASE t # r
      BY <1>1, <1>2, <2>1, <2>2 DEF Releasing
    <2>3. CASE t = r
      BY <1>1, <1>2, <2>1, <2>3 DEF Releasing
    <2> QED
      BY <2>2, <2>3
  <1>5. MonitorInv'
    BY <1>0, <1>1, <1>2 DEF MonitorInv
  <1>6. LinkInv'
    BY <1>0, <1>1, <1>2, LinkFrame
  <1> QED
    BY <1>3, <1>4, <1>5, <1>6

(* The steps that take a free lock. *)
LEMMA TakeWordInv ==
    ASSUME WordInv, ClaimStore \/ WaitNoNeed
    PROVE  WordInv'
  <1> USE DEF WordInv, At
  <1>0. PICK r \in Thread, l \in Lock : r = runnable /\ l = x17[runnable]
    BY DEF TypeOK, LinkInv, ClaimStore, WaitNoNeed
  <1>1. /\ pc \in [Thread -> Places] /\ x17 \in [Thread -> Lock \union {NULL}]
        /\ inside \in [Thread -> SUBSET Lock]
        /\ word \in [Lock -> [owner : Thread \union {NULL}, blocked : Thread \union {NULL}]]
        /\ pc[r] \in {"claim_stxr", "svc_wait"}
        /\ UNCHANGED <<ring, runnable, x17, bsod>>
        /\ pc' = [pc EXCEPT ![r] = "run"]
        /\ inside' = [inside EXCEPT ![r] = @ \union {l}]
        /\ monitor' = NULL
    BY <1>0 DEF TypeOK, ClaimStore, WaitNoNeed, Enter
  <1>2. word[l] = Free \/ word[l] = [owner |-> r, blocked |-> NULL]
    <2>1. CASE ClaimStore
      BY <1>0, <2>1 DEF ClaimStore, StoreFails, MonitorInv
    <2>2. CASE WaitNoNeed
      BY <1>0, <2>2 DEF WaitNoNeed, MustWait, OnlyMine
    <2> QED
      BY <2>1, <2>2
  <1>3. word' = [word EXCEPT ![l] = [owner |-> r, blocked |-> NULL]]
    <2>1. CASE ClaimStore
      BY <1>0, <2>1 DEF ClaimStore
    <2>2. CASE WaitNoNeed
      <3>1. word' = [word EXCEPT ![l].owner = r]
        BY <1>0, <2>2 DEF WaitNoNeed
      <3>2. [word[l] EXCEPT !.owner = r] = [owner |-> r, blocked |-> NULL]
        BY <1>2 DEF Free
      <3> QED
        BY <3>1, <3>2
    <2> QED
      BY <2>1, <2>2
  <1>4. TypeOK'
    <2>1. pc' \in [Thread -> Places] /\ inside' \in [Thread -> SUBSET Lock]
      BY <1>1 DEF Places
    <2>2. word' \in [Lock -> [owner : Thread \union {NULL}, blocked : Thread \union {NULL}]]
      BY <1>1, <1>3
    <2> QED
      BY <1>1, <2>1, <2>2 DEF TypeOK
  <1>5. OwnerInv'
    <2> SUFFICES ASSUME NEW k \in Lock, NEW t \in Thread
                 PROVE  /\ word'[k].owner = t <=> (k \in inside'[t] \/ Releasing(t, k)')
                        /\ Releasing(t, k)' => k \notin inside'[t]
      BY DEF OwnerInv
    <2>1. /\ word[k].owner = t <=> (k \in inside[t] \/ Releasing(t, k))
          /\ Releasing(t, k) => k \notin inside[t]
      BY DEF OwnerInv
    <2>2. Releasing(t, k)' <=> Releasing(t, k)
      BY <1>1 DEF Releasing
    <2>3. k \in inside'[t] <=> k \in inside[t] \/ (t = r /\ k = l)
      BY <1>1
    <2>4. CASE k # l
      BY <1>1, <1>3, <2>1, <2>2, <2>3, <2>4
    <2>5. CASE k = l
      <3>1. word'[k].owner = r /\ word'[k].blocked = NULL
        BY <1>1, <1>3, <2>5
      <3>2. t # r => k \notin inside[t] /\ ~Releasing(t, k)
        BY <1>2, <2>1, <2>5 DEF Free
      <3>3. ~Releasing(r, k)
        BY <1>1 DEF Releasing
      <3> QED
        BY <2>1, <2>2, <2>3, <2>5, <3>1, <3>2, <3>3
    <2> QED
      BY <2>4, <2>5
  <1>6. MonitorInv'
    BY <1>0, <1>1 DEF MonitorInv
  <1>7. LinkInv'
    <2>1. \A k \in Lock : word'[k].blocked = word[k].blocked
      BY <1>1, <1>2, <1>3 DEF Free
    <2> QED
      BY <1>0, <1>1, <2>1, LinkFrame
  <1> QED
    BY <1>4, <1>5, <1>6, <1>7

(* The steps that give a lock back that nobody waits for. *)
LEMMA FreeWordInv ==
    ASSUME WordInv, ReleaseStore \/ (SvcRelease /\ word[x17[runnable]].blocked = NULL)
    PROVE  WordInv'
  <1> USE DEF WordInv, At, GoOn
  <1>0. PICK r \in Thread, l \in Lock : r = runnable /\ l = x17[runnable]
    BY DEF TypeOK, LinkInv, ReleaseStore, SvcRelease
  <1>1. /\ pc \in [Thread -> Places] /\ x17 \in [Thread -> Lock \union {NULL}]
        /\ word \in [Lock -> [owner : Thread \union {NULL}, blocked : Thread \union {NULL}]]
        /\ pc[r] \in {"release_stxr", "svc_release"}
        /\ UNCHANGED <<ring, runnable, x17, inside, bsod>>
        /\ pc' = [pc EXCEPT ![r] = "run"]
        /\ word' = [word EXCEPT ![l] = Free]
        /\ monitor' = NULL
    BY <1>0 DEF TypeOK, ReleaseStore, SvcRelease
  <1>2. Releasing(r, l) /\ word[l].owner = r /\ l \notin inside[r]
    BY <1>0, <1>1 DEF Releasing, OwnerInv
  <1>3. TypeOK'
    <2>1. pc' \in [Thread -> Places]
      BY <1>1 DEF Places
    <2>2. word' \in [Lock -> [owner : Thread \union {NULL}, blocked : Thread \union {NULL}]]
      BY <1>1 DEF Free
    <2> QED
      BY <1>1, <2>1, <2>2 DEF TypeOK
  <1>4. OwnerInv'
    <2> SUFFICES ASSUME NEW k \in Lock, NEW t \in Thread
                 PROVE  /\ word'[k].owner = t <=> (k \in inside[t] \/ Releasing(t, k)')
                        /\ Releasing(t, k)' => k \notin inside[t]
      BY <1>1 DEF OwnerInv
    <2>1. /\ word[k].owner = t <=> (k \in inside[t] \/ Releasing(t, k))
          /\ Releasing(t, k) => k \notin inside[t]
      BY DEF OwnerInv
    <2>2. Releasing(t, k)' <=> Releasing(t, k) /\ t # r
      BY <1>1 DEF Releasing
    <2>3. CASE k # l
      <3>1. ~Releasing(r, k)
        BY <1>0, <2>3 DEF Releasing
      <3> QED
        BY <1>1, <2>1, <2>2, <2>3, <3>1
    <2>4. CASE k = l
      <3>1. word'[k].owner = NULL /\ word'[k].blocked = NULL
        BY <1>1, <2>4 DEF Free
      <3> QED
        BY <1>2, <2>1, <2>2, <2>4, <3>1
    <2> QED
      BY <2>3, <2>4
  <1>5. MonitorInv'
    BY <1>0, <1>1 DEF MonitorInv
  <1>6. LinkInv'
    <2>1. word[l].blocked = NULL
      BY <1>0 DEF ReleaseStore, StoreFails, MonitorInv, OnlyMine
    <2>2. \A k \in Lock : word'[k].blocked = word[k].blocked
      BY <1>1, <2>1 DEF Free
    <2> QED
      BY <1>0, <1>1, <2>2, LinkFrame
  <1> QED
    BY <1>3, <1>4, <1>5, <1>6

(* What is left to show of the lists when the scheduler has put a thread   *)
(* to sleep, or woken one.                                                 *)
LEMMA MoveLink ==
    ASSUME TypeOK, LinkInv, UNCHANGED <<word, x17>>,
           NEW t \in Thread, pc[t] \in {"run", "asleep"},
           NEW place \in {"run", "asleep"}, pc' = [pc EXCEPT ![t] = place],
           NEW new \in Ring, ring' = new, WellLinked(new),
           RingOf(new, runnable') = {u \in Thread : Runs(u)'},
           Runs(Idle)',
           \A a \in Thread : pc[a] = "blocked" => RingOf(new, a) = RingOf(ring, a),
           \A u \in Thread : pc'[u] = "asleep" => Alone(new, u)
    PROVE  LinkInv'
  <1>1. pc \in [Thread -> Places]
    BY DEF TypeOK
  <1>2. \A l \in Lock : BlockedOn(l)' = BlockedOn(l)
    BY <1>1 DEF BlockedOn
  <1>3. \A l \in Lock : IF word'[l].blocked = NULL THEN BlockedOn(l)' = {}
                        ELSE RingOf(new, word'[l].blocked) = BlockedOn(l)'
    <2> SUFFICES ASSUME NEW l \in Lock
                 PROVE  IF word[l].blocked = NULL THEN BlockedOn(l) = {}
                        ELSE RingOf(new, word[l].blocked) = BlockedOn(l)
      BY <1>2
    <2>1. CASE word[l].blocked = NULL
      BY <2>1 DEF LinkInv, ListsOK
    <2>2. CASE word[l].blocked # NULL
      BY <2>2, LineFacts DEF BlockedOn
    <2> QED
      BY <2>1, <2>2
  <1>4. ListsOK'
    BY <1>3 DEF ListsOK
  <1>5. \A u \in Thread : pc'[u] \notin {"run", "asleep"} => x17'[u] \in Lock
    BY <1>1 DEF LinkInv
  <1> QED
    BY <1>4, <1>5 DEF LinkInv

(* The ring of a thread that waits for a lock has only threads in it that  *)
(* wait for the same.                                                      *)
LEMMA BlockedRing ==
    ASSUME TypeOK, LinkInv, NEW a \in Thread, pc[a] = "blocked"
    PROVE  \A u \in RingOf(ring, a) : pc[u] = "blocked" /\ x17[u] = x17[a]
  <1>1. x17[a] \in Lock /\ a \in BlockedOn(x17[a])
    BY DEF LinkInv, BlockedOn
  <1> DEFINE l == x17[a]
  <1>2. word[l].blocked # NULL /\ RingOf(ring, word[l].blocked) = BlockedOn(l)
    BY <1>1 DEF LinkInv, ListsOK
  <1>3. word[l].blocked \in Thread /\ ring \in Ring
    BY <1>1, <1>2 DEF TypeOK
  <1>4. Closed(ring, BlockedOn(l)) /\ BlockedOn(l) \in SUBSET Thread
    BY <1>2, <1>3, RingClosed DEF BlockedOn
  <1>5. RingOf(ring, a) \subseteq BlockedOn(l)
    BY <1>1, <1>4 DEF RingOf
  <1> QED
    BY <1>5 DEF BlockedOn

(* Yield, sleep and the ways to wake a thread. *)
LEMMA SchedulerWordInv ==
    ASSUME WordInv,
           \/ Yield \/ Sleep
           \/ \E t \in Thread : Wake(t) \/ InterruptWakes(t)
    PROVE  WordInv'
  <1> USE DEF WordInv, At, GoOn
  <1>0. PICK r \in Thread : r = runnable
    BY DEF TypeOK
  <1>1. /\ pc \in [Thread -> Places] /\ ring \in Ring /\ WellLinked(ring)
        /\ UNCHANGED <<word, x17, inside, bsod>> /\ monitor' = NULL
        /\ Runs(r) /\ ring.next[r] \in Thread /\ Runs(ring.next[r])
        /\ r # Idle => ring.next[r] # r
        /\ RingOf(ring, r) = {u \in Thread : Runs(u)}
    BY <1>0, RunnableFacts DEF TypeOK, LinkInv, ListsOK, Yield, Sleep, Wake, InterruptWakes
  <1>2. PICK t \in Thread, place \in {"run", "asleep"} :
           pc[t] \in {"run", "asleep"} /\ pc' = [pc EXCEPT ![t] = place]
    <2>1. CASE Yield
      <3>1. pc' = [pc EXCEPT ![r] = "run"]
        BY <1>0, <1>1, <2>1 DEF Yield
      <3> QED
        BY <1>0, <2>1, <3>1 DEF Yield
    <2>2. CASE Sleep
      BY <1>0, <2>2 DEF Sleep
    <2>3. CASE \E t \in Thread : Wake(t) \/ InterruptWakes(t)
      BY <2>3 DEF Wake, InterruptWakes
    <2> QED
      BY <2>1, <2>2, <2>3
  <1>3. OwnerInv'
    <2>1. \A u \in Thread, l \in Lock : Releasing(u, l)' <=> Releasing(u, l)
      BY <1>1, <1>2 DEF Releasing
    <2> QED
      BY <1>1, <2>1, OwnerFrame
  <1>4. CASE Yield
    <2>1. runnable' = ring.next[r] /\ ring' = ring /\ pc' = pc
      BY <1>0, <1>4 DEF Yield
    <2>2. RingOf(ring, runnable') = {u \in Thread : Runs(u)'}
      BY <1>1, <2>1, RingOfNext DEF Runs
    <2>3. LinkInv'
      <3>1. Runs(Idle)' /\ \A u \in Thread : pc'[u] = "asleep" => Alone(ring, u)
        BY <2>1 DEF LinkInv, Runs
      <3> QED
        BY <1>1, <1>2, <2>1, <2>2, <3>1, MoveLink
    <2> QED
      BY <1>1, <1>3, <2>1, <2>3 DEF TypeOK, MonitorInv
  <1>5. CASE Sleep
    <2> DEFINE new == Remove(ring, r)
    <2>1. /\ runnable' = ring.next[r] /\ ring' = new /\ r # Idle
          /\ pc' = [pc EXCEPT ![r] = "asleep"] /\ pc[r] = "run"
      BY <1>0, <1>5 DEF Sleep
    <2>2. /\ new \in Ring /\ WellLinked(new) /\ Alone(new, r)
          /\ \A u \in Thread : Alone(ring, u) => Alone(new, u)
          /\ RingOf(new, ring.next[r]) = RingOf(ring, r) \ {r}
      BY <1>1, <2>1, RemoveFromRing
    <2> HIDE DEF new
    <2>3. \A u \in Thread : Runs(u)' <=> Runs(u) /\ u # r
      BY <1>1, <2>1 DEF Runs
    <2>4. \A a \in Thread : pc[a] = "blocked" => RingOf(new, a) = RingOf(ring, a)
      BY <1>1, <2>1, BlockedRing, RemoveElsewhere DEF new
    <2>5. RingOf(new, runnable') = {u \in Thread : Runs(u)'}
      BY <1>1, <2>1, <2>2, <2>3
    <2>6. \A u \in Thread : pc'[u] = "asleep" => Alone(new, u)
      BY <1>1, <2>1, <2>2 DEF LinkInv
    <2>7. Runs(Idle)'
      BY <2>1, <2>3 DEF LinkInv
    <2>8. LinkInv'
      BY <1>1, <2>1, <2>2, <2>4, <2>5, <2>6, <2>7, MoveLink
    <2>9. TypeOK'
      BY <1>1, <2>1, <2>2 DEF TypeOK, Places
    <2> QED
      BY <1>1, <1>3, <2>8, <2>9 DEF TypeOK, MonitorInv
  <1>6. ASSUME NEW w \in Thread, Wake(w) \/ InterruptWakes(w) PROVE WordInv'
    <2>0. PICK new : ring' = new
      OBVIOUS
    <2>1. /\ pc[w] = "asleep" /\ pc' = [pc EXCEPT ![w] = "run"]
          /\ Alone(ring, w) /\ w # r /\ w \notin RingOf(ring, r)
      BY <1>0, <1>1, <1>6 DEF Wake, InterruptWakes, LinkInv, Runs
    <2>2. /\ new \in {InsertBefore(ring, w, r), InsertAfter(ring, w, r)}
          /\ new \in Ring /\ WellLinked(new) /\ runnable' \in Thread
          /\ \A u \in Thread \ {w, r} : Alone(ring, u) => Alone(new, u)
          /\ RingOf(new, runnable') = RingOf(ring, r) \union {w}
      <3>1. CASE Wake(w)
        BY <1>0, <1>1, <2>0, <2>1, <3>1, InsertAfterRing DEF Wake
      <3>2. CASE InterruptWakes(w)
        BY <1>0, <1>1, <2>0, <2>1, <3>2, InsertBeforeRing DEF InterruptWakes
      <3> QED
        BY <1>6, <3>1, <3>2
    <2>3. \A u \in Thread : Runs(u)' <=> Runs(u) \/ u = w
      BY <1>1, <2>1 DEF Runs
    <2>4. \A a \in Thread : pc[a] = "blocked" => RingOf(new, a) = RingOf(ring, a)
      <3> SUFFICES ASSUME NEW a \in Thread, pc[a] = "blocked"
                   PROVE  RingOf(new, a) = RingOf(ring, a)
        OBVIOUS
      <3>1. w \notin RingOf(ring, a) /\ r \notin RingOf(ring, a)
        BY <1>1, <2>1, BlockedRing DEF Runs
      <3> QED
        BY <1>1, <2>2, <3>1, InsertElsewhere
    <2>5. RingOf(new, runnable') = {u \in Thread : Runs(u)'}
      BY <1>1, <2>2, <2>3
    <2>6. \A u \in Thread : pc'[u] = "asleep" => Alone(new, u)
      BY <1>1, <2>1, <2>2 DEF LinkInv, Runs
    <2>7. Runs(Idle)'
      BY <2>3 DEF LinkInv
    <2>8. LinkInv'
      BY <1>1, <2>0, <2>1, <2>2, <2>4, <2>5, <2>6, <2>7, MoveLink
    <2>9. TypeOK'
      BY <1>1, <2>0, <2>1, <2>2 DEF TypeOK, Places
    <2> QED
      BY <1>1, <1>3, <2>8, <2>9 DEF TypeOK, MonitorInv
  <1> QED
    BY <1>4, <1>5, <1>6

(* A thread must wait: it leaves the ring of those that can run, and is    *)
(* the last in the line of the lock.                                       *)
LEMMA WaitBlockWordInv ==
    ASSUME WordInv, IdleInv, WaitBlock
    PROVE  WordInv'
  <1> USE DEF WordInv, At, GoOn
  <1>0. PICK r \in Thread, l \in Lock : r = runnable /\ l = x17[runnable]
    BY DEF TypeOK, LinkInv, WaitBlock
  <1> DEFINE n == ring.next[r]
             first == word[l].blocked
             out == Remove(ring, r)
  <1>1. /\ pc \in [Thread -> Places] /\ x17 \in [Thread -> Lock \union {NULL}]
        /\ word \in [Lock -> [owner : Thread \union {NULL}, blocked : Thread \union {NULL}]]
        /\ ring \in Ring /\ WellLinked(ring)
        /\ pc[r] = "svc_wait" /\ x17[r] = l /\ r # Idle
        /\ n \in Thread /\ n # r /\ Runs(n) /\ Runs(r)
        /\ RingOf(ring, r) = {u \in Thread : Runs(u)}
        /\ UNCHANGED <<x17, inside, bsod>> /\ monitor' = NULL
        /\ pc' = [pc EXCEPT ![r] = "blocked"]
        /\ runnable' = n
        /\ ring' = IF first = NULL THEN out ELSE InsertBefore(out, r, first)
        /\ word' = IF first = NULL THEN [word EXCEPT ![l].blocked = r] ELSE word
    BY <1>0, RunnableFacts DEF TypeOK, LinkInv, ListsOK, WaitBlock, JoinLine, IdleInv
  <1>2. /\ out \in Ring /\ WellLinked(out) /\ Alone(out, r)
        /\ \A u \in Thread : Alone(ring, u) => Alone(out, u)
        /\ RingOf(out, n) = RingOf(ring, r) \ {r}
    BY <1>1, RemoveFromRing
  <1>3. \A a \in Thread : pc[a] = "blocked" => RingOf(out, a) = RingOf(ring, a)
    BY <1>1, BlockedRing, RemoveElsewhere
  <1> HIDE DEF out, n
  <1>4. PICK new : ring' = new
    OBVIOUS
  <1>5. /\ new \in Ring /\ WellLinked(new)
        /\ \A u \in Thread : pc[u] = "asleep" => Alone(new, u)
        /\ RingOf(new, n) = RingOf(ring, r) \ {r}
        /\ \A a \in Thread : pc[a] = "blocked" /\ x17[a] # l
                                => RingOf(new, a) = RingOf(ring, a)
        /\ RingOf(new, IF first = NULL THEN r ELSE first) = BlockedOn(l) \union {r}
    <2>1. CASE first = NULL
      <3>1. new = out
        BY <1>1, <1>4, <2>1
      <3>2. RingOf(out, r) = {r} /\ BlockedOn(l) = {}
        BY <1>2, <2>1, AloneRing DEF LinkInv, ListsOK
      <3>3. \A u \in Thread : pc[u] = "asleep" => Alone(new, u)
        BY <1>2, <3>1 DEF LinkInv
      <3> QED
        BY <1>2, <1>3, <2>1, <3>1, <3>2, <3>3
    <2>2. CASE first # NULL
      <3>1. /\ first \in Thread /\ first \in BlockedOn(l) /\ pc[first] = "blocked"
            /\ first # r /\ RingOf(ring, first) = BlockedOn(l)
        BY <1>1, <2>2, LineFacts DEF BlockedOn
      <3>2. new = InsertBefore(out, r, first)
        BY <1>1, <1>4, <2>2
      <3>3. /\ new \in Ring /\ WellLinked(new)
            /\ \A u \in Thread \ {r, first} : Alone(out, u) => Alone(new, u)
            /\ new.next[r] = first
            /\ RingOf(new, r) = RingOf(out, first) \union {r}
        BY <1>2, <3>1, <3>2, InsertBeforeRing
      <3>4. RingOf(new, first) = BlockedOn(l) \union {r}
        BY <1>3, <3>1, <3>3, RingOfNext
      <3>5. RingOf(new, n) = RingOf(ring, r) \ {r}
        <4>1. r \notin RingOf(out, n) /\ first \notin RingOf(out, n)
          BY <1>1, <1>2, <3>1 DEF Runs
        <4> QED
          BY <1>1, <1>2, <3>1, <3>2, <4>1, InsertElsewhere
      <3>6. ASSUME NEW a \in Thread, pc[a] = "blocked", x17[a] # l
            PROVE  RingOf(new, a) = RingOf(ring, a)
        <4>1. r \notin RingOf(out, a)
          BY <1>1, <1>3, <3>6, BlockedRing
        <4>2. first \notin RingOf(out, a)
          BY <1>3, <3>1, <3>6, BlockedRing DEF BlockedOn
        <4> QED
          BY <1>2, <1>3, <3>1, <3>2, <3>6, <4>1, <4>2, InsertElsewhere
      <3>7. \A u \in Thread : pc[u] = "asleep" => Alone(new, u)
        BY <1>1, <1>2, <3>1, <3>3 DEF LinkInv
      <3> QED
        BY <2>2, <3>3, <3>4, <3>5, <3>6, <3>7
    <2> QED
      BY <2>1, <2>2
  <1>6. /\ \A k \in Lock : word'[k].owner = word[k].owner
        /\ \A k \in Lock \ {l} : word'[k].blocked = word[k].blocked
        /\ word'[l].blocked = IF first = NULL THEN r ELSE first
        /\ word' \in [Lock -> [owner : Thread \union {NULL}, blocked : Thread \union {NULL}]]
    BY <1>1
  <1>7. TypeOK'
    BY <1>1, <1>4, <1>5, <1>6 DEF TypeOK, Places
  <1>8. OwnerInv'
    <2>1. \A t \in Thread, k \in Lock : Releasing(t, k)' <=> Releasing(t, k)
      BY <1>1 DEF Releasing
    <2> QED
      BY <1>1, <1>6, <2>1 DEF OwnerInv
  <1>9. MonitorInv'
    BY <1>1 DEF MonitorInv
  <1>10. LinkInv'
    <2>1. \A u \in Thread : Runs(u)' <=> Runs(u) /\ u # r
      BY <1>1 DEF Runs
    <2>2. RingOf(new, runnable') = {u \in Thread : Runs(u)'}
      BY <1>1, <1>5, <2>1
    <2>3. /\ BlockedOn(l)' = BlockedOn(l) \union {r}
          /\ \A k \in Lock \ {l} : BlockedOn(k)' = BlockedOn(k)
      BY <1>1 DEF BlockedOn
    <2>4. ASSUME NEW k \in Lock
          PROVE  IF word'[k].blocked = NULL THEN BlockedOn(k)' = {}
                 ELSE RingOf(new, word'[k].blocked) = BlockedOn(k)'
      <3>1. CASE k = l
        BY <1>5, <1>6, <2>3, <3>1
      <3>2. CASE k # l /\ word[k].blocked = NULL
        BY <1>6, <2>3, <3>2 DEF LinkInv, ListsOK
      <3>3. CASE k # l /\ word[k].blocked # NULL
        BY <1>5, <1>6, <2>3, <3>3, LineFacts DEF BlockedOn
      <3> QED
        BY <3>1, <3>2, <3>3
    <2>5. Runs(Idle)'
      BY <1>1, <2>1 DEF LinkInv
    <2>6. \A u \in Thread : /\ pc'[u] = "asleep" => Alone(new, u)
                            /\ pc'[u] \notin {"run", "asleep"} => x17'[u] \in Lock
      BY <1>1, <1>5 DEF LinkInv
    <2> QED
      BY <1>4, <1>5, <2>2, <2>4, <2>5, <2>6 DEF LinkInv, ListsOK
  <1> QED
    BY <1>7, <1>8, <1>9, <1>10

(* The first in the line gets the lock and runs, before the thread that    *)
(* released it.                                                            *)
LEMMA HandOverWordInv ==
    ASSUME WordInv, SvcRelease, word[x17[runnable]].blocked # NULL
    PROVE  WordInv'
  <1> USE DEF WordInv, At, GoOn
  <1>0. PICK r \in Thread, l \in Lock : r = runnable /\ l = x17[runnable]
    BY DEF TypeOK, LinkInv, SvcRelease
  <1>00. PICK first \in Thread : first = word[l].blocked
    BY <1>0 DEF TypeOK
  <1> DEFINE n == ring.next[first]
             out == Remove(ring, first)
             head == IF n = first THEN NULL ELSE n
  <1>1. /\ pc \in [Thread -> Places] /\ x17 \in [Thread -> Lock \union {NULL}]
        /\ inside \in [Thread -> SUBSET Lock]
        /\ word \in [Lock -> [owner : Thread \union {NULL}, blocked : Thread \union {NULL}]]
        /\ ring \in Ring /\ WellLinked(ring) /\ n \in Thread
        /\ pc[r] = "svc_release" /\ x17[r] = l
        /\ Runs(r) /\ RingOf(ring, r) = {u \in Thread : Runs(u)}
    BY <1>0, RunnableFacts DEF TypeOK, LinkInv, ListsOK, SvcRelease, Ring
  <1>2. /\ UNCHANGED <<x17, bsod>> /\ monitor' = NULL
        /\ pc' = [pc EXCEPT ![r] = "run", ![first] = "run"]
        /\ inside' = [inside EXCEPT ![first] = @ \union {l}]
        /\ runnable' = first
        /\ ring' = InsertBefore(out, first, r)
        /\ word' = [word EXCEPT ![l] = [owner |-> first, blocked |-> head]]
    BY <1>0, <1>00 DEF SvcRelease, NextBlocked
  <1>3. /\ pc[first] = "blocked" /\ x17[first] = l /\ first # r
        /\ n \in BlockedOn(l) /\ RingOf(ring, first) = BlockedOn(l)
        /\ first \in BlockedOn(l)
    BY <1>0, <1>00, <1>1, LineFacts DEF BlockedOn
  <1>4. /\ out \in Ring /\ WellLinked(out) /\ Alone(out, first)
        /\ \A u \in Thread : Alone(ring, u) => Alone(out, u)
        /\ IF n = first THEN BlockedOn(l) = {first}
           ELSE RingOf(out, n) = BlockedOn(l) \ {first}
    <2>1. CASE n = first
      <3>1. Alone(ring, first)
        BY <1>1, <2>1 DEF WellLinked, Alone
      <3>2. out = ring
        BY <1>1, <3>1, RemoveAlone
      <3> QED
        BY <1>1, <1>3, <2>1, <3>1, <3>2, AloneRing
    <2>2. CASE n # first
      BY <1>1, <1>3, <2>2, RemoveFromRing
    <2> QED
      BY <2>1, <2>2
  <1>5. /\ RingOf(out, r) = RingOf(ring, r)
        /\ \A a \in Thread : pc[a] = "blocked" /\ x17[a] # l
                                => RingOf(out, a) = RingOf(ring, a)
    BY <1>1, <1>3, BlockedRing, RemoveElsewhere DEF Runs
  <1> HIDE DEF out, n
  <1>6. PICK new : ring' = new
    OBVIOUS
  <1>7. new = InsertBefore(out, first, r)
    BY <1>2, <1>6
  <1>8. /\ new \in Ring /\ WellLinked(new)
        /\ \A u \in Thread \ {first, r} : Alone(out, u) => Alone(new, u)
        /\ RingOf(new, first) = RingOf(ring, r) \union {first}
    BY <1>3, <1>4, <1>5, <1>7, InsertBeforeRing
  <1>9. /\ \A a \in Thread : pc[a] = "blocked" /\ x17[a] # l
                                => RingOf(new, a) = RingOf(ring, a)
        /\ n # first => RingOf(new, n) = BlockedOn(l) \ {first}
    <2>1. ASSUME NEW a \in Thread, pc[a] = "blocked", x17[a] # l
          PROVE  RingOf(new, a) = RingOf(ring, a)
      <3>1. first \notin RingOf(out, a) /\ r \notin RingOf(out, a)
        BY <1>1, <1>3, <1>5, <2>1, BlockedRing
      <3> QED
        BY <1>4, <1>5, <1>7, <2>1, <3>1, InsertElsewhere
    <2>2. ASSUME n # first PROVE RingOf(new, n) = BlockedOn(l) \ {first}
      <3>1. first \notin RingOf(out, n) /\ r \notin RingOf(out, n)
        BY <1>1, <1>4, <2>2 DEF BlockedOn
      <3> QED
        BY <1>1, <1>4, <1>7, <2>2, <3>1, InsertElsewhere
    <2> QED
      BY <2>1, <2>2
  <1>10. TypeOK'
    <2>1. pc' \in [Thread -> Places] /\ inside' \in [Thread -> SUBSET Lock]
      BY <1>1, <1>2 DEF Places
    <2>2. word' \in [Lock -> [owner : Thread \union {NULL}, blocked : Thread \union {NULL}]]
      BY <1>1, <1>2
    <2> QED
      BY <1>1, <1>2, <1>6, <1>8, <2>1, <2>2 DEF TypeOK
  <1>11. OwnerInv'
    <2> SUFFICES ASSUME NEW k \in Lock, NEW t \in Thread
                 PROVE  /\ word'[k].owner = t <=> (k \in inside'[t] \/ Releasing(t, k)')
                        /\ Releasing(t, k)' => k \notin inside'[t]
      BY DEF OwnerInv
    <2>1. /\ word[k].owner = t <=> (k \in inside[t] \/ Releasing(t, k))
          /\ Releasing(t, k) => k \notin inside[t]
      BY DEF OwnerInv
    <2>2. Releasing(t, k)' <=> Releasing(t, k) /\ t # r
      BY <1>1, <1>2, <1>3 DEF Releasing
    <2>3. k \in inside'[t] <=> k \in inside[t] \/ (t = first /\ k = l)
      BY <1>1, <1>2
    <2>4. CASE k # l
      <3>1. ~Releasing(r, k)
        BY <1>1, <2>4 DEF Releasing
      <3>2. word'[k] = word[k]
        BY <1>1, <1>2, <2>4
      <3> QED
        BY <2>1, <2>2, <2>3, <2>4, <3>1, <3>2
    <2>5. CASE k = l
      <3>1. Releasing(r, l) /\ word[l].owner = r /\ l \notin inside[r]
        BY <1>0, <1>1 DEF Releasing, OwnerInv
      <3>2. word'[k].owner = first
        BY <1>1, <1>2, <2>5
      <3>3. ~Releasing(first, l)
        BY <1>3 DEF Releasing
      <3> QED
        BY <1>3, <2>1, <2>2, <2>3, <2>5, <3>1, <3>2, <3>3
    <2> QED
      BY <2>4, <2>5
  <1>12. MonitorInv'
    BY <1>2 DEF MonitorInv
  <1>13. LinkInv'
    <2>1. \A u \in Thread : Runs(u)' <=> Runs(u) \/ u = first
      BY <1>1, <1>2 DEF Runs
    <2>2. RingOf(new, runnable') = {u \in Thread : Runs(u)'}
      BY <1>1, <1>2, <1>8, <2>1
    <2>3. /\ BlockedOn(l)' = BlockedOn(l) \ {first}
          /\ \A k \in Lock \ {l} : BlockedOn(k)' = BlockedOn(k)
      BY <1>1, <1>2, <1>3 DEF BlockedOn
    <2>4. ASSUME NEW k \in Lock
          PROVE  IF word'[k].blocked = NULL THEN BlockedOn(k)' = {}
                 ELSE RingOf(new, word'[k].blocked) = BlockedOn(k)'
      <3>1. CASE k = l
        <4>1. word'[k].blocked = head
          BY <1>1, <1>2, <3>1
        <4>2. n # NULL
          BY <1>1
        <4> QED
          BY <1>4, <1>9, <2>3, <3>1, <4>1, <4>2
      <3>2. CASE k # l
        <4>1. word'[k] = word[k]
          BY <1>1, <1>2, <3>2
        <4>2. CASE word[k].blocked = NULL
          BY <2>3, <3>2, <4>1, <4>2 DEF LinkInv, ListsOK
        <4>3. CASE word[k].blocked # NULL
          <5>1. /\ word[k].blocked \in BlockedOn(k)
                /\ RingOf(ring, word[k].blocked) = BlockedOn(k)
            BY <4>3, LineFacts
          <5>2. RingOf(new, word[k].blocked) = RingOf(ring, word[k].blocked)
            BY <1>9, <3>2, <5>1 DEF BlockedOn
          <5> QED
            BY <2>3, <3>2, <4>1, <4>3, <5>1, <5>2
        <4> QED
          BY <4>2, <4>3
      <3> QED
        BY <3>1, <3>2
    <2>5. Runs(Idle)'
      BY <2>1 DEF LinkInv
    <2>6. \A u \in Thread : /\ pc'[u] = "asleep" => Alone(new, u)
                            /\ pc'[u] \notin {"run", "asleep"} => x17'[u] \in Lock
      BY <1>1, <1>2, <1>4, <1>8 DEF LinkInv, Runs
    <2> QED
      BY <1>6, <1>8, <2>2, <2>4, <2>5, <2>6 DEF LinkInv, ListsOK
  <1> QED
    BY <1>10, <1>11, <1>12, <1>13

-----------------------------------------------------------------------------
(* The idle thread never goes near a lock. *)
LEMMA IdleKept ==
    ASSUME WordInv, IdleInv, Next
    PROVE  IdleInv'
  <1> USE DEF WordInv, At, GoOn
  <1>0. PICK r \in Thread : r = runnable
    BY DEF TypeOK
  <1>1. /\ pc \in [Thread -> Places] /\ inside \in [Thread -> SUBSET Lock]
        /\ pc[Idle] = "run" /\ inside[Idle] = {}
    BY DEF TypeOK, IdleInv
  <1>2. CASE \/ Yield \/ Sleep \/ Interrupt
             \/ \E t \in Thread : Wake(t) \/ InterruptWakes(t)
    BY <1>0, <1>1, <1>2 DEF IdleInv, Yield, Sleep, Interrupt, Wake, InterruptWakes
  <1>3. CASE \E l \in Lock : Claim(l) \/ Release(l)
    BY <1>0, <1>1, <1>3 DEF IdleInv, Claim, Release
  <1>4. CASE ClaimLoad \/ ClaimStore \/ ClaimAgain
    BY <1>0, <1>1, <1>4 DEF IdleInv, ClaimLoad, ClaimStore, ClaimAgain, Enter
  <1>5. CASE WaitNoNeed \/ WaitBlock
    BY <1>0, <1>1, <1>5 DEF IdleInv, WaitNoNeed, WaitBlock, Enter
  <1>6. CASE ReleaseLoad \/ ReleaseStore \/ ReleaseStoreFails \/ BSOD
    BY <1>0, <1>1, <1>6 DEF IdleInv, ReleaseLoad, ReleaseStore, ReleaseStoreFails,
                            BSOD
  <1>7. CASE SvcRelease
    <2>1. PICK l \in Lock : l = x17[r] /\ r # Idle
      BY <1>0, <1>1, <1>7 DEF SvcRelease, LinkInv
    <2>2. CASE word[l].blocked = NULL
      BY <1>0, <1>1, <1>7, <2>1, <2>2 DEF IdleInv, SvcRelease
    <2>3. CASE word[l].blocked # NULL
      <3>1. word[l].blocked \in Thread /\ word[l].blocked # Idle
        BY <1>1, <2>1, <2>3, LineFacts DEF BlockedOn
      <3> QED
        BY <1>0, <1>1, <1>7, <2>1, <2>3, <3>1 DEF IdleInv, SvcRelease
    <2> QED
      BY <2>2, <2>3
  <1>8. CASE Halted
    BY <1>8 DEF Halted, vars, IdleInv
  <1> QED
    BY <1>2, <1>3, <1>4, <1>5, <1>6, <1>7, <1>8 DEF Next

(* Every step preserves the invariant. *)
LEMMA NextLockInv == LockInv /\ [Next]_vars => LockInv'
  <1> SUFFICES ASSUME LockInv, [Next]_vars PROVE LockInv'
    OBVIOUS
  <1> USE DEF LockInv
  <1>1. CASE UNCHANGED vars
    BY <1>1 DEF vars, WordInv, IdleInv, TypeOK, OwnerInv, Releasing, MonitorInv,
                OnlyMine, LinkInv, ListsOK, Runs, BlockedOn
  <1>2. CASE Next
    <2>1. IdleInv'
      BY <1>2, IdleKept
    <2>2. WordInv'
      <3>1. CASE \/ Interrupt \/ ClaimLoad \/ ClaimAgain \/ ReleaseLoad
                 \/ ReleaseStoreFails \/ BSOD
        BY <3>1, PlainStepWordInv
      <3>2. CASE Yield \/ Sleep \/ \E t \in Thread : Wake(t) \/ InterruptWakes(t)
        BY <3>2, SchedulerWordInv
      <3>3. CASE \E l \in Lock : Claim(l) \/ Release(l)
        BY <3>3, SetOutWordInv
      <3>4. CASE ClaimStore \/ WaitNoNeed
        BY <3>4, TakeWordInv
      <3>5. CASE WaitBlock
        BY <3>5, WaitBlockWordInv
      <3>6. CASE ReleaseStore \/ SvcRelease
        BY <3>6, FreeWordInv, HandOverWordInv
      <3>7. CASE Halted
        BY <1>1, <3>7 DEF Halted
      <3> QED
        BY <1>2, <3>1, <3>2, <3>3, <3>4, <3>5, <3>6, <3>7 DEF Next
    <2> QED
      BY <2>1, <2>2
  <1> QED
    BY <1>1, <1>2

(* The inductive invariant holds in every reachable state, also when stxr  *)
(* fails for no reason.                                                    *)
THEOREM LockInvariant == Spec => []LockInv
  BY InitLockInv, NextLockInv, PTL DEF Spec

(* CLAIM_LOCK, RELEASE_LOCK and the two system calls give mutual           *)
(* exclusion, wherever interrupts strike.                                  *)
THEOREM LocksMutualExclusion == Spec => []MutualExclusion
  <1>1. LockInv => MutualExclusion
    <2> SUFFICES ASSUME LockInv, NEW t \in Thread, NEW u \in Thread, t # u,
                        NEW l \in Lock, l \in inside[t], l \in inside[u]
                 PROVE  FALSE
      BY DEF MutualExclusion, LockInv, WordInv, TypeOK
    <2> QED
      BY DEF LockInv, WordInv, OwnerInv
  <1> QED
    BY <1>1, LockInvariant, PTL

(* Every thread is in the list it belongs to: the ring of those that can   *)
(* run, or the line of the lock it waits for.                              *)
THEOREM LocksListsOK == Spec => []ListsOK
  <1>1. LockInv => ListsOK
    BY DEF LockInv, WordInv, LinkInv
  <1> QED
    BY <1>1, LockInvariant, PTL

-----------------------------------------------------------------------------
(* Nobody waits for a lock that nobody owns, and the kernel runs. *)
NoStopInv ==
    /\ ~bsod
    /\ \A l \in Lock : word[l].owner = NULL => word[l].blocked = NULL

(* Every check of the two handlers finds what it expects. *)
LEMMA NextNoStop ==
    ASSUME ~SpuriousFailure, LockInv, NoStopInv, [Next]_vars
    PROVE  NoStopInv'
  <1> USE DEF LockInv, WordInv, At
  <1>0. PICK r \in Thread : r = runnable
    BY DEF TypeOK
  <1>1. /\ word \in [Lock -> [owner : Thread \union {NULL}, blocked : Thread \union {NULL}]]
        /\ \A t \in Thread : IsReal(t)
    BY DEF TypeOK, LinkInv, WellLinked, IsReal
  <1>2. ~WaitStops
    <2> SUFFICES ASSUME WaitStops PROVE FALSE
      OBVIOUS
    <2>1. PICK l \in Lock : l = x17[r]
      BY <1>0 DEF WaitStops, LinkInv
    <2>2. WaitCheckFails(r, l) /\ word[l] # Free
      BY <1>0, <2>1 DEF WaitStops, MustWait
    <2>3. word[l].owner \in Thread
      BY <1>1, <2>2 DEF NoStopInv, Free
    <2>4. ring.next[r] # r
      BY <1>0, RunnableFacts DEF WaitStops, IdleInv
    <2>5. word[l].blocked # NULL => word[l].blocked \in Thread /\ x17[word[l].blocked] = l
      BY LineFacts DEF BlockedOn
    <2> QED
      BY <1>1, <2>2, <2>3, <2>4, <2>5 DEF WaitCheckFails
  <1>3. ~ReleaseStops
    <2> SUFFICES ASSUME ReleaseStops PROVE FALSE
      OBVIOUS
    <2>1. PICK l \in Lock : l = x17[r]
      BY <1>0 DEF ReleaseStops, LinkInv
    <2>2. ReleaseCheckFails(r, l)
      BY <1>0, <2>1 DEF ReleaseStops
    <2>3. word[l].owner = r
      BY <1>0, <2>1 DEF ReleaseStops, OwnerInv, Releasing
    <2>4. word[l] # Free
      BY <2>3 DEF Free
    <2>5. word[l].blocked # NULL => word[l].blocked \in Thread
      BY <1>1
    <2> QED
      BY <1>1, <2>2, <2>3, <2>4, <2>5 DEF ReleaseCheckFails
  <1>4. ~bsod'
    BY <1>2, <1>3 DEF BSOD, NoStopInv, Next, vars, Yield, Sleep, Wake, Interrupt, InterruptWakes,
           Claim, ClaimLoad, ClaimStore, ClaimAgain, WaitNoNeed, WaitBlock,
           Release, ReleaseLoad, ReleaseStore, ReleaseStoreFails, SvcRelease, Halted
  <1>5. ASSUME NEW k \in Lock, word'[k].owner = NULL PROVE word'[k].blocked = NULL
    <2>1. CASE word' = word
      BY <1>5, <2>1 DEF NoStopInv
    <2>2. CASE ClaimStore \/ WaitNoNeed \/ WaitBlock
      <3>1. PICK l \in Lock : l = x17[r]
        BY <1>0, <2>2 DEF ClaimStore, WaitNoNeed, WaitBlock, LinkInv
      <3>2. k # l => word'[k] = word[k]
        BY <1>0, <1>1, <2>2, <3>1 DEF ClaimStore, WaitNoNeed, WaitBlock
      <3>3. word'[l].owner # NULL
        <4>1. CASE ClaimStore
          BY <1>0, <1>1, <3>1, <4>1 DEF ClaimStore
        <4>2. CASE WaitNoNeed
          BY <1>0, <1>1, <3>1, <4>2 DEF WaitNoNeed
        <4>3. CASE WaitBlock
          BY <1>0, <1>1, <3>1, <4>3, ZenonT(30) DEF WaitBlock, WaitCheckFails, IsReal
        <4> QED
          BY <2>2, <4>1, <4>2, <4>3
      <3> QED
        BY <1>5, <3>2, <3>3 DEF NoStopInv
    <2>3. CASE ReleaseStore \/ SvcRelease
      <3>1. PICK l \in Lock : l = x17[r]
        BY <1>0, <2>3 DEF ReleaseStore, SvcRelease, LinkInv
      <3>2. k # l => word'[k] = word[k]
        BY <1>0, <1>1, <2>3, <3>1 DEF ReleaseStore, SvcRelease
      <3>3. word'[l].owner = NULL => word'[l].blocked = NULL
        BY <1>0, <1>1, <2>3, <3>1 DEF ReleaseStore, SvcRelease, Free
      <3> QED
        BY <1>5, <3>2, <3>3 DEF NoStopInv
    <2> QED
      BY <1>2, <1>3, <2>1, <2>2, <2>3 DEF Next, BSOD, vars, Yield, Sleep, Wake, Interrupt,
           InterruptWakes, Claim, ClaimLoad, ClaimAgain, Release, ReleaseLoad,
           ReleaseStoreFails, Halted
  <1> QED
    BY <1>4, <1>5 DEF NoStopInv

(* The kernel never stops in its lock handlers if stxr fails only when an  *)
(* interrupt has intervened.                                               *)
THEOREM LocksNeverStop ==
    ASSUME ~SpuriousFailure
    PROVE  Spec => []NeverStops
  <1>1. Init => NoStopInv
    BY DEF Init, NoStopInv, Free
  <1>2. LockInv /\ NoStopInv /\ [Next]_vars => NoStopInv'
    BY NextNoStop
  <1>3. NoStopInv => NeverStops
    BY DEF NoStopInv, NeverStops
  <1> QED
    BY <1>1, <1>2, <1>3, LockInvariant, PTL DEF Spec

-----------------------------------------------------------------------------
(* The order of those who wait.  Induction over numbers, as in the walk    *)
(* along a ring, is over a set of numbers.                                 *)

LEMMA NumbersInduction ==
    ASSUME NEW S \in SUBSET Nat, 0 \in S, \A n \in S : n + 1 \in S
    PROVE  S = Nat
  <1> DEFINE R == {ss \in Nat \X Nat : ss[1] < ss[2]}
  <1>1. IsWellFoundedOn(R, Nat)
    BY NatLessThanWellFounded, Zenon DEF OpToRel
  <1>2. \A m, n \in Nat : <<n, m>> \in R <=> n < m
    OBVIOUS
  <1> HIDE DEF R
  <1>3. SUFFICES ASSUME Nat \ S # {} PROVE FALSE
    OBVIOUS
  <1>4. PICK m \in Nat \ S : \A n \in Nat \ S : ~(<<n, m>> \in R)
    BY <1>1, <1>3, WFMin
  <1>5. m # 0 /\ m - 1 \in Nat
    BY <1>4
  <1>6. m - 1 \in S
    <2>1. m \in Nat /\ m - 1 < m
      BY <1>4
    <2>2. <<m - 1, m>> \in R
      BY <1>2, <1>5, <2>1
    <2>3. QED
      BY <1>4, <1>5, <2>2
  <1>7. QED
    BY <1>4, <1>5, <1>6

(* f is the walk of k threads along the links next, from first on. *)
Walks(f, next, first, k) ==
    f = [i \in 1 .. k |-> IF i = 1 THEN first ELSE next[f[i - 1]]]

(* There is such a walk, of any length. *)
LEMMA WalkExists ==
    ASSUME NEW next, NEW first, NEW k \in Nat
    PROVE  \E f : Walks(f, next, first, k)
  <1> DEFINE S == {n \in Nat : \E f : Walks(f, next, first, n)}
  <1>1. 0 \in S
    <2>1. Walks([i \in 1 .. 0 |-> first], next, first, 0)
      BY DEF Walks
    <2>2. QED
      BY <2>1
  <1>2. ASSUME NEW n \in S PROVE n + 1 \in S
    <2>1. PICK f : Walks(f, next, first, n)
      OBVIOUS
    <2>2. n \in Nat /\ n + 1 \in Nat
      OBVIOUS
    <2>3. /\ \A i \in 1 .. n : f[i] = IF i = 1 THEN first ELSE next[f[i - 1]]
      BY <2>1, <2>2 DEF Walks
    <2>4. PICK g : g = [i \in 1 .. n + 1 |-> IF i <= n THEN f[i]
                                             ELSE IF i = 1 THEN first ELSE next[f[n]]]
      OBVIOUS
    <2>5. ASSUME NEW i \in 1 .. n + 1
          PROVE  g[i] = IF i = 1 THEN first ELSE next[g[i - 1]]
      <3>1. CASE i <= n
        <4>1. i \in 1 .. n /\ i \in Int
          BY <2>2, <3>1
        <4>2. g[i] = f[i]
          BY <2>4, <3>1
        <4>3. i # 1 => g[i - 1] = f[i - 1]
          BY <2>2, <2>4, <4>1
        <4>4. QED
          BY <2>3, <4>1, <4>2, <4>3
      <3>2. CASE ~(i <= n)
        <4>1. i = n + 1
          BY <2>2, <3>2
        <4>2. g[i] = IF i = 1 THEN first ELSE next[f[n]]
          BY <2>4, <3>2
        <4>3. i # 1 => i - 1 = n /\ g[n] = f[n]
          BY <2>2, <2>4, <4>1
        <4>4. QED
          BY <4>2, <4>3
      <3>3. QED
        BY <3>1, <3>2
    <2>6. g = [i \in 1 .. n + 1 |-> IF i = 1 THEN first ELSE next[g[i - 1]]]
      BY <2>4, <2>5
    <2>7. Walks(g, next, first, n + 1)
      BY <2>6 DEF Walks
    <2>8. QED
      BY <2>2, <2>7
  <1>3. S = Nat
    <2> HIDE DEF S
    <2>1. S \in SUBSET Nat
      BY DEF S
    <2>2. QED
      BY <1>1, <1>2, <2>1, NumbersInduction
  <1>4. QED
    BY <1>3

(* q is the line of the threads S that starts with first: their number,    *)
(* each once, each linked to the next and the last one to the first.       *)
Line(next, first, S, q) ==
    /\ Cardinality(S) \in Nat \ {0}
    /\ q \in [1 .. Cardinality(S) -> S]
    /\ q[1] = first
    /\ \A i \in 1 .. Cardinality(S) :
          next[q[i]] = IF i = Cardinality(S) THEN first ELSE q[i + 1]
    /\ \A i, j \in 1 .. Cardinality(S) : q[i] = q[j] => i = j

(* The walk that QueueOf takes, for given links. *)
Walked(next, first, n) ==
    LET f == CHOOSE g : Walks(g, next, first, Cardinality(Thread))
    IN  [i \in 1 .. n |-> f[i]]

(* QueueOf is that walk, before and after a step. *)
LEMMA QueueIsWalk ==
    ASSUME NEW l
    PROVE  /\ word[l].blocked = NULL => QueueOf(l) = << >>
           /\ word[l].blocked # NULL =>
                 QueueOf(l) = Walked(ring.next, word[l].blocked, Cardinality(BlockedOn(l)))
           /\ word'[l].blocked = NULL => QueueOf(l)' = << >>
           /\ word'[l].blocked # NULL =>
                 QueueOf(l)' = Walked(ring'.next, word'[l].blocked, Cardinality(BlockedOn(l)'))
  BY Zenon DEF QueueOf, Walked, Walks

(* A line is what the walk along it yields. *)
LEMMA LineIsWalk ==
    ASSUME IsFiniteSet(Thread), NEW S \in SUBSET Thread, NEW next, NEW first, NEW q,
           Line(next, first, S, q)
    PROVE  Walked(next, first, Cardinality(S)) = q
  <1> DEFINE K == Cardinality(Thread)
             n == Cardinality(S)
             f == CHOOSE g : Walks(g, next, first, K)
  <1>1. K \in Nat /\ n \in Nat \ {0} /\ n <= K
    BY FS_CardinalityType, FS_Subset DEF Line
  <1>2. Walks(f, next, first, K)
    BY <1>1, WalkExists, Zenon
  <1>3. Walked(next, first, n) = [i \in 1 .. n |-> f[i]]
    BY DEF Walked
  <1>4. /\ q \in [1 .. n -> S] /\ q[1] = first
        /\ \A i \in 1 .. n : next[q[i]] = IF i = n THEN first ELSE q[i + 1]
    BY DEF Line
  <1> HIDE DEF K, n, f
  <1>5. \A i \in 1 .. K : f[i] = IF i = 1 THEN first ELSE next[f[i - 1]]
    BY <1>1, <1>2 DEF Walks
  <1> DEFINE T == {m \in Nat : m + 1 <= n => f[m + 1] = q[m + 1]}
  <1>6. 0 \in T
    BY <1>1, <1>4, <1>5
  <1>7. ASSUME NEW m \in T PROVE m + 1 \in T
    <2>1. m \in Nat
      OBVIOUS
    <2>2. SUFFICES ASSUME m + 2 <= n PROVE f[m + 2] = q[m + 2]
      BY <2>1
    <2>3. m + 1 \in 1 .. n /\ m + 1 # n /\ m + 2 \in 1 .. K /\ m + 2 # 1
      BY <1>1, <2>1, <2>2
    <2>4. f[m + 1] = q[m + 1]
      BY <2>1, <2>2, <1>1
    <2>5. next[q[m + 1]] = q[m + 2]
      BY <1>4, <2>1, <2>3
    <2>6. f[m + 2] = next[f[m + 1]]
      BY <1>5, <2>1, <2>3
    <2>7. QED
      BY <2>4, <2>5, <2>6
  <1>8. T = Nat
    <2> HIDE DEF T
    <2>1. T \in SUBSET Nat
      BY DEF T
    <2>2. QED
      BY <1>6, <1>7, <2>1, NumbersInduction
  <1>9. ASSUME NEW i \in 1 .. n PROVE f[i] = q[i]
    <2>1. i - 1 \in Nat /\ (i - 1) + 1 = i
      BY <1>1
    <2>2. i - 1 \in T
      BY <1>8, <2>1
    <2>3. QED
      BY <1>1, <2>1, <2>2
  <1>10. QED
    BY <1>3, <1>4, <1>9 DEF n

(* Links elsewhere do not matter to a line. *)
LEMMA LineFrame ==
    ASSUME NEW S, NEW next, NEW other, NEW first, NEW q, Line(next, first, S, q),
           \A t \in S : other[t] = next[t]
    PROVE  Line(other, first, S, q)
  BY DEF Line

(* A thread in a ring of its own is a line of one. *)
LEMMA LineOfOne ==
    ASSUME NEW r, NEW next, next[r] = r
    PROVE  Line(next, r, {r}, <<r>>)
  <1>1. Cardinality({r}) = 1
    BY FS_Singleton
  <1>2. PICK q : q = <<r>>
    OBVIOUS
  <1>3. q \in [1 .. 1 -> {r}] /\ q[1] = r
    BY <1>2
  <1>4. \A i \in 1 .. 1 : i = 1
    OBVIOUS
  <1>5. Line(next, r, {r}, q)
    BY <1>1, <1>3, <1>4 DEF Line
  <1>6. QED
    BY <1>2, <1>5

(* insert_thread_at_tail puts a thread behind the last of the line. *)
LEMMA LineJoined ==
    ASSUME NEW links \in Ring, WellLinked(links), NEW S \in SUBSET Thread, IsFiniteSet(S),
           NEW first \in Thread, NEW q, Line(links.next, first, S, q),
           NEW r \in Thread, r \notin S
    PROVE  Line(InsertBefore(links, r, first).next, first, S \union {r}, Append(q, r))
  <1> DEFINE n == Cardinality(S)
             new == InsertBefore(links, r, first).next
             p == Append(q, r)
  <1>1. /\ n \in Nat \ {0} /\ q \in [1 .. n -> S] /\ q[1] = first
        /\ \A i \in 1 .. n : links.next[q[i]] = IF i = n THEN first ELSE q[i + 1]
        /\ \A i, j \in 1 .. n : q[i] = q[j] => i = j
    BY DEF Line
  <1>2. Cardinality(S \union {r}) = n + 1
    BY FS_AddElement
  <1>3. /\ links.next \in [Thread -> Thread] /\ links.prev \in [Thread -> Thread]
        /\ \A t \in Thread : links.prev[links.next[t]] = t
    BY DEF Ring, WellLinked
  <1>4. n \in 1 .. n /\ q[n] \in Thread /\ links.prev[first] = q[n]
    BY <1>1, <1>3
  <1>5. new = [links.next EXCEPT ![r] = first, ![links.prev[first]] = r]
    BY DEF InsertBefore
  <1> HIDE DEF n, new
  <1>6. /\ new[q[n]] = r /\ new[r] = first
        /\ \A t \in S : t # q[n] => new[t] = links.next[t]
    BY <1>1, <1>3, <1>4, <1>5
  <1>7. q \in Seq(S) /\ Len(q) = n /\ q \in Seq(Thread)
    BY <1>1
  <1>8. /\ p \in [1 .. n + 1 -> S \union {r}] /\ p[n + 1] = r
        /\ \A i \in 1 .. n : p[i] = q[i]
    <2>1. n \in Nat /\ q \in Seq(S \union {r}) /\ r \in S \union {r}
      BY <1>1
    <2>2. /\ p \in Seq(S \union {r}) /\ Len(p) = n + 1 /\ p[n + 1] = r
          /\ \A i \in 1 .. n : p[i] = q[i]
      BY <1>7, <2>1
    <2> HIDE DEF p
    <2>3. p \in [1 .. n + 1 -> S \union {r}]
      BY <2>1, <2>2
    <2>4. QED
      BY <2>2, <2>3
  <1> HIDE DEF p
  <1>9. p[1] = first
    BY <1>1, <1>8
  <1>10. ASSUME NEW i \in 1 .. n + 1
         PROVE  new[p[i]] = IF i = n + 1 THEN first ELSE p[i + 1]
    <2>1. CASE i = n + 1
      BY <1>6, <1>8, <2>1
    <2>2. CASE i = n
      BY <1>1, <1>4, <1>6, <1>8, <2>2
    <2>3. CASE i # n /\ i # n + 1
      <3>1. i \in 1 .. n /\ i + 1 \in 1 .. n
        BY <1>1, <2>3
      <3>2. p[i] = q[i] /\ p[i + 1] = q[i + 1] /\ q[i] \in S
        BY <1>1, <1>8, <3>1
      <3>3. q[i] # q[n]
        BY <1>1, <1>4, <2>3, <3>1
      <3>4. new[q[i]] = links.next[q[i]]
        BY <1>6, <3>2, <3>3
      <3>5. links.next[q[i]] = q[i + 1]
        BY <1>1, <2>3, <3>1
      <3>6. QED
        BY <2>3, <3>2, <3>4, <3>5
    <2>4. QED
      BY <2>1, <2>2, <2>3
  <1>11. ASSUME NEW i \in 1 .. n + 1, NEW j \in 1 .. n + 1, p[i] = p[j]
         PROVE  i = j
    <2>1. \A k \in 1 .. n + 1 : k = n + 1 \/ k \in 1 .. n
      BY <1>1
    <2>2. \A k \in 1 .. n : p[k] \in S /\ p[k] # r
      BY <1>1, <1>8
    <2>3. CASE i \in 1 .. n /\ j \in 1 .. n
      BY <1>1, <1>8, <1>11, <2>3
    <2>4. QED
      BY <1>8, <1>11, <2>1, <2>2, <2>3
  <1>12. n + 1 \in Nat \ {0}
    BY <1>1
  <1>13. Line(new, first, S \union {r}, p)
    <2>1. PICK T, c : T = S \union {r} /\ c = n + 1
      OBVIOUS
    <2>2. Cardinality(T) = c /\ c \in Nat \ {0} /\ p \in [1 .. c -> T]
      BY <1>2, <1>8, <1>12, <2>1
    <2>3. \A i \in 1 .. c : new[p[i]] = IF i = c THEN first ELSE p[i + 1]
      BY <1>10, <2>1
    <2>4. \A i, j \in 1 .. c : p[i] = p[j] => i = j
      BY <1>11, <2>1
    <2>5. Line(new, first, T, p)
      BY <1>9, <2>2, <2>3, <2>4 DEF Line
    <2>6. QED
      BY <2>1, <2>5
  <1>14. QED
    BY <1>13 DEF new, p

(* remove_thread of the first leaves the line behind it. *)
LEMMA LineLeft ==
    ASSUME NEW links \in Ring, WellLinked(links), NEW S \in SUBSET Thread, IsFiniteSet(S),
           NEW first \in Thread, NEW q, Line(links.next, first, S, q),
           links.next[first] # first
    PROVE  /\ Line(Remove(links, first).next, links.next[first], S \ {first}, Tail(q))
           /\ q # << >> /\ Head(q) = first
  <1> DEFINE n == Cardinality(S)
             new == Remove(links, first).next
             p == Tail(q)
  <1>1. /\ n \in Nat \ {0} /\ q \in [1 .. n -> S] /\ q[1] = first
        /\ \A i \in 1 .. n : links.next[q[i]] = IF i = n THEN first ELSE q[i + 1]
        /\ \A i, j \in 1 .. n : q[i] = q[j] => i = j
    BY DEF Line
  <1>2. first \in S
    BY <1>1
  <1>3. Cardinality(S \ {first}) = n - 1
    BY <1>2, FS_RemoveElement
  <1>4. /\ links.next \in [Thread -> Thread] /\ links.prev \in [Thread -> Thread]
        /\ \A t \in Thread : links.prev[links.next[t]] = t
    BY DEF Ring, WellLinked
  <1>5. new = [links.next EXCEPT ![links.prev[first]] = links.next[first], ![first] = first]
    BY DEF Remove
  <1> HIDE DEF n, new
  <1>6. n \in 1 .. n /\ 1 \in 1 .. n /\ q[n] \in S /\ q[n] \in Thread /\ links.prev[first] = q[n]
    BY <1>1, <1>4
  <1>7. n > 1 /\ links.next[first] = q[2] /\ q[n] # first
    <2>1. n # 1
      BY <1>1, <1>6
    <2>2. QED
      BY <1>1, <1>6, <2>1
  <1>8. /\ new[q[n]] = q[2]
        /\ \A t \in S : t # q[n] /\ t # first => new[t] = links.next[t]
    BY <1>1, <1>4, <1>5, <1>6, <1>7
  <1>9. q \in Seq(S) /\ Len(q) = n /\ q # << >>
    BY <1>1
  <1>10. /\ p \in Seq(S) /\ Len(p) = n - 1 /\ \A i \in 1 .. n - 1 : p[i] = q[i + 1]
         /\ Head(q) = first
    BY <1>1, <1>9
  <1> HIDE DEF p
  <1>11. \A i \in 1 .. n - 1 : /\ i + 1 \in 1 .. n /\ i + 1 # 1 /\ p[i] = q[i + 1]
                               /\ p[i] \in S \ {first}
    BY <1>1, <1>6, <1>10
  <1>12. p \in [1 .. n - 1 -> S \ {first}]
    <2>1. p \in [1 .. n - 1 -> S]
      BY <1>1, <1>10
    <2>2. QED
      BY <1>11, <2>1
  <1>13. p[1] = links.next[first]
    BY <1>1, <1>7, <1>11
  <1>14. ASSUME NEW i \in 1 .. n - 1
         PROVE  new[p[i]] = IF i = n - 1 THEN links.next[first] ELSE p[i + 1]
    <2>1. CASE i = n - 1
      BY <1>1, <1>7, <1>8, <1>11, <2>1
    <2>2. CASE i # n - 1
      <3>1. i + 1 \in 1 .. n /\ i + 1 # n /\ i + 1 \in 1 .. n - 1
        BY <1>1, <2>2
      <3>2. p[i] = q[i + 1] /\ p[i] \in S /\ p[i] # first /\ p[i + 1] = q[(i + 1) + 1]
        BY <1>11, <3>1
      <3>3. q[i + 1] # q[n]
        BY <1>1, <1>6, <3>1
      <3>4. new[p[i]] = links.next[q[i + 1]]
        BY <1>8, <3>2, <3>3
      <3>5. links.next[q[i + 1]] = q[(i + 1) + 1]
        BY <1>1, <3>1
      <3>6. QED
        BY <2>2, <3>2, <3>4, <3>5
    <2>3. QED
      BY <2>1, <2>2
  <1>15. ASSUME NEW i \in 1 .. n - 1, NEW j \in 1 .. n - 1, p[i] = p[j]
         PROVE  i = j
    <2>1. q[i + 1] = q[j + 1] /\ i + 1 \in 1 .. n /\ j + 1 \in 1 .. n
      BY <1>11, <1>15
    <2>2. i + 1 = j + 1
      BY <1>1, <2>1
    <2>3. QED
      BY <2>2
  <1>16. n - 1 \in Nat \ {0}
    BY <1>1, <1>7
  <1>17. Line(new, links.next[first], S \ {first}, p)
    <2>1. PICK T, c : T = S \ {first} /\ c = n - 1
      OBVIOUS
    <2>2. Cardinality(T) = c /\ c \in Nat \ {0} /\ p \in [1 .. c -> T]
      BY <1>3, <1>12, <1>16, <2>1
    <2>3. \A i \in 1 .. c : new[p[i]] = IF i = c THEN links.next[first] ELSE p[i + 1]
      BY <1>14, <2>1
    <2>4. \A i, j \in 1 .. c : p[i] = p[j] => i = j
      BY <1>15, <2>1
    <2>5. Line(new, links.next[first], T, p)
      BY <1>13, <2>2, <2>3, <2>4 DEF Line
    <2>6. QED
      BY <2>1, <2>5
  <1>18. QED
    BY <1>9, <1>10, <1>17 DEF new, p

-----------------------------------------------------------------------------
(* The threads that wait for a lock are a line, from the first on. *)
HasLine(l) ==
    word[l].blocked # NULL =>
        \E q : Line(ring.next, word[l].blocked, BlockedOn(l), q)

LinesInv == \A l \in Lock : HasLine(l)

(* A lock keeps its line as long as nobody joins or leaves it. *)
LEMMA QueueKept ==
    ASSUME IsFiniteSet(Thread), NEW l \in Lock, HasLine(l),
           word'[l].blocked = word[l].blocked, BlockedOn(l)' = BlockedOn(l),
           word[l].blocked # NULL => \A t \in BlockedOn(l) : ring'.next[t] = ring.next[t]
    PROVE  HasLine(l)' /\ QueueOf(l)' = QueueOf(l)
  <1>1. CASE word[l].blocked = NULL
    BY <1>1, QueueIsWalk DEF HasLine
  <1>2. CASE word[l].blocked # NULL
    <2>1. PICK q : Line(ring.next, word[l].blocked, BlockedOn(l), q)
      BY <1>2 DEF HasLine
    <2>2. Line(ring'.next, word[l].blocked, BlockedOn(l), q)
      BY <1>2, <2>1, LineFrame
    <2>3. BlockedOn(l) \in SUBSET Thread
      BY DEF BlockedOn
    <2>4. /\ Walked(ring.next, word[l].blocked, Cardinality(BlockedOn(l))) = q
          /\ Walked(ring'.next, word[l].blocked, Cardinality(BlockedOn(l))) = q
      BY <2>1, <2>2, <2>3, LineIsWalk
    <2>5. QueueOf(l) = q /\ QueueOf(l)' = q
      BY <1>2, <2>4, QueueIsWalk
    <2>6. HasLine(l)'
      BY <2>2 DEF HasLine
    <2>7. QED
      BY <2>5, <2>6
  <1>3. QED
    BY <1>1, <1>2

(* The line of a lock, and what QueueOf makes of it. *)
LEMMA QueueIsLine ==
    ASSUME IsFiniteSet(Thread), NEW l \in Lock, NEW q,
           word[l].blocked # NULL, Line(ring.next, word[l].blocked, BlockedOn(l), q)
    PROVE  QueueOf(l) = q
  <1>1. BlockedOn(l) \in SUBSET Thread
    BY DEF BlockedOn
  <1>2. QED
    BY <1>1, LineIsWalk, QueueIsWalk

(* The same after a step. *)
LEMMA NextQueueIsLine ==
    ASSUME IsFiniteSet(Thread), NEW l \in Lock, NEW q,
           word'[l].blocked # NULL, Line(ring'.next, word'[l].blocked, BlockedOn(l)', q)
    PROVE  QueueOf(l)' = q /\ HasLine(l)'
  <1>1. BlockedOn(l)' \in SUBSET Thread
    BY DEF BlockedOn
  <1>2. QueueOf(l)' = q
    BY <1>1, LineIsWalk, QueueIsWalk
  <1>3. HasLine(l)'
    BY DEF HasLine
  <1>4. QED
    BY <1>2, <1>3

(* The locks whose words and lines a step leaves alone. *)
Kept(l) ==
    /\ word'[l].owner = word[l].owner
    /\ HasLine(l)'
    /\ QueueOf(l)' = QueueOf(l)

(* A step of the running thread that touches no list keeps every line. *)
LEMMA StillKept ==
    ASSUME IsFiniteSet(Thread), TypeOK, LinkInv, LinesInv, ring' = ring,
           NEW l \in Lock, word'[l].blocked = word[l].blocked,
           \A t \in Thread \ {runnable} : pc'[t] = pc[t] /\ x17'[t] = x17[t],
           pc'[runnable] # "blocked"
    PROVE  HasLine(l)' /\ QueueOf(l)' = QueueOf(l)
  <1>1. runnable \in Thread /\ Runs(runnable)
    BY RunnableFacts
  <1>2. BlockedOn(l)' = BlockedOn(l)
    BY <1>1 DEF BlockedOn, Runs
  <1>3. QED
    BY <1>2, QueueKept DEF LinesInv

(* Yield, sleep and the ways to wake a thread change no line: the links    *)
(* they write are those of threads that can run, or sleep.                 *)
LEMMA SchedulerKept ==
    ASSUME IsFiniteSet(Thread), TypeOK, LinkInv, LinesInv, NEW l \in Lock,
           \/ Yield \/ Sleep
           \/ \E t \in Thread : Wake(t) \/ InterruptWakes(t)
    PROVE  Kept(l)
  <1> USE DEF At, GoOn
  <1>0. PICK r \in Thread : r = runnable
    BY DEF TypeOK
  <1>1. /\ pc \in [Thread -> Places] /\ ring \in Ring
        /\ ring.next \in [Thread -> Thread] /\ ring.prev \in [Thread -> Thread]
        /\ UNCHANGED <<word, x17>>
        /\ Runs(r) /\ Runs(ring.prev[r]) /\ ring.prev[r] \in Thread
    <2>1. r \in RingOf(ring, r) /\ Closed(ring, RingOf(ring, r))
      BY <1>0, SelfInRing, RingClosed DEF TypeOK
    <2>2. RingOf(ring, r) = {u \in Thread : Runs(u)}
      BY <1>0 DEF LinkInv, ListsOK
    <2>3. QED
      BY <2>1, <2>2 DEF Closed, TypeOK, Ring, Yield, Sleep, Wake, InterruptWakes
  <1>2. ASSUME NEW t \in Thread, pc[t] = "blocked"
        PROVE  ring'.next[t] = ring.next[t] /\ pc'[t] = "blocked"
    <2>1. t # r /\ t # ring.prev[r]
      BY <1>1, <1>2 DEF Runs
    <2>2. CASE Yield
      BY <1>2, <2>2 DEF Yield
    <2>3. CASE Sleep
      BY <1>0, <1>1, <1>2, <2>1, <2>3 DEF Sleep, Remove
    <2>4. ASSUME NEW w \in Thread, Wake(w) PROVE ring'.next[t] = ring.next[t] /\ pc'[t] = "blocked"
      <3>1. t # w
        BY <1>2, <2>4 DEF Wake
      <3>2. QED
        BY <1>0, <1>1, <1>2, <2>1, <2>4, <3>1 DEF Wake, InsertAfter
    <2>5. ASSUME NEW w \in Thread, InterruptWakes(w)
          PROVE  ring'.next[t] = ring.next[t] /\ pc'[t] = "blocked"
      <3>1. t # w
        BY <1>2, <2>5 DEF InterruptWakes
      <3>2. QED
        BY <1>0, <1>1, <1>2, <2>1, <2>5, <3>1 DEF InterruptWakes, InsertBefore
    <2>6. QED
      BY <2>2, <2>3, <2>4, <2>5
  <1>3. ASSUME NEW t \in Thread, pc[t] # "blocked" PROVE pc'[t] # "blocked"
    BY <1>0, <1>1, <1>3 DEF Yield, Sleep, Wake, InterruptWakes
  <1>4. BlockedOn(l)' = BlockedOn(l)
    BY <1>1, <1>2, <1>3 DEF BlockedOn
  <1>5. \A t \in BlockedOn(l) : ring'.next[t] = ring.next[t]
    BY <1>2 DEF BlockedOn
  <1>6. QED
    BY <1>1, <1>4, <1>5, QueueKept DEF Kept, LinesInv

-----------------------------------------------------------------------------
(* The steps of LockService, from what a step does to one lock. *)

(* A step that keeps every lock is a stutter. *)
LEMMA AllKept ==
    ASSUME \A l \in Lock : Kept(l)
    PROVE  LinesInv' /\ UNCHANGED Service!serviceVars
  BY DEF Kept, LinesInv, Service!serviceVars

(* A free lock is taken. *)
LEMMA TakeStep ==
    ASSUME NEW l \in Lock, NEW t \in Thread, \A k \in Lock \ {l} : Kept(k),
           word[l].owner = NULL, word'[l].owner = t,
           HasLine(l)', QueueOf(l)' = QueueOf(l)
    PROVE  LinesInv' /\ Service!ServiceNext
  <1>1. LinesInv'
    BY DEF Kept, LinesInv
  <1>2. [k \in Lock |-> word'[k].owner] = [[k \in Lock |-> word[k].owner] EXCEPT ![l] = t]
    <2>1. \A k \in Lock : word'[k].owner = IF k = l THEN t ELSE word[k].owner
      BY DEF Kept
    <2>2. [k \in Lock |-> word'[k].owner] = [k \in Lock |-> IF k = l THEN t ELSE word[k].owner]
      BY <2>1
    <2>3. QED
      BY <2>2
  <1>3. [k \in Lock |-> QueueOf(k)'] = [k \in Lock |-> QueueOf(k)]
    BY DEF Kept
  <1>4. Service!Take(t, l)
    BY <1>2, <1>3 DEF Service!Take
  <1>5. QED
    BY <1>1, <1>4 DEF Service!ServiceNext

(* A thread joins the line of a lock that another one holds. *)
LEMMA JoinStep ==
    ASSUME NEW l \in Lock, NEW t \in Thread, \A k \in Lock \ {l} : Kept(k),
           word[l].owner \notin {NULL, t}, word'[l].owner = word[l].owner,
           HasLine(l)', QueueOf(l)' = Append(QueueOf(l), t)
    PROVE  LinesInv' /\ Service!ServiceNext
  <1>1. LinesInv'
    BY DEF Kept, LinesInv
  <1>2. [k \in Lock |-> word'[k].owner] = [k \in Lock |-> word[k].owner]
    BY DEF Kept
  <1>3. [k \in Lock |-> QueueOf(k)'] =
            [[k \in Lock |-> QueueOf(k)] EXCEPT ![l] = Append(QueueOf(l), t)]
    <2>1. PICK q : q = Append(QueueOf(l), t)
      OBVIOUS
    <2>2. QueueOf(l)' = q /\ \A k \in Lock \ {l} : QueueOf(k)' = QueueOf(k)
      BY <2>1 DEF Kept
    <2>3. [k \in Lock |-> QueueOf(k)'] = [[k \in Lock |-> QueueOf(k)] EXCEPT ![l] = q]
      BY <2>2
    <2>4. QED
      BY <2>1, <2>3
  <1>4. Service!Join(t, l)
    BY <1>2, <1>3 DEF Service!Join
  <1>5. QED
    BY <1>1, <1>4 DEF Service!ServiceNext

(* A lock nobody waits for becomes free. *)
LEMMA FreeStep ==
    ASSUME NEW l \in Lock, \A k \in Lock \ {l} : Kept(k),
           word[l].owner # NULL, word'[l].owner = NULL,
           HasLine(l)', QueueOf(l) = << >>, QueueOf(l)' = << >>
    PROVE  LinesInv' /\ Service!ServiceNext
  <1>1. LinesInv'
    BY DEF Kept, LinesInv
  <1>2. [k \in Lock |-> word'[k].owner] = [[k \in Lock |-> word[k].owner] EXCEPT ![l] = NULL]
    <2>1. \A k \in Lock : word'[k].owner = IF k = l THEN NULL ELSE word[k].owner
      BY DEF Kept
    <2>2. [k \in Lock |-> word'[k].owner] = [k \in Lock |-> IF k = l THEN NULL ELSE word[k].owner]
      BY <2>1
    <2>3. QED
      BY <2>2
  <1>3. [k \in Lock |-> QueueOf(k)'] = [k \in Lock |-> QueueOf(k)]
    BY DEF Kept
  <1>4. Service!Give(l)
    BY <1>2, <1>3 DEF Service!Give
  <1>5. QED
    BY <1>1, <1>4 DEF Service!ServiceNext

(* The first in the line gets the lock. *)
LEMMA GiveStep ==
    ASSUME NEW l \in Lock, \A k \in Lock \ {l} : Kept(k),
           word[l].owner # NULL, QueueOf(l) # << >>, word'[l].owner = Head(QueueOf(l)),
           HasLine(l)', QueueOf(l)' = Tail(QueueOf(l))
    PROVE  LinesInv' /\ Service!ServiceNext
  <1>1. LinesInv'
    BY DEF Kept, LinesInv
  <1>2. [k \in Lock |-> word'[k].owner] =
            [[k \in Lock |-> word[k].owner] EXCEPT ![l] = Head(QueueOf(l))]
    BY DEF Kept
  <1>3. [k \in Lock |-> QueueOf(k)'] =
            [[k \in Lock |-> QueueOf(k)] EXCEPT ![l] = Tail(QueueOf(l))]
    <2>1. PICK q : q = Tail(QueueOf(l))
      OBVIOUS
    <2>2. QueueOf(l)' = q /\ \A k \in Lock \ {l} : QueueOf(k)' = QueueOf(k)
      BY <2>1 DEF Kept
    <2>3. [k \in Lock |-> QueueOf(k)'] = [[k \in Lock |-> QueueOf(k)] EXCEPT ![l] = q]
      BY <2>2
    <2>4. QED
      BY <2>1, <2>3
  <1>4. Service!Give(l)
    BY <1>2, <1>3 DEF Service!Give
  <1>5. QED
    BY <1>1, <1>4 DEF Service!ServiceNext

-----------------------------------------------------------------------------
(* What each step is a step of. *)

(* The steps that write no word and touch no list. *)
LEMMA PlainImplements ==
    ASSUME IsFiniteSet(Thread), LockInv, LinesInv,
           \/ Interrupt \/ ClaimLoad \/ ClaimAgain \/ ReleaseLoad
           \/ ReleaseStoreFails \/ BSOD
           \/ \E l \in Lock : Claim(l) \/ Release(l)
    PROVE  LinesInv' /\ UNCHANGED Service!serviceVars
  <1> USE DEF LockInv, WordInv, At, GoOn
  <1>0. PICK r \in Thread : r = runnable
    BY DEF TypeOK
  <1>1. /\ pc \in [Thread -> Places] /\ x17 \in [Thread -> Lock \union {NULL}]
        /\ Runs(r)
    BY <1>0, RunnableFacts DEF TypeOK
  <1>2. UNCHANGED <<ring, runnable, word>>
    BY DEF Interrupt, ClaimLoad, ClaimAgain, ReleaseLoad, ReleaseStoreFails,
           BSOD, Claim, Release
  <1>3. /\ \A t \in Thread \ {r} : pc'[t] = pc[t] /\ x17'[t] = x17[t]
        /\ pc'[r] # "blocked"
    BY <1>0, <1>1 DEF Interrupt, ClaimLoad, ClaimAgain, ReleaseLoad, ReleaseStoreFails,
           BSOD, Claim, Release, Runs
  <1>4. \A l \in Lock : Kept(l)
    BY <1>0, <1>2, <1>3, StillKept DEF Kept
  <1>5. QED
    BY <1>4, AllKept

(* A claim that finds the lock free takes it; the system call may also     *)
(* find that the thread has it already.                                    *)
LEMMA TakeImplements ==
    ASSUME IsFiniteSet(Thread), LockInv, LinesInv, ClaimStore \/ WaitNoNeed
    PROVE  LinesInv' /\ [Service!ServiceNext]_(Service!serviceVars)
  <1> USE DEF LockInv, WordInv, At, GoOn
  <1>0. PICK r \in Thread, l \in Lock : r = runnable /\ l = x17[runnable]
    BY DEF TypeOK, LinkInv, ClaimStore, WaitNoNeed
  <1>1. /\ pc \in [Thread -> Places]
        /\ word \in [Lock -> [owner : Thread \union {NULL}, blocked : Thread \union {NULL}]]
        /\ UNCHANGED <<ring, runnable, x17>>
        /\ pc' = [pc EXCEPT ![r] = "run"]
    BY <1>0 DEF TypeOK, ClaimStore, WaitNoNeed, Enter
  <1>2. /\ word[l] = Free \/ OnlyMine(r, word[l])
        /\ word' = [word EXCEPT ![l] = [owner |-> r, blocked |-> NULL]]
    <2>1. CASE ClaimStore
      <3>1. word[l] = Free
        BY <1>0, <2>1 DEF ClaimStore, MonitorInv, StoreFails
      <3>2. QED
        BY <1>0, <2>1, <3>1 DEF ClaimStore
    <2>2. CASE WaitNoNeed
      <3>1. word[l] = Free \/ OnlyMine(r, word[l])
        BY <1>0, <2>2 DEF WaitNoNeed, MustWait
      <3>2. word' = [word EXCEPT ![l] = [owner |-> r, blocked |-> word[l].blocked]]
        <4>1. word' = [word EXCEPT ![l] = [word[l] EXCEPT !.owner = r]]
          BY <1>0, <2>2 DEF WaitNoNeed
        <4>2. [word[l] EXCEPT !.owner = r] = [owner |-> r, blocked |-> word[l].blocked]
          BY <1>1
        <4>3. QED
          BY <4>1, <4>2
      <3>3. word[l].blocked = NULL
        BY <3>1 DEF Free, OnlyMine
      <3>4. QED
        BY <3>1, <3>2, <3>3
    <2>3. QED
      BY <2>1, <2>2
  <1>3. /\ word[l].blocked = NULL /\ word[l].owner \in {NULL, r}
        /\ word'[l].blocked = NULL /\ word'[l].owner = r
        /\ \A k \in Lock \ {l} : word'[k] = word[k]
    BY <1>1, <1>2 DEF Free, OnlyMine
  <1>4. \A t \in Thread \ {r} : pc'[t] = pc[t] /\ x17'[t] = x17[t]
    BY <1>1
  <1>5. pc'[r] # "blocked"
    BY <1>1
  <1>6. \A k \in Lock : HasLine(k)' /\ QueueOf(k)' = QueueOf(k)
    BY <1>0, <1>1, <1>3, <1>4, <1>5, StillKept
  <1>7. \A k \in Lock \ {l} : Kept(k)
    BY <1>3, <1>6 DEF Kept
  <1>8. CASE word[l].owner = NULL
    BY <1>3, <1>6, <1>7, <1>8, TakeStep
  <1>9. CASE word[l].owner = r
    <2>1. Kept(l)
      BY <1>3, <1>6, <1>9 DEF Kept
    <2>2. QED
      BY <1>7, <2>1, AllKept
  <1>10. QED
    BY <1>3, <1>8, <1>9

(* A release with nobody waiting, at EL0 or in the kernel. *)
LEMMA FreeImplements ==
    ASSUME IsFiniteSet(Thread), LockInv, LinesInv,
           ReleaseStore \/ (SvcRelease /\ word[x17[runnable]].blocked = NULL)
    PROVE  LinesInv' /\ Service!ServiceNext
  <1> USE DEF LockInv, WordInv, At, GoOn
  <1>0. PICK r \in Thread, l \in Lock : r = runnable /\ l = x17[runnable]
    BY DEF TypeOK, LinkInv, ReleaseStore, SvcRelease
  <1>1. /\ pc \in [Thread -> Places]
        /\ word \in [Lock -> [owner : Thread \union {NULL}, blocked : Thread \union {NULL}]]
        /\ UNCHANGED <<ring, runnable, x17>>
        /\ pc' = [pc EXCEPT ![r] = "run"]
        /\ word' = [word EXCEPT ![l] = Free]
    BY <1>0 DEF TypeOK, ReleaseStore, SvcRelease
  <1>2. word[l].blocked = NULL /\ word[l].owner = r
    BY <1>0 DEF ReleaseStore, SvcRelease, MonitorInv, StoreFails, OnlyMine, ReleaseCheckFails
  <1>3. /\ word'[l].blocked = NULL /\ word'[l].owner = NULL
        /\ \A k \in Lock \ {l} : word'[k] = word[k]
    BY <1>1 DEF Free
  <1>4. \A t \in Thread \ {r} : pc'[t] = pc[t] /\ x17'[t] = x17[t]
    BY <1>1
  <1>5. pc'[r] # "blocked"
    BY <1>1
  <1>6. \A k \in Lock : HasLine(k)' /\ QueueOf(k)' = QueueOf(k)
    BY <1>0, <1>1, <1>2, <1>3, <1>4, <1>5, StillKept
  <1>7. \A k \in Lock \ {l} : Kept(k)
    BY <1>3, <1>6 DEF Kept
  <1>8. QueueOf(l) = << >>
    BY <1>2, QueueIsWalk
  <1>9. r # NULL
    OBVIOUS
  <1>10. QED
    BY <1>2, <1>3, <1>6, <1>7, <1>8, <1>9, FreeStep

-----------------------------------------------------------------------------
(* A thread does not claim a lock that it has: it could wait for itself. *)
Claiming(t) == pc[t] \in {"claim_ldxr", "claim_stxr", "svc_wait", "blocked"}

ClaimInv == \A t \in Thread : Claiming(t) => x17[t] \notin inside[t]

(* Drivers claim in the order of the locks, and get one only by a claim.  *)
LEMMA ClaimKept ==
    ASSUME LockInv, ClaimInv, Next
    PROVE  ClaimInv'
  <1> USE DEF LockInv, WordInv, At, GoOn
  <1>0. PICK r \in Thread : r = runnable
    BY DEF TypeOK
  <1>1. /\ pc \in [Thread -> Places] /\ inside \in [Thread -> SUBSET Lock]
        /\ x17 \in [Thread -> Lock \union {NULL}]
    BY DEF TypeOK
  <1>2. SUFFICES ASSUME NEW t \in Thread, Claiming(t)' PROVE x17'[t] \notin inside'[t]
    BY DEF ClaimInv
  <1>3. ASSUME UNCHANGED <<x17, inside>>, Claiming(t) PROVE x17'[t] \notin inside'[t]
    BY <1>3 DEF ClaimInv
  <1>4. CASE \/ Yield \/ Sleep \/ Interrupt
             \/ \E u \in Thread : Wake(u) \/ InterruptWakes(u)
    <2>1. Claiming(t)
      BY <1>0, <1>1, <1>2, <1>4 DEF Claiming, Yield, Sleep, Interrupt, Wake, InterruptWakes
    <2>2. UNCHANGED <<x17, inside>>
      BY <1>4 DEF Yield, Sleep, Interrupt, Wake, InterruptWakes
    <2>3. QED
      BY <1>3, <2>1, <2>2
  <1>5. ASSUME NEW l \in Lock, Claim(l) \/ Release(l) PROVE x17'[t] \notin inside'[t]
    <2>1. CASE t = r
      <3>1. Claim(l)
        BY <1>0, <1>1, <1>2, <1>5, <2>1 DEF Claiming, Release
      <3>2. \A k \in inside[r] : k < l
        BY <1>0, <3>1 DEF Claim
      <3>3. l \notin inside[r]
        BY <3>2
      <3>4. QED
        BY <1>0, <1>1, <2>1, <3>1, <3>3 DEF Claim
    <2>2. CASE t # r
      BY <1>0, <1>1, <1>2, <1>5, <2>2 DEF ClaimInv, Claiming, Claim, Release
    <2>3. QED
      BY <2>1, <2>2
  <1>6. CASE ClaimLoad \/ ClaimAgain \/ WaitBlock \/ ReleaseLoad \/ ReleaseStoreFails \/ BSOD
    <2>1. Claiming(t)
      BY <1>0, <1>1, <1>2, <1>6
         DEF Claiming, ClaimLoad, ClaimAgain, WaitBlock, ReleaseLoad, ReleaseStoreFails, BSOD
    <2>2. UNCHANGED <<x17, inside>>
      BY <1>6 DEF ClaimLoad, ClaimAgain, WaitBlock, ReleaseLoad, ReleaseStoreFails, BSOD
    <2>3. QED
      BY <1>3, <2>1, <2>2
  <1>7. CASE ClaimStore \/ WaitNoNeed
    BY <1>0, <1>1, <1>2, <1>7 DEF ClaimInv, Claiming, ClaimStore, WaitNoNeed, Enter
  <1>8. CASE ReleaseStore
    BY <1>0, <1>1, <1>2, <1>8 DEF ClaimInv, Claiming, ReleaseStore
  <1>9. CASE SvcRelease
    <2>1. PICK l \in Lock : l = x17[r]
      BY <1>0, <1>9 DEF SvcRelease, LinkInv
    <2>2. CASE word[l].blocked = NULL
      BY <1>0, <1>1, <1>2, <1>9, <2>1, <2>2 DEF ClaimInv, Claiming, SvcRelease
    <2>3. CASE word[l].blocked # NULL
      <3>1. word[l].blocked \in Thread
        BY <2>3, LineFacts
      <3>2. QED
        BY <1>0, <1>1, <1>2, <1>9, <2>1, <2>3, <3>1 DEF ClaimInv, Claiming, SvcRelease
    <2>4. QED
      BY <2>2, <2>3
  <1>10. CASE Halted
    BY <1>2, <1>10 DEF Halted, vars, ClaimInv, Claiming
  <1>11. QED
    BY <1>4, <1>5, <1>6, <1>7, <1>8, <1>9, <1>10 DEF Next

(* A thread that must wait is the last in the line, of this lock only. *)
LEMMA JoinImplements ==
    ASSUME IsFiniteSet(Thread), LockInv, ClaimInv, LinesInv, WaitBlock
    PROVE  LinesInv' /\ Service!ServiceNext
  <1> USE DEF LockInv, WordInv, At, GoOn
  <1>0. PICK r \in Thread, l \in Lock : r = runnable /\ l = x17[runnable]
    BY DEF TypeOK, LinkInv, WaitBlock
  <1> DEFINE first == word[l].blocked
             out == Remove(ring, r)
  <1>1. /\ pc \in [Thread -> Places] /\ x17 \in [Thread -> Lock \union {NULL}]
        /\ word \in [Lock -> [owner : Thread \union {NULL}, blocked : Thread \union {NULL}]]
        /\ ring \in Ring /\ WellLinked(ring)
        /\ ring.next \in [Thread -> Thread] /\ ring.prev \in [Thread -> Thread]
        /\ pc[r] = "svc_wait" /\ x17[r] = l /\ Runs(r)
        /\ RingOf(ring, r) = {u \in Thread : Runs(u)}
        /\ x17' = x17
        /\ pc' = [pc EXCEPT ![r] = "blocked"]
        /\ ring' = IF first = NULL THEN out ELSE InsertBefore(out, r, first)
        /\ word' = IF first = NULL THEN [word EXCEPT ![l].blocked = r] ELSE word
        /\ word[l] # Free /\ ~OnlyMine(r, word[l])
        /\ ring.next[r] # r
    BY <1>0, RunnableFacts
       DEF TypeOK, LinkInv, ListsOK, WaitBlock, JoinLine, MustWait, WaitCheckFails, Ring
  <1>2. out \in Ring /\ WellLinked(out) /\ Alone(out, r)
    BY <1>1, RemoveFromRing
  <1>3. ring.prev[r] \in Thread /\ Runs(ring.prev[r])
    <2>1. r \in RingOf(ring, r) /\ Closed(ring, RingOf(ring, r))
      BY <1>1, SelfInRing, RingClosed
    <2>2. QED
      BY <1>1, <2>1 DEF Closed
  <1>4. \A t \in Thread : pc[t] = "blocked" => /\ out.next[t] = ring.next[t]
                                               /\ out.prev[t] = ring.prev[t]
    <2>1. ring.next[r] \in Thread /\ Runs(ring.next[r])
      BY <1>0, RunnableFacts
    <2>2. SUFFICES ASSUME NEW t \in Thread, pc[t] = "blocked"
                   PROVE  out.next[t] = ring.next[t] /\ out.prev[t] = ring.prev[t]
      OBVIOUS
    <2>3. t # r /\ t # ring.prev[r] /\ t # ring.next[r]
      BY <1>1, <1>3, <2>1, <2>2 DEF Runs
    <2>4. QED
      BY <1>1, <2>3 DEF Remove
  <1>5. word[l].owner \notin {NULL, r}
    <2>1. word[l].owner # r
      <3>1. l \notin inside[r]
        BY <1>1 DEF ClaimInv, Claiming
      <3>2. QED
        BY <1>1, <3>1 DEF OwnerInv, Releasing
    <2>2. word[l].owner # NULL
      BY <1>0 DEF WaitBlock, WaitCheckFails, IsReal
    <2>3. QED
      BY <2>1, <2>2
  <1> HIDE DEF out
  <1>6. /\ \A k \in Lock : word'[k].owner = word[k].owner
        /\ \A k \in Lock \ {l} : word'[k].blocked = word[k].blocked
        /\ word'[l].blocked = IF first = NULL THEN r ELSE first
    BY <1>1
  <1>7. /\ BlockedOn(l)' = BlockedOn(l) \union {r} /\ r \notin BlockedOn(l)
        /\ \A k \in Lock \ {l} : BlockedOn(k)' = BlockedOn(k)
    BY <1>1 DEF BlockedOn
  <1>8. ASSUME NEW k \in Lock \ {l} PROVE Kept(k)
    <2>1. ASSUME NEW t \in BlockedOn(k) PROVE ring'.next[t] = ring.next[t]
      <3>1. t \in Thread /\ pc[t] = "blocked" /\ x17[t] = k /\ t # r
        BY <1>1, <2>1 DEF BlockedOn
      <3>2. CASE first = NULL
        BY <1>1, <1>4, <3>1, <3>2
      <3>3. CASE first # NULL
        <4>1. /\ first \in Thread /\ first \in BlockedOn(l) /\ pc[first] = "blocked"
              /\ ring.prev[first] \in BlockedOn(l)
          BY <1>1, <3>3, LineFacts, RingClosed DEF BlockedOn, Closed
        <4>2. out.prev[first] = ring.prev[first] /\ out.prev[first] # t
          BY <1>4, <3>1, <4>1 DEF BlockedOn
        <4>3. InsertBefore(out, r, first).next[t] = out.next[t]
          BY <1>2, <3>1, <4>2 DEF InsertBefore, Ring
        <4>4. QED
          BY <1>1, <1>4, <3>1, <3>3, <4>3
      <3>4. QED
        BY <3>2, <3>3
    <2>2. HasLine(k)
      BY DEF LinesInv
    <2>3. QED
      BY <1>6, <1>7, <2>1, <2>2, QueueKept DEF Kept
  <1>9. CASE first = NULL
    <2>1. BlockedOn(l)' = {r} /\ word'[l].blocked = r /\ ring'.next[r] = r /\ r # NULL
      BY <1>1, <1>2, <1>6, <1>7, <1>9 DEF LinkInv, ListsOK, Alone
    <2>2. Line(ring'.next, word'[l].blocked, BlockedOn(l)', <<r>>)
      BY <2>1, LineOfOne
    <2>3. QueueOf(l)' = <<r>> /\ HasLine(l)'
      BY <2>1, <2>2, NextQueueIsLine
    <2>4. QueueOf(l) = << >>
      BY <1>9, QueueIsWalk
    <2>5. QueueOf(l)' = Append(QueueOf(l), r)
      BY <2>3, <2>4
    <2>6. QED
      BY <1>5, <1>6, <1>8, <2>3, <2>5, JoinStep
  <1>10. CASE first # NULL
    <2>1. PICK q : Line(ring.next, first, BlockedOn(l), q)
      BY <1>10 DEF LinesInv, HasLine
    <2>2. /\ first \in Thread /\ BlockedOn(l) \in SUBSET Thread
          /\ IsFiniteSet(BlockedOn(l))
      BY <1>10, LineFacts, FS_Subset DEF BlockedOn
    <2>3. Line(out.next, first, BlockedOn(l), q)
      BY <1>4, <2>1, LineFrame DEF BlockedOn
    <2>4. Line(InsertBefore(out, r, first).next, first, BlockedOn(l) \union {r}, Append(q, r))
      BY <1>2, <1>7, <2>2, <2>3, LineJoined
    <2>5. /\ word'[l].blocked # NULL
          /\ Line(ring'.next, word'[l].blocked, BlockedOn(l)', Append(q, r))
      BY <1>1, <1>6, <1>7, <1>10, <2>4
    <2>6. QueueOf(l)' = Append(q, r) /\ HasLine(l)'
      BY <2>5, NextQueueIsLine
    <2>7. QueueOf(l) = q
      BY <1>10, <2>1, QueueIsLine
    <2>8. QED
      BY <1>5, <1>6, <1>8, <2>6, <2>7, JoinStep
  <1>11. QED
    BY <1>9, <1>10

(* The first in the line gets the lock, and the line behind it is kept. *)
LEMMA GiveImplements ==
    ASSUME IsFiniteSet(Thread), LockInv, LinesInv,
           SvcRelease, word[x17[runnable]].blocked # NULL
    PROVE  LinesInv' /\ Service!ServiceNext
  <1> USE DEF LockInv, WordInv, At, GoOn
  <1>0. PICK r \in Thread, l \in Lock : r = runnable /\ l = x17[runnable]
    BY DEF TypeOK, LinkInv, SvcRelease
  <1>00. PICK first \in Thread : first = word[l].blocked
    BY <1>0 DEF TypeOK
  <1> DEFINE n == ring.next[first]
             out == Remove(ring, first)
             head == IF n = first THEN NULL ELSE n
  <1>1. /\ pc \in [Thread -> Places] /\ x17 \in [Thread -> Lock \union {NULL}]
        /\ word \in [Lock -> [owner : Thread \union {NULL}, blocked : Thread \union {NULL}]]
        /\ ring \in Ring /\ WellLinked(ring) /\ n \in Thread
        /\ ring.next \in [Thread -> Thread] /\ ring.prev \in [Thread -> Thread]
        /\ Runs(r) /\ RingOf(ring, r) = {u \in Thread : Runs(u)}
        /\ word[l].owner = r
    BY <1>0, RunnableFacts DEF TypeOK, LinkInv, ListsOK, SvcRelease, ReleaseCheckFails, Ring
  <1>2. /\ x17' = x17
        /\ pc' = [pc EXCEPT ![r] = "run", ![first] = "run"]
        /\ ring' = InsertBefore(out, first, r)
        /\ word' = [word EXCEPT ![l] = [owner |-> first, blocked |-> head]]
    BY <1>0, <1>00 DEF SvcRelease, NextBlocked
  <1>3. /\ first \in BlockedOn(l) /\ n \in BlockedOn(l)
        /\ pc[first] = "blocked" /\ x17[first] = l /\ first # r
        /\ ring.prev[first] \in BlockedOn(l) /\ BlockedOn(l) \in SUBSET Thread
        /\ word[l].blocked # NULL
    BY <1>0, <1>00, <1>1, LineFacts, RingClosed DEF BlockedOn, Closed, Runs
  <1>4. ring.prev[r] \in Thread /\ Runs(ring.prev[r])
    <2>1. r \in RingOf(ring, r) /\ Closed(ring, RingOf(ring, r))
      BY <1>1, SelfInRing, RingClosed
    <2>2. QED
      BY <1>1, <2>1 DEF Closed
  <1>5. /\ out.next \in [Thread -> Thread] /\ out.prev \in [Thread -> Thread]
        /\ out.prev[r] = ring.prev[r]
        /\ \A t \in Thread \ {first, ring.prev[first]} : out.next[t] = ring.next[t]
    <2>1. r # n /\ r # first
      BY <1>1, <1>3 DEF BlockedOn, Runs
    <2>2. QED
      BY <1>1, <2>1 DEF Remove
  <1> HIDE DEF out, n
  <1>6. \A t \in Thread : t # first /\ t # ring.prev[r] => ring'.next[t] = out.next[t]
    BY <1>2, <1>5 DEF InsertBefore
  <1>7. /\ BlockedOn(l)' = BlockedOn(l) \ {first}
        /\ \A k \in Lock \ {l} : BlockedOn(k)' = BlockedOn(k)
    BY <1>1, <1>2, <1>3 DEF BlockedOn, Runs
  <1>8. /\ \A k \in Lock \ {l} : word'[k] = word[k]
        /\ word'[l].owner = first /\ word'[l].blocked = head
    BY <1>1, <1>2
  <1>9. ASSUME NEW k \in Lock \ {l} PROVE Kept(k)
    <2>1. ASSUME NEW t \in BlockedOn(k) PROVE ring'.next[t] = ring.next[t]
      <3>1. /\ t \in Thread /\ t # first /\ t # ring.prev[first] /\ t # ring.prev[r]
        BY <1>3, <1>4, <2>1 DEF BlockedOn, Runs
      <3>2. QED
        BY <1>5, <1>6, <3>1
    <2>2. HasLine(k)
      BY DEF LinesInv
    <2>3. QED
      BY <1>7, <1>8, <2>1, <2>2, QueueKept DEF Kept
  <1>10. PICK q : Line(ring.next, first, BlockedOn(l), q)
    BY <1>00, <1>3 DEF LinesInv, HasLine
  <1>11. QueueOf(l) = q
    BY <1>00, <1>3, <1>10, QueueIsLine
  <1>12. IsFiniteSet(BlockedOn(l))
    BY <1>3, FS_Subset
  <1>13. r # NULL /\ word[l].owner # NULL
    BY <1>1
  <1>14. CASE n = first
    <2>1. BlockedOn(l) = {first}
      <3>1. Alone(ring, first)
        BY <1>1, <1>14 DEF WellLinked, Alone, n
      <3>2. RingOf(ring, first) = {first}
        BY <1>1, <3>1, AloneRing
      <3>3. QED
        BY <1>00, <1>3, <3>2, LineFacts
    <2>2. Line(ring.next, first, {first}, <<first>>)
      BY <1>14, LineOfOne DEF n
    <2>3. QueueOf(l) = <<first>>
      BY <1>00, <1>3, <2>1, <2>2, QueueIsLine
    <2>4. word'[l].blocked = NULL
      BY <1>8, <1>14
    <2>5. QueueOf(l)' = << >> /\ HasLine(l)'
      BY <2>4, QueueIsWalk DEF HasLine
    <2>6. QueueOf(l) # << >> /\ Head(QueueOf(l)) = first /\ Tail(QueueOf(l)) = << >>
      BY <2>3
    <2>7. QED
      BY <1>8, <1>9, <1>13, <2>5, <2>6, GiveStep
  <1>15. CASE n # first
    <2>1. /\ Line(out.next, n, BlockedOn(l) \ {first}, Tail(q))
          /\ q # << >> /\ Head(q) = first
      BY <1>1, <1>3, <1>10, <1>12, <1>15, LineLeft DEF n, out
    <2>2. \A t \in BlockedOn(l) \ {first} : ring'.next[t] = out.next[t]
      BY <1>4, <1>6 DEF BlockedOn, Runs
    <2>3. Line(ring'.next, n, BlockedOn(l) \ {first}, Tail(q))
      BY <2>1, <2>2, LineFrame
    <2>4. word'[l].blocked = n /\ n # NULL
      BY <1>1, <1>8, <1>15
    <2>5. QueueOf(l)' = Tail(q) /\ HasLine(l)'
      BY <1>7, <2>3, <2>4, NextQueueIsLine
    <2>6. QED
      BY <1>8, <1>9, <1>11, <1>13, <2>1, <2>5, GiveStep
  <1>16. QED
    BY <1>14, <1>15

-----------------------------------------------------------------------------
(* Every step is a step of LockService or a stutter. *)
LEMMA NextImplements ==
    ASSUME IsFiniteSet(Thread), LockInv, ClaimInv, LinesInv, [Next]_vars
    PROVE  LinesInv' /\ [Service!ServiceNext]_(Service!serviceVars)
  <1>1. CASE UNCHANGED vars \/ Halted
    <2>1. UNCHANGED vars
      BY <1>1 DEF Halted
    <2>2. ASSUME NEW l \in Lock PROVE Kept(l)
      <3>1. HasLine(l)
        BY DEF LinesInv
      <3>2. BlockedOn(l)' = BlockedOn(l) /\ UNCHANGED <<ring, word>>
        BY <2>1 DEF vars, BlockedOn
      <3>3. QED
        BY <3>1, <3>2, QueueKept DEF Kept
    <2>3. QED
      BY <2>2, AllKept
  <1>2. CASE \/ Interrupt \/ ClaimLoad \/ ClaimAgain \/ ReleaseLoad
             \/ ReleaseStoreFails \/ BSOD
             \/ \E l \in Lock : Claim(l) \/ Release(l)
    BY <1>2, PlainImplements
  <1>3. CASE Yield \/ Sleep \/ \E t \in Thread : Wake(t) \/ InterruptWakes(t)
    BY <1>3, SchedulerKept, AllKept DEF LockInv, WordInv
  <1>4. CASE ClaimStore \/ WaitNoNeed
    BY <1>4, TakeImplements
  <1>5. CASE WaitBlock
    BY <1>5, JoinImplements
  <1>6. CASE ReleaseStore \/ SvcRelease
    BY <1>6, FreeImplements, GiveImplements
  <1>7. QED
    BY <1>1, <1>2, <1>3, <1>4, <1>5, <1>6 DEF Next

(* The words, the rings and the instructions implement a fair lock: a lock *)
(* is taken only when it is free, and those who had to wait get it in the  *)
(* order in which the kernel blocked them, for any finite set of threads.  *)
THEOREM LocksImplement ==
    ASSUME IsFiniteSet(Thread)
    PROVE  Spec => LocksImplemented
  <1>1. Init => ClaimInv /\ LinesInv /\ Service!ServiceInit
    <2>1. SUFFICES ASSUME Init PROVE ClaimInv /\ LinesInv /\ Service!ServiceInit
      OBVIOUS
    <2>2. \A l \in Lock : word[l].owner = NULL /\ word[l].blocked = NULL
      BY <2>1 DEF Init, Free
    <2>3. \A l \in Lock : QueueOf(l) = << >>
      BY <2>2, QueueIsWalk
    <2>4. LinesInv
      BY <2>2 DEF LinesInv, HasLine
    <2>5. ClaimInv
      BY <2>1 DEF Init, ClaimInv
    <2>6. QED
      BY <2>2, <2>3, <2>4, <2>5 DEF Service!ServiceInit
  <1>2. LockInv /\ ClaimInv /\ [Next]_vars => ClaimInv'
    BY ClaimKept DEF vars, ClaimInv, Claiming
  <1>3. LockInv /\ ClaimInv /\ LinesInv /\ [Next]_vars
           => LinesInv' /\ [Service!ServiceNext]_(Service!serviceVars)
    BY NextImplements
  <1>4. QED
    BY <1>1, <1>2, <1>3, LockInvariant, PTL DEF Spec, LocksImplemented, Service!ServiceSpec
=============================================================================
