------------------------------- MODULE Locks -------------------------------
(***************************************************************************)
(* Isambard's locks on one core: the ldxr and stxr instructions that       *)
(* threads execute at EL0 (CLAIM_LOCK and RELEASE_LOCK of                  *)
(* isambard_client.h, claim_lock and release_lock of exclusive.h) and the  *)
(* two system calls they fall back on (handle_svc_wait_for_lock and        *)
(* handle_svc_release_lock of svc_handling.h).                             *)
(*                                                                         *)
(* One action is one instruction at EL0 or one whole handler.  Between two *)
(* instructions an interrupt may come: it clears the exclusive monitor     *)
(* (every exception return does) and may bring a sleeping thread back,     *)
(* which then runs first.  Of the rest of the kernel (module Kernel) only  *)
(* that much is kept: a thread yields, sleeps at its gate, or is woken.    *)
(***************************************************************************)
EXTENDS Naturals, FiniteSets, Rings

CONSTANTS Idle,            \* the idle thread, which claims no lock
          Lock,            \* addresses of lock words
          NULL,            \* the code 0
          SpuriousFailure  \* stxr may fail although nothing has intervened

ASSUME LockAssumption ==
    /\ Idle \in Thread
    /\ NULL \notin Thread
    /\ Lock \subseteq Nat
    /\ SpuriousFailure \in BOOLEAN

VARIABLES
    ring, runnable,   \* the links of all threads; core->runnable
    word,             \* the lock words: code of owner, code of first blocked
    monitor,          \* whose ldxr the exclusive monitor remembers, or NULL
    pc,               \* where each thread is
    x17,              \* the lock it is claiming or releasing
    inside,           \* the locks between whose claim and release it is
    bsod              \* the kernel has stopped

vars == <<ring, runnable, word, monitor, pc, x17, inside, bsod>>

(* "run": in its own code.  The other places are the instructions of       *)
(* CLAIM_LOCK and RELEASE_LOCK that the thread is about to execute,        *)
(* "blocked" inside ISAMBARD_LOCK_WAIT, and "asleep" at its gate.          *)
Places == {"run", "claim_ldxr", "claim_stxr", "svc_wait", "blocked",
           "release_ldxr", "release_stxr", "svc_release", "asleep"}

Free == [owner |-> NULL, blocked |-> NULL]

(* The whole word is the code of r: r owns the lock and nobody waits. *)
OnlyMine(r, w) == w = [owner |-> r, blocked |-> NULL]

(* Every driver waits for something to do. *)
Init ==
    /\ ring = SelfLinked
    /\ runnable = Idle
    /\ word = [l \in Lock |-> Free]
    /\ monitor = NULL
    /\ pc = [t \in Thread |-> IF t = Idle THEN "run" ELSE "asleep"]
    /\ x17 = [t \in Thread |-> NULL]
    /\ inside = [t \in Thread |-> {}]
    /\ bsod = FALSE

At(place) == pc[runnable] = place /\ ~bsod

GoOn(place) == pc' = [pc EXCEPT ![runnable] = place]

-----------------------------------------------------------------------------
(* The scheduler: any entry to the kernel leaves the monitor clear. *)

Yield ==
    /\ At("run")
    /\ runnable' = ring.next[runnable]
    /\ monitor' = NULL
    /\ UNCHANGED <<ring, word, pc, x17, inside, bsod>>

Sleep ==
    /\ At("run")
    /\ runnable # Idle
    /\ GoOn("asleep")
    /\ runnable' = ring.next[runnable]
    /\ ring' = Remove(ring, runnable)
    /\ monitor' = NULL
    /\ UNCHANGED <<word, x17, inside, bsod>>

(* wake_thread( t ) by the running thread. *)
Wake(t) ==
    /\ At("run")
    /\ runnable # Idle
    /\ pc[t] = "asleep"
    /\ pc' = [pc EXCEPT ![t] = "run"]
    /\ ring' = InsertAfter(ring, t, runnable)
    /\ monitor' = NULL
    /\ UNCHANGED <<runnable, word, x17, inside, bsod>>

(* An interrupt between any two instructions, with nobody to wake...       *)
Interrupt ==
    /\ ~bsod
    /\ monitor' = NULL
    /\ UNCHANGED <<ring, runnable, word, pc, x17, inside, bsod>>

(* ... and with a handler or a timeout that wakes t.                       *)
InterruptWakes(t) ==
    /\ ~bsod
    /\ pc[t] = "asleep"
    /\ pc' = [pc EXCEPT ![t] = "run"]
    /\ ring' = InsertBefore(ring, t, runnable)
    /\ runnable' = t
    /\ monitor' = NULL
    /\ UNCHANGED <<word, x17, inside, bsod>>

-----------------------------------------------------------------------------
(* Claiming.  A driver claims a lock only inside locks of lower numbers:   *)
(* the kernel has no deadlock check, so an order is the drivers' affair.   *)

Claim(l) ==
    /\ At("run")
    /\ runnable # Idle
    /\ \A k \in inside[runnable] : k < l
    /\ x17' = [x17 EXCEPT ![runnable] = l]
    /\ GoOn("claim_ldxr")
    /\ UNCHANGED <<ring, runnable, word, monitor, inside, bsod>>

(* ldxr x16, [x17]; cbz x16 *)
ClaimLoad ==
    /\ At("claim_ldxr")
    /\ monitor' = runnable
    /\ GoOn(IF word[x17[runnable]] = Free THEN "claim_stxr" ELSE "svc_wait")
    /\ UNCHANGED <<ring, runnable, word, x17, inside, bsod>>

Enter(t, l) ==
    /\ pc' = [pc EXCEPT ![t] = "run"]
    /\ inside' = [inside EXCEPT ![t] = @ \union {l}]

(* stxr w16, x18, [x17]; cbnz x16 *)
MutantStoreFails == FALSE

StoreFails == monitor # runnable

ClaimStore ==
    LET r == runnable
        l == x17[r]
    IN  /\ At("claim_stxr")
        /\ ~StoreFails
        /\ word' = [word EXCEPT ![l] = [owner |-> r, blocked |-> NULL]]
        /\ Enter(r, l)
        /\ monitor' = NULL
        /\ UNCHANGED <<ring, runnable, x17, bsod>>

ClaimAgain ==
    /\ At("claim_stxr")
    /\ StoreFails \/ SpuriousFailure
    /\ GoOn("claim_ldxr")
    /\ monitor' = NULL
    /\ UNCHANGED <<ring, runnable, word, x17, inside, bsod>>

-----------------------------------------------------------------------------
(* handle_svc_wait_for_lock, with interrupts masked.                       *)

(* is_real_thread *)
IsReal(t) == /\ t \in Thread
             /\ ring.prev[ring.next[t]] = t
             /\ ring.next[ring.prev[t]] = t

MustWait(r, w) == w # Free /\ ~OnlyMine(r, w)

(* Free by now, or held by this thread with nobody waiting.                *)
WaitNoNeed ==
    LET r == runnable
        l == x17[r]
    IN  /\ At("svc_wait")
        /\ ~MustWait(r, word[l])
        /\ word' = [word EXCEPT ![l].owner = r]
        /\ Enter(r, l)
        /\ monitor' = NULL
        /\ UNCHANGED <<ring, runnable, x17, bsod>>

(* The checks of a lock word that ends in the blue screen. *)
WaitCheckFails(r, l) ==
    \/ ~IsReal(word[l].owner)
    \/ word[l].blocked # NULL /\ ~IsReal(word[l].blocked)
    \/ ring.next[r] = r
    \/ word[l].blocked # NULL /\ x17[word[l].blocked] # l

(* insert_thread_at_tail( &blocked, thread ), blocked being the first *)
MutantJoinLine(links, t, first) == InsertAfter(links, t, first)

JoinLine(links, t, first) == InsertBefore(links, t, first)

(* The thread leaves the ring of those that can run, and goes into the     *)
(* word as the first to wait or to the tail of the ring of the first.      *)
WaitBlock ==
    LET r == runnable
        l == x17[r]
        first == word[l].blocked
    IN  /\ At("svc_wait")
        /\ MustWait(r, word[l])
        /\ ~WaitCheckFails(r, l)
        /\ runnable' = ring.next[r]
        /\ ring' = IF first = NULL THEN Remove(ring, r)
                   ELSE JoinLine(Remove(ring, r), r, first)
        /\ word' = IF first = NULL THEN [word EXCEPT ![l].blocked = r] ELSE word
        /\ GoOn("blocked")
        /\ monitor' = NULL
        /\ UNCHANGED <<x17, inside, bsod>>

(* A check fails; or the stxr that makes the thread the first to wait has  *)
(* failed, and the second round finds the thread out of the ring already   *)
(* ("What happens on second go through?").                                 *)
WaitStops ==
    LET r == runnable
        l == x17[r]
    IN  /\ At("svc_wait")
        /\ MustWait(r, word[l])
        /\ WaitCheckFails(r, l) \/ (SpuriousFailure /\ word[l].blocked = NULL)

-----------------------------------------------------------------------------
(* Releasing.  The thread is out of the critical section before its first  *)
(* instruction.                                                            *)

Release(l) ==
    /\ At("run")
    /\ l \in inside[runnable]
    /\ inside' = [inside EXCEPT ![runnable] = @ \ {l}]
    /\ x17' = [x17 EXCEPT ![runnable] = l]
    /\ GoOn("release_ldxr")
    /\ UNCHANGED <<ring, runnable, word, monitor, bsod>>

(* ldxr x16, [x17]; cmp x16, x18 *)
ReleaseLoad ==
    LET r == runnable
    IN  /\ At("release_ldxr")
        /\ monitor' = r
        /\ GoOn(IF OnlyMine(r, word[x17[r]])
                  THEN "release_stxr" ELSE "svc_release")
        /\ UNCHANGED <<ring, runnable, word, x17, inside, bsod>>

(* stxr w16, xzr, [x17] *)
ReleaseStore ==
    /\ At("release_stxr")
    /\ ~StoreFails
    /\ word' = [word EXCEPT ![x17[runnable]] = Free]
    /\ GoOn("run")
    /\ monitor' = NULL
    /\ UNCHANGED <<ring, runnable, x17, inside, bsod>>

(* If it fails, RELEASE_LOCK asks the kernel, release_lock tries again. *)
ReleaseStoreFails ==
    /\ At("release_stxr")
    /\ StoreFails \/ SpuriousFailure
    /\ \E place \in {"svc_release", "release_ldxr"} : GoOn(place)
    /\ monitor' = NULL
    /\ UNCHANGED <<ring, runnable, word, x17, inside, bsod>>

(* handle_svc_release_lock: the checks... *)
ReleaseCheckFails(r, l) ==
    \/ word[l] = Free
    \/ word[l].owner # r
    \/ word[l].blocked # NULL /\ ~IsReal(word[l].blocked)

ReleaseStops ==
    /\ At("svc_release")
    /\ ReleaseCheckFails(runnable, x17[runnable])

(* ... and the hand-over: the first to wait owns the lock and runs, the    *)
(* one behind it is the first now.                                         *)
MutantNextBlocked(first) == NULL

NextBlocked(first) == IF ring.next[first] = first THEN NULL ELSE ring.next[first]

SvcRelease ==
    LET r == runnable
        l == x17[r]
        first == word[l].blocked
    IN  /\ At("svc_release")
        /\ ~ReleaseCheckFails(r, l)
        /\ IF first = NULL
             THEN /\ word' = [word EXCEPT ![l] = Free]
                  /\ GoOn("run")
                  /\ UNCHANGED <<ring, runnable, inside>>
             ELSE /\ word' = [word EXCEPT ![l] = [owner |-> first,
                                                  blocked |-> NextBlocked(first)]]
                  /\ pc' = [pc EXCEPT ![r] = "run", ![first] = "run"]
                  /\ inside' = [inside EXCEPT ![first] = @ \union {l}]
                  /\ ring' = InsertBefore(Remove(ring, first), first, r)
                  /\ runnable' = first
        /\ monitor' = NULL
        /\ UNCHANGED <<x17, bsod>>

(* The blue screen: the core enters EL3 and does not come back. *)
BSOD ==
    /\ WaitStops \/ ReleaseStops
    /\ bsod' = TRUE
    /\ UNCHANGED <<ring, runnable, word, monitor, pc, x17, inside>>

Halted == bsod /\ UNCHANGED vars

-----------------------------------------------------------------------------
Next ==
    \/ Yield \/ Sleep \/ Interrupt
    \/ \E t \in Thread : Wake(t) \/ InterruptWakes(t)
    \/ \E l \in Lock : Claim(l) \/ Release(l)
    \/ ClaimLoad \/ ClaimStore \/ ClaimAgain
    \/ WaitNoNeed \/ WaitBlock
    \/ ReleaseLoad \/ ReleaseStore \/ ReleaseStoreFails
    \/ SvcRelease
    \/ BSOD \/ Halted

Spec == Init /\ [][Next]_vars

(* A thread that is given the core again and again executes its next       *)
(* instruction, and not every pair of ldxr and stxr is interrupted.        *)
(* Drivers come to the end of what they do inside a lock; outside they     *)
(* wait for work or yield, and so does the idle thread.  What a sleeping   *)
(* thread waits for happens.                                               *)
Attempt == ClaimLoad \/ ClaimAgain \/ ReleaseLoad \/ ReleaseStoreFails

Progress == \/ ClaimStore \/ WaitNoNeed \/ WaitBlock
            \/ ReleaseStore \/ SvcRelease
            \/ \E l \in Lock : Release(l)
            \/ inside[runnable] = {} /\ Yield

Fairness ==
    /\ \A t \in Thread : SF_vars(runnable = t /\ Progress)
    /\ \A t \in Thread \ {Idle} : /\ SF_vars(runnable = t /\ Attempt)
                                  /\ WF_vars(InterruptWakes(t))

FairSpec == Spec /\ Fairness

-----------------------------------------------------------------------------
(* Every variable has the type its C declaration gives it. *)
TypeOK ==
    /\ ring \in Ring
    /\ runnable \in Thread
    /\ word \in [Lock -> [owner : Thread \union {NULL}, blocked : Thread \union {NULL}]]
    /\ monitor \in Thread \union {NULL}
    /\ pc \in [Thread -> Places]
    /\ x17 \in [Thread -> Lock \union {NULL}]
    /\ inside \in [Thread -> SUBSET Lock]
    /\ bsod \in BOOLEAN

(* Two threads are never inside the same lock, wherever an interrupt       *)
(* strikes between the ldxr and the stxr of either.                        *)
MutualExclusion ==
    \A t, u \in Thread : t # u => inside[t] \intersect inside[u] = {}

Runs(t) == pc[t] \notin {"blocked", "asleep"}

BlockedOn(l) == {t \in Thread : pc[t] = "blocked" /\ x17[t] = l}

(* The threads that wait for a lock are the ring that its word points at,  *)
(* and the runnable ones are the ring of core->runnable: no thread is in   *)
(* the wrong list, or in none.                                             *)
ListsOK ==
    /\ RingOf(ring, runnable) = {t \in Thread : Runs(t)}
    /\ \A l \in Lock : IF word[l].blocked = NULL THEN BlockedOn(l) = {}
                       ELSE RingOf(ring, word[l].blocked) = BlockedOn(l)

(* The inductive invariant behind mutual exclusion: the owner in the word  *)
(* is the thread inside the lock or on its way out of it; while the        *)
(* monitor remembers an ldxr, the word is still what it loaded; every      *)
(* thread is in the list it belongs to; and the idle thread keeps out.     *)
Releasing(t, l) ==
    /\ pc[t] \in {"release_ldxr", "release_stxr", "svc_release"}
    /\ x17[t] = l

OwnerInv ==
    \A l \in Lock, t \in Thread :
        /\ word[l].owner = t <=> (l \in inside[t] \/ Releasing(t, l))
        /\ Releasing(t, l) => l \notin inside[t]

MonitorInv ==
    /\ monitor \in {runnable, NULL}
    /\ monitor = runnable =>
          /\ pc[runnable] = "claim_stxr" => word[x17[runnable]] = Free
          /\ pc[runnable] = "release_stxr" => OnlyMine(runnable, word[x17[runnable]])

LinkInv ==
    /\ WellLinked(ring)
    /\ ListsOK
    /\ Runs(Idle)
    /\ \A t \in Thread :
          /\ pc[t] = "asleep" => Alone(ring, t)
          /\ pc[t] \notin {"run", "asleep"} => x17[t] \in Lock

WordInv == TypeOK /\ OwnerInv /\ MonitorInv /\ LinkInv

IdleInv == pc[Idle] = "run" /\ inside[Idle] = {}

LockInv == WordInv /\ IdleInv

(* None of the kernel's consistency checks of lock words ever fails for    *)
(* threads that use CLAIM_LOCK and RELEASE_LOCK, if stxr fails only for    *)
(* the reason the code has in mind.                                        *)
NeverStops == ~bsod

(* Whoever is blocked in the kernel gets the lock, whatever others do with *)
(* the lock's fast path.                                                   *)
BlockedGetsLock ==
    \A t \in Thread : pc[t] = "blocked" ~> (pc[t] # "blocked" \/ bsod)

-----------------------------------------------------------------------------
(* The line of a lock, read off the ring its word points at. *)
QueueOf(l) ==
    LET first == word[l].blocked
        at[i \in 1 .. Cardinality(Thread)] ==
            IF i = 1 THEN first ELSE ring.next[at[i - 1]]
    IN  IF first = NULL THEN << >> ELSE [i \in 1 .. Cardinality(BlockedOn(l)) |-> at[i]]

Service == INSTANCE LockService WITH
    holder <- [l \in Lock |-> word[l].owner],
    queue  <- [l \in Lock |-> QueueOf(l)]

(* The words, the rings and the instructions implement a fair lock: taken  *)
(* only when free, handed over in the order of arrival.                    *)
LocksImplemented == Service!ServiceSpec
=============================================================================
