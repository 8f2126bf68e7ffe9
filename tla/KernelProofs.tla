---------------------------- MODULE KernelProofs ----------------------------
(* The inductive invariant of the kernel, and the properties it implies. *)
EXTENDS Kernel, RingProofs

USE ThreadAssumption, MapAssumption, NumberAssumption DEF THREAD_WAITING

(* Whoever runs, unless it is the idle thread, has someone to switch to. *)
LEMMA NextIsOther ==
    ASSUME TypeOK, BootInv, RingInv, runnable # Idle
    PROVE  ring.next[runnable] \in Thread /\ ring.next[runnable] # runnable
  <1>1. ring \in Ring /\ runnable \in Thread
    BY DEF TypeOK
  <1>2. Idle \in Ready
    BY DEF TypeOK, BootInv, RingInv, Ready, Parked, Worker
  <1>3. ring.next[runnable] = runnable => Alone(ring, runnable)
    BY <1>1 DEF RingInv, WellLinked, Alone
  <1> QED
    BY <1>1, <1>2, <1>3, AloneRing DEF RingInv, Ring

-----------------------------------------------------------------------------
(* The invariant holds when the boot code starts to load the drivers. *)
LEMMA InitIInv == Init => IInv
  <1> SUFFICES ASSUME Init PROVE IInv
    OBVIOUS
  <1>1. TypeOK
    <2>1. SelfLinked \in Ring
      BY DEF SelfLinked, Ring
    <2>2. [t \in Thread |-> 0] \in [Thread -> -1 .. GateMax]
      OBVIOUS
    <2>3. [t \in Thread |-> 0] \in [Thread -> 0 .. WordMax]
      OBVIOUS
    <2> QED
      BY <2>1, <2>2, <2>3 DEF Init, TypeOK, Result
  <1>2. BootInv
    BY DEF Init, BootInv
  <1>3. RingInv
    <2>1. \A t \in Thread : Alone(ring, t)
      BY DEF Init, SelfLinked, Alone
    <2>2. WellLinked(ring)
      BY DEF Init, SelfLinked, WellLinked
    <2>3. Ready = {Idle}
      BY DEF Init, Ready, Parked
    <2> QED
      BY <1>1, <2>1, <2>2, <2>3, AloneRing DEF Init, RingInv, TypeOK
  <1>4. MapInv /\ LoopInv
    BY DEF Init, MapInv, LoopInv
  <1>5. QueueInv
    BY DEF Init, QueueInv, QueueHead, Timed
  <1> QED
    BY <1>1, <1>2, <1>3, <1>4, <1>5 DEF IInv

-----------------------------------------------------------------------------
(* The parts of the invariant that an action leaves alone. *)

(* The queue is as before when nobody starts or stops waiting. *)
LEMMA QueueFrame ==
    ASSUME QueueInv, LoopInv, TypeOK, UNCHANGED <<queueVars, loopVars>>,
           gate' \in [Thread -> -1 .. GateMax],
           \A t \in Thread : gate'[t] = -1 <=> gate[t] = -1
    PROVE  QueueInv'
  <1>1. \A t \in Thread : Timed(t)' <=> Timed(t)
    BY DEF Timed, queueVars, loopVars
  <1>2. UNCHANGED <<blocked_with_timeout, x1, x16, x17, left, pos, op, sleeper, cursor>>
    BY DEF queueVars, loopVars
  <1>3. QueueHead' = QueueHead
    BY <1>2 DEF QueueHead
  <1>4. QueueHead # NULL => QueueHead \in Thread
    BY DEF QueueHead, TypeOK, LoopInv
  <1>5. \A t \in Thread : x17[t] \in Thread => (Timed(x17[t])' <=> Timed(x17[t]))
    BY <1>1, <1>2 DEF Timed
  <1>6. \A t \in Thread : x16[t] \in Thread => (Timed(x16[t])' <=> Timed(x16[t]))
    BY <1>1, <1>2 DEF Timed
  <1> QED
    BY <1>1, <1>2, <1>3, <1>4, <1>5, <1>6 DEF QueueInv

(* Between two loops there is nothing to keep. *)
LEMMA LoopFrame ==
    ASSUME LoopInv, UNCHANGED <<queueVars, loopVars>>, op = "user"
    PROVE  LoopInv'
  BY DEF LoopInv, loopVars

-----------------------------------------------------------------------------
(* How the three list operations of the kernel change the runnable ring. *)

WaitersAreWorkers ==
    \A t \in Thread : gate[t] = THREAD_WAITING => t \in created \intersect Worker

(* core->runnable is a thread that can run, and so is the one after it. *)
LEMMA RunnableReady ==
    ASSUME TypeOK, RingInv
    PROVE  /\ runnable \in Ready
           /\ ring.next[runnable] \in Ready
           /\ Ready \subseteq Thread
  <1>1. ring \in Ring /\ runnable \in Thread
    BY DEF TypeOK
  <1>2. runnable \in RingOf(ring, runnable) /\ Closed(ring, RingOf(ring, runnable))
    BY <1>1, SelfInRing, RingClosed
  <1> QED
    BY <1>2 DEF RingInv, Closed, Ready, TypeOK

(* A thread goes in next to core->runnable. *)
LEMMA EnterRing ==
    ASSUME TypeOK, RingInv, NEW t \in Thread \ Ready,
           \/ ring' = InsertBefore(ring, t, runnable) /\ runnable' \in {t, runnable}
           \/ ring' = InsertAfter(ring, t, runnable) /\ runnable' = runnable,
           Ready' = Ready \union {t}, WaitersAreWorkers'
    PROVE  RingInv' /\ ring' \in Ring /\ runnable' \in Thread
  <1> DEFINE r == runnable
  <1>1. /\ ring \in Ring /\ WellLinked(ring)
        /\ r \in Thread /\ r \in Ready /\ t # r
        /\ Alone(ring, t)
    BY RunnableReady DEF TypeOK, RingInv
  <1>2. CASE ring' = InsertBefore(ring, t, r) /\ runnable' \in {t, r}
    <2>1. /\ ring' \in Ring
          /\ WellLinked(ring')
          /\ \A u \in Thread \ {t, r} : Alone(ring, u) => Alone(ring', u)
          /\ ring'.next[t] = r
          /\ RingOf(ring', t) = RingOf(ring, r) \union {t}
      BY <1>1, <1>2, InsertBeforeRing
    <2>2. RingOf(ring', r) = RingOf(ring', t)
      BY <2>1, RingOfNext
    <2>3. RingOf(ring', runnable') = Ready'
      BY <1>2, <2>1, <2>2 DEF RingInv
    <2>4. \A u \in Thread \ Ready' : Alone(ring', u)
      BY <2>1, <1>1 DEF RingInv
    <2> QED
      BY <1>1, <1>2, <2>1, <2>3, <2>4 DEF RingInv, WaitersAreWorkers
  <1>3. CASE ring' = InsertAfter(ring, t, r) /\ runnable' = r
    <2>1. /\ ring' \in Ring
          /\ WellLinked(ring')
          /\ \A u \in Thread \ {t, r} : Alone(ring, u) => Alone(ring', u)
          /\ RingOf(ring', r) = RingOf(ring, r) \union {t}
      BY <1>1, <1>3, InsertAfterRing
    <2>2. RingOf(ring', runnable') = Ready'
      BY <1>3, <2>1 DEF RingInv
    <2>3. \A u \in Thread \ Ready' : Alone(ring', u)
      BY <2>1, <1>1 DEF RingInv
    <2> QED
      BY <1>1, <1>3, <2>1, <2>2, <2>3 DEF RingInv, WaitersAreWorkers
  <1> QED
    BY <1>2, <1>3

(* core->runnable goes out; the one after it takes its place. *)
LEMMA LeaveRing ==
    ASSUME TypeOK, BootInv, RingInv, runnable # Idle,
           ring' = Remove(ring, runnable), runnable' = ring.next[runnable],
           Ready' = Ready \ {runnable}, WaitersAreWorkers'
    PROVE  RingInv' /\ ring' \in Ring /\ runnable' \in Thread
  <1> DEFINE r == runnable
  <1>1. /\ ring \in Ring /\ WellLinked(ring)
        /\ r \in Thread
        /\ ring.next[r] \in Thread /\ ring.next[r] # r
    BY NextIsOther DEF TypeOK, RingInv
  <1>2. /\ ring' \in Ring
        /\ WellLinked(ring')
        /\ Alone(ring', r)
        /\ \A u \in Thread : Alone(ring, u) => Alone(ring', u)
        /\ RingOf(ring', runnable') = RingOf(ring, r) \ {r}
    BY <1>1, RemoveFromRing
  <1>3. \A u \in Thread \ Ready' : Alone(ring', u)
    BY <1>2 DEF RingInv
  <1> QED
    BY <1>1, <1>2, <1>3 DEF RingInv, WaitersAreWorkers

(* The links stay; core->runnable may move on by one. *)
LEMMA StayRing ==
    ASSUME TypeOK, RingInv, ring' = ring,
           runnable' \in {runnable, ring.next[runnable]},
           Ready' = Ready, WaitersAreWorkers'
    PROVE  RingInv' /\ ring' \in Ring /\ runnable' \in Thread
  <1>1. ring \in Ring /\ WellLinked(ring) /\ runnable \in Thread
    BY DEF TypeOK, RingInv
  <1>2. RingOf(ring, ring.next[runnable]) = RingOf(ring, runnable)
    BY <1>1, RingOfNext
  <1>3. ring.next[runnable] \in Thread
    BY RunnableReady
  <1> QED
    BY <1>1, <1>2, <1>3 DEF RingInv, WaitersAreWorkers

(* Only drivers' threads wait at gates. *)
LEMMA WaitersOfRingInv == RingInv => WaitersAreWorkers
  BY DEF RingInv, WaitersAreWorkers

-----------------------------------------------------------------------------
(* One lemma per action: each preserves the inductive invariant. *)

(* LoadDriver preserves the inductive invariant. *)
LEMMA LoadDriverIInv ==
    ASSUME IInv, NEW t \in Thread, NEW map \in Map, LoadDriver(t, map)
    PROVE  IInv'
  <1> USE DEF IInv, LoadDriver
  <1>1. t \in Thread \ Ready /\ Ready' = Ready \union {t}
    <2>1. t \notin created /\ t \in Worker /\ gate[t] # -1
      BY DEF RingInv
    <2> QED
      BY <2>1 DEF Ready, Parked, Worker, TypeOK
  <1>2. RingInv' /\ ring' \in Ring /\ runnable' \in Thread
    <2>1. WaitersAreWorkers'
      BY WaitersOfRingInv DEF WaitersAreWorkers
    <2> QED
      BY <1>1, <2>1, EnterRing
  <1>3. TypeOK'
    BY <1>2 DEF TypeOK, queueVars, loopVars
  <1>4. BootInv'
    BY DEF BootInv, Worker, loopVars
  <1>5. MapInv'
    BY DEF MapInv
  <1>6. LoopInv' /\ QueueInv'
    <2>1. op = "user"
      BY DEF BootInv, TypeOK
    <2> QED
      BY <2>1, LoopFrame, QueueFrame DEF TypeOK
  <1> QED
    BY <1>2, <1>3, <1>4, <1>5, <1>6

(* EnterThread preserves the inductive invariant. *)
LEMMA EnterThreadIInv ==
    ASSUME IInv, EnterThread
    PROVE  IInv'
  <1> USE DEF IInv, EnterThread
  <1>1. op = "user"
    BY DEF BootInv, TypeOK
  <1>2. RingInv'
    <2>1. Ready' = Ready /\ WaitersAreWorkers'
      BY WaitersOfRingInv DEF WaitersAreWorkers, Ready, Parked
    <2> QED
      BY <2>1, StayRing
  <1>3. TypeOK'
    BY DEF TypeOK, queueVars, loopVars
  <1>4. BootInv' /\ MapInv'
    BY <1>1 DEF BootInv, MapInv, loopVars, TypeOK
  <1>5. LoopInv' /\ QueueInv'
    BY <1>1, LoopFrame, QueueFrame DEF TypeOK
  <1> QED
    BY <1>2, <1>3, <1>4, <1>5

(* CreateThread preserves the inductive invariant. *)
LEMMA CreateThreadIInv ==
    ASSUME IInv, AtUser, NEW t \in Thread, NEW map \in Map, CreateThread(t, map),
           \/ CreateInterruptThread /\ t = InterruptThread
           \/ t \in Worker /\ runnable \in Worker /\ UNCHANGED boot
    PROVE  IInv'
  <1> USE DEF IInv, CreateThread
  <1>1. op = "user" /\ boot # "load"
    BY DEF AtUser
  <1>2. t \in Thread \ Ready /\ Ready' = Ready \union {t}
    <2>1. t \notin created /\ gate[t] # -1 /\ runnable # interrupt_thread
      BY DEF RingInv, Worker, CreateInterruptThread, TypeOK
    <2>2. t # interrupt_thread
      BY <1>1, <2>1 DEF BootInv, TypeOK
    <2> QED
      BY <2>1, <2>2 DEF Ready, Parked, TypeOK
  <1>3. RingInv' /\ ring' \in Ring /\ runnable' \in Thread
    <2>1. WaitersAreWorkers'
      BY WaitersOfRingInv DEF WaitersAreWorkers
    <2> QED
      BY <1>2, <2>1, EnterRing
  <1>4. x0' \in [Thread -> Result]
    BY DEF TypeOK, Result
  <1>5. TypeOK'
    <2>1. boot' \in {"load", "create", "timer", "up"}
      BY DEF TypeOK, CreateInterruptThread
    <2> QED
      BY <1>3, <1>4, <2>1 DEF TypeOK, queueVars, loopVars
  <1>6. BootInv'
    <2>1. CASE CreateInterruptThread /\ t = InterruptThread
      <3>1. ring'.next[t] = runnable
        BY <1>2, InsertBeforeRing, RunnableReady DEF RingInv, TypeOK
      <3> QED
        BY <2>1, <3>1 DEF BootInv, CreateInterruptThread, loopVars
    <2>2. CASE t \in Worker /\ runnable \in Worker /\ UNCHANGED boot
      BY <2>2, <1>1 DEF BootInv, loopVars, Worker, TypeOK
    <2> QED
      BY <2>1, <2>2
  <1>7. MapInv'
    BY <1>1 DEF MapInv, loopVars, TypeOK
  <1>8. LoopInv' /\ QueueInv'
    BY <1>1, LoopFrame, QueueFrame DEF TypeOK
  <1> QED
    BY <1>3, <1>5, <1>6, <1>7, <1>8

(* StartTimer preserves the inductive invariant. *)
LEMMA StartTimerIInv ==
    ASSUME IInv, StartTimer
    PROVE  IInv'
  <1> USE DEF IInv, StartTimer
  <1>1. op = "user"
    BY DEF AtUser
  <1>2. RingInv'
    <2>1. Ready' = Ready /\ WaitersAreWorkers'
      BY WaitersOfRingInv DEF WaitersAreWorkers, Ready, Parked
    <2> QED
      BY <2>1, StayRing
  <1>3. TypeOK'
    BY DEF TypeOK, queueVars, loopVars, mapVars
  <1>4. BootInv' /\ MapInv'
    BY <1>1 DEF BootInv, MapInv, loopVars, mapVars, TypeOK
  <1>5. LoopInv' /\ QueueInv'
    BY <1>1, LoopFrame, QueueFrame DEF TypeOK
  <1> QED
    BY <1>2, <1>3, <1>4, <1>5

(* Yield preserves the inductive invariant. *)
LEMMA YieldIInv ==
    ASSUME IInv, Yield
    PROVE  IInv'
  <1> USE DEF IInv, Yield
  <1>1. op = "user" /\ boot # "load"
    BY DEF AtUser
  <1>2. ring.next[runnable] \in Ready /\ runnable \in Thread /\ boot = "up"
    BY <1>1, RunnableReady DEF TypeOK, BootInv, Worker
  <1>3. Ready' = Ready
    <2>1. runnable # InterruptThread /\ ring.next[runnable] # interrupt_thread
      BY <1>2 DEF Ready, Parked, Worker, TypeOK
    <2> QED
      BY <2>1, <1>2 DEF Ready, Parked, coreVars, TypeOK
  <1>4. RingInv' /\ runnable' \in Thread
    <2>1. WaitersAreWorkers'
      BY WaitersOfRingInv DEF WaitersAreWorkers, coreVars
    <2> QED
      BY <1>3, <2>1, StayRing
  <1>5. TypeOK'
    <2>1. x0' \in [Thread -> Result]
      BY DEF TypeOK, Result
    <2>2. loaded_map' \in Map \union {NULL}
      BY <1>4 DEF SwitchMap, TypeOK
    <2> QED
      BY <1>4, <2>1, <2>2 DEF TypeOK, queueVars, loopVars, coreVars
  <1>6. BootInv'
    BY <1>2 DEF BootInv, coreVars, loopVars, Ready
  <1>7. MapInv'
    BY <1>1 DEF MapInv, SwitchMap, loopVars, coreVars
  <1>8. LoopInv' /\ QueueInv'
    BY <1>1, LoopFrame, QueueFrame DEF TypeOK
  <1> QED
    BY <1>4, <1>5, <1>6, <1>7, <1>8

(* GoTo preserves the inductive invariant. *)
LEMMA GoToIInv ==
    ASSUME IInv, NEW map \in Map, GoTo(map)
    PROVE  IInv'
  <1> USE DEF IInv, GoTo
  <1>1. op = "user" /\ boot # "load"
    BY DEF AtUser
  <1>2. RingInv'
    <2>1. Ready' = Ready /\ WaitersAreWorkers'
      BY WaitersOfRingInv DEF WaitersAreWorkers, Ready, Parked
    <2> QED
      BY <2>1, StayRing
  <1>3. TypeOK'
    <2>1. x0' \in [Thread -> Result] /\ current_map' \in [Thread -> Map]
      BY DEF TypeOK, Result
    <2>2. ticked' \in BOOLEAN
      OBVIOUS
    <2> QED
      BY <2>1, <2>2 DEF TypeOK, queueVars, loopVars
  <1>4. BootInv'
    BY <1>1 DEF BootInv, loopVars
  <1>5. MapInv'
    BY <1>1 DEF MapInv, loopVars, TypeOK
  <1>6. LoopInv' /\ QueueInv'
    BY <1>1, LoopFrame, QueueFrame DEF TypeOK
  <1> QED
    BY <1>2, <1>3, <1>4, <1>5, <1>6

(* WaitOpen preserves the inductive invariant. *)
LEMMA WaitOpenIInv ==
    ASSUME IInv, WaitOpen
    PROVE  IInv'
  <1> USE DEF IInv, WaitOpen
  <1>1. op = "user" /\ boot # "load"
    BY DEF AtUser
  <1>2. /\ gate' \in [Thread -> -1 .. GateMax]
        /\ \A t \in Thread : gate'[t] = -1 <=> gate[t] = -1
        /\ x0' \in [Thread -> Result]
    BY DEF TypeOK, Result, Count
  <1>3. RingInv'
    <2>1. Ready' = Ready /\ WaitersAreWorkers'
      BY <1>2, WaitersOfRingInv DEF WaitersAreWorkers, Ready, Parked, coreVars, TypeOK
    <2> QED
      BY <2>1, StayRing
  <1>4. TypeOK'
    BY <1>2 DEF TypeOK, queueVars, loopVars, coreVars, mapVars
  <1>5. BootInv' /\ MapInv'
    BY <1>1 DEF BootInv, MapInv, loopVars, coreVars, mapVars
  <1>6. LoopInv' /\ QueueInv'
    BY <1>1, <1>2, LoopFrame, QueueFrame
  <1> QED
    BY <1>3, <1>4, <1>5, <1>6

(* WakeOther preserves the inductive invariant. *)
LEMMA WakeOtherIInv ==
    ASSUME IInv, NEW t \in Thread, WakeOther(t)
    PROVE  IInv'
  <1> USE DEF IInv, WakeOther
  <1>1. op = "user" /\ boot # "load"
    BY DEF AtUser
  <1>2. /\ gate' \in [Thread -> -1 .. GateMax]
        /\ \A u \in Thread : gate'[u] = -1 <=> gate[u] = -1
        /\ x0' \in [Thread -> Result]
    BY DEF TypeOK, Result, Count
  <1>3. RingInv'
    <2>1. Ready' = Ready /\ WaitersAreWorkers'
      BY <1>2, WaitersOfRingInv DEF WaitersAreWorkers, Ready, Parked, coreVars, TypeOK
    <2> QED
      BY <2>1, StayRing
  <1>4. TypeOK'
    BY <1>2 DEF TypeOK, queueVars, loopVars, coreVars, mapVars
  <1>5. BootInv' /\ MapInv'
    BY <1>1 DEF BootInv, MapInv, loopVars, coreVars, mapVars
  <1>6. LoopInv' /\ QueueInv'
    BY <1>1, <1>2, LoopFrame, QueueFrame
  <1> QED
    BY <1>3, <1>4, <1>5, <1>6

(* WakeForeign preserves the inductive invariant. *)
LEMMA WakeForeignIInv ==
    ASSUME IInv, NEW t \in Thread, WakeForeign(t)
    PROVE  IInv'
  <1> USE DEF IInv, WakeForeign
  <1>1. op = "user" /\ boot # "load"
    BY DEF AtUser
  <1>2. RingInv'
    <2>1. Ready' = Ready /\ WaitersAreWorkers'
      BY WaitersOfRingInv DEF WaitersAreWorkers, Ready, Parked
    <2> QED
      BY <2>1, StayRing
  <1>3. TypeOK' /\ BootInv' /\ MapInv'
    BY <1>1 DEF TypeOK, BootInv, MapInv, queueVars, loopVars, mapVars
  <1>4. LoopInv' /\ QueueInv'
    BY <1>1, LoopFrame, QueueFrame DEF TypeOK
  <1> QED
    BY <1>2, <1>3, <1>4

(* IRQ preserves the inductive invariant. *)
LEMMA IRQIInv ==
    ASSUME IInv, IRQ
    PROVE  IInv'
  <1> USE DEF IInv, IRQ, Interruptible
  <1>1. /\ op = "user" /\ boot = "up"
        /\ interrupt_thread = InterruptThread
        /\ InterruptThread \in created
    BY DEF AtUser, BootInv
  <1>2. /\ ring' = InsertBefore(ring, InterruptThread, runnable)
        /\ runnable' = InterruptThread
        /\ SwitchMap(runnable, InterruptThread)
        /\ UNCHANGED bsod
    BY <1>1
  <1>3. /\ InterruptThread \in Thread \ Ready
        /\ Ready' = Ready \union {InterruptThread}
    <2>1. gate[InterruptThread] # -1
      BY DEF RingInv, Worker
    <2> QED
      BY <1>1, <1>2, <2>1 DEF Ready, Parked
  <1>4. RingInv' /\ ring' \in Ring /\ runnable' \in Thread
    <2>1. WaitersAreWorkers'
      BY WaitersOfRingInv DEF WaitersAreWorkers
    <2> QED
      BY <1>2, <1>3, <2>1, EnterRing
  <1>5. TypeOK'
    <2>1. loaded_map' \in Map \union {NULL} /\ ticked' \in BOOLEAN
      BY <1>2 DEF SwitchMap, TypeOK
    <2> QED
      BY <1>2, <1>4, <2>1 DEF TypeOK, queueVars, loopVars
  <1>6. BootInv'
    BY <1>1, <1>2 DEF BootInv, loopVars
  <1>7. MapInv'
    BY <1>1, <1>2 DEF MapInv, SwitchMap, loopVars
  <1>8. LoopInv' /\ QueueInv'
    BY <1>1, LoopFrame, QueueFrame DEF TypeOK
  <1> QED
    BY <1>4, <1>5, <1>6, <1>7, <1>8

(* SetInterruptThread preserves the inductive invariant. *)
LEMMA SetInterruptThreadIInv ==
    ASSUME IInv, SetInterruptThread
    PROVE  IInv'
  <1> USE DEF IInv, SetInterruptThread
  <1>1. op = "user" /\ boot # "load" /\ runnable = InterruptThread
    BY DEF AtUser
  <1>2. /\ interrupt_thread' = InterruptThread
        /\ ring' = Remove(ring, runnable)
        /\ runnable' = ring.next[runnable]
        /\ SwitchMap(runnable, ring.next[runnable])
        /\ UNCHANGED bsod
    BY <1>1 DEF TypeOK
  <1>3. ring.next[runnable] \in Ready \ {runnable}
    BY <1>1, NextIsOther, RunnableReady
  <1>4. Ready' = Ready \ {runnable}
    <2>1. gate[InterruptThread] # -1
      BY DEF RingInv, Worker
    <2> QED
      BY <1>1, <1>2, <1>3, <2>1 DEF Ready, Parked, TypeOK
  <1>5. RingInv' /\ ring' \in Ring /\ runnable' \in Thread
    <2>1. WaitersAreWorkers'
      BY WaitersOfRingInv DEF WaitersAreWorkers
    <2> QED
      BY <1>1, <1>2, <1>4, <2>1, LeaveRing
  <1>6. TypeOK'
    <2>1. loaded_map' \in Map \union {NULL} /\ ticked' \in BOOLEAN
      BY <1>2, <1>5 DEF SwitchMap, TypeOK
    <2> QED
      BY <1>2, <1>5, <2>1 DEF TypeOK, queueVars, loopVars
  <1>7. BootInv'
    <2>1. runnable' \in created'
      BY <1>2, <1>3 DEF Ready
    <2>2. boot = "timer" => ring.next[runnable] = Idle
      BY <1>1, <1>3 DEF BootInv
    <2> QED
      BY <1>1, <1>2, <2>1, <2>2 DEF BootInv, loopVars
  <1>8. MapInv'
    BY <1>1, <1>2 DEF MapInv, SwitchMap, loopVars
  <1>9. LoopInv' /\ QueueInv'
    BY <1>1, LoopFrame, QueueFrame DEF TypeOK
  <1> QED
    BY <1>5, <1>6, <1>7, <1>8, <1>9

(* The running thread blocks at its gate: what both ways to do so share. *)
LEMMA BlockRunningRing ==
    ASSUME IInv, NEW timeout \in 0 .. WordMax, BlockRunning(timeout),
           UNCHANGED coreVars
    PROVE  /\ op = "user" /\ boot = "up" /\ sleeper = NULL
           /\ runnable \in Thread /\ gate[runnable] = 0
           /\ RingInv' /\ ring' \in Ring /\ runnable' \in Thread
           /\ runnable' \in created
           /\ gate' \in [Thread -> -1 .. GateMax]
           /\ x0' \in [Thread -> Result]
           /\ x1' \in [Thread -> 0 .. WordMax]
           /\ left' \in [Thread -> 0 .. WordMax]
  <1> USE DEF IInv, BlockRunning
  <1>1. op = "user" /\ boot # "load" /\ runnable \in Worker
    BY DEF AtUser
  <1>2. runnable \in Ready /\ runnable \in Thread /\ runnable \in created
    BY RunnableReady DEF TypeOK, Ready
  <1>3. gate[runnable] = 0
    BY <1>2 DEF TypeOK, Ready
  <1>4. /\ gate' \in [Thread -> -1 .. GateMax]
        /\ x0' \in [Thread -> Result]
        /\ x1' \in [Thread -> 0 .. WordMax]
        /\ left' \in [Thread -> 0 .. WordMax]
    BY <1>2 DEF TypeOK, Result
  <1>5. boot = "up"
    BY <1>1 DEF BootInv, TypeOK, Worker
  <1>6. runnable # Idle /\ runnable # interrupt_thread
    BY <1>1 DEF Worker, TypeOK
  <1>7. ring.next[runnable] \in Ready \ {runnable}
    BY <1>6, NextIsOther, RunnableReady
  <1>8. Ready' = Ready \ {runnable}
    <2>1. runnable' # interrupt_thread
      BY <1>6, <1>7 DEF Ready, Parked
    <2>2. gate'[runnable] = -1 /\ \A t \in Thread \ {runnable} : gate'[t] = gate[t]
      BY <1>2 DEF TypeOK
    <2> QED
      BY <1>6, <2>1, <2>2 DEF Ready, Parked, TypeOK, coreVars
  <1>9. WaitersAreWorkers'
    BY <1>1, <1>2, WaitersOfRingInv DEF WaitersAreWorkers, coreVars, TypeOK
  <1>10. RingInv' /\ ring' \in Ring /\ runnable' \in Thread
    BY <1>6, <1>8, <1>9, LeaveRing
  <1>11. sleeper = NULL
    BY <1>1 DEF LoopInv
  <1> QED
    BY <1>1, <1>2, <1>3, <1>4, <1>5, <1>7, <1>10, <1>11 DEF Ready

(* wait_until_woken, blocking. *)
LEMMA WaitForeverIInv ==
    ASSUME IInv, WaitForever
    PROVE  IInv'
  <1> USE DEF IInv
  <1>0. PICK r \in Thread : r = runnable
    BY DEF TypeOK
  <1>1. BlockRunning(0) /\ UNCHANGED coreVars
    BY DEF WaitForever
  <1>2. /\ op = "user" /\ boot = "up" /\ sleeper = NULL
        /\ r \in Thread /\ gate[r] = 0
        /\ RingInv' /\ ring' \in Ring /\ runnable' \in Thread
        /\ runnable' \in created
        /\ gate' \in [Thread -> -1 .. GateMax]
        /\ x0' \in [Thread -> Result]
        /\ x1' \in [Thread -> 0 .. WordMax]
        /\ left' \in [Thread -> 0 .. WordMax]
    BY <1>0, <1>1, BlockRunningRing
  <1>3. TypeOK'
    <2>1. loaded_map' \in Map \union {NULL}
      BY <1>0, <1>1, <1>2 DEF WaitForever, BlockRunning, SwitchMap, TypeOK
    <2>2. /\ x16' \in [Thread -> Thread \union {NULL, HEAD, Garbage}]
          /\ x17' \in [Thread -> Thread \union {NULL, Garbage}]
      BY DEF WaitForever, TypeOK
    <2> QED
      BY <1>2, <2>1, <2>2 DEF WaitForever, TypeOK, loopVars, coreVars
  <1>4. BootInv'
    BY <1>2 DEF BootInv, WaitForever, coreVars, loopVars
  <1>5. MapInv'
    BY <1>0, <1>1, <1>2 DEF MapInv, WaitForever, BlockRunning, SwitchMap, loopVars, coreVars
  <1>6. LoopInv'
    BY <1>2 DEF LoopInv, WaitForever, loopVars
  <1>7. QueueInv'
    <2>1. /\ UNCHANGED <<blocked_with_timeout, pos, op, sleeper, cursor>>
          /\ \A t \in Thread \ {r} : /\ gate'[t] = gate[t]
                                       /\ x1'[t] = x1[t]
                                       /\ x16'[t] = x16[t]
                                       /\ x17'[t] = x17[t]
                                       /\ left'[t] = left[t]
          /\ x16'[r] = NULL
          /\ left'[r] = 0
      BY <1>0, <1>2 DEF WaitForever, BlockRunning, loopVars, TypeOK
    <2>2. ~Timed(r) /\ ~Timed(r)'
      BY <1>2, <2>1 DEF Timed
    <2>3. \A t \in Thread : Timed(t)' <=> Timed(t)
      BY <2>1, <2>2 DEF Timed
    <2>4. QueueHead' = QueueHead /\ (QueueHead # NULL => QueueHead \in Thread)
      BY <1>2, <2>1 DEF QueueHead, TypeOK
    <2>5. \A t \in Thread : Timed(t) => t # r
      BY <2>2
    <2>6. IF QueueHead = NULL
            THEN \A t \in Thread : ~Timed(t)'
            ELSE /\ Timed(QueueHead)'
                 /\ pos'[QueueHead] = 1
                 /\ left'[QueueHead] = x1'[QueueHead]
                 /\ x16'[QueueHead] = HEAD
      <3>1. CASE QueueHead = NULL
        BY <3>1, <2>3 DEF QueueInv
      <3>2. CASE QueueHead # NULL
        <4>1. QueueHead \in Thread /\ QueueHead # r /\ Timed(QueueHead)
          BY <3>2, <2>4, <2>5 DEF QueueInv
        <4>2. Timed(QueueHead)'
          BY <4>1, <2>1, <2>4 DEF Timed
        <4> QED
          BY <3>2, <4>1, <4>2, <2>1, <1>2 DEF QueueInv
      <3> QED
        BY <3>1, <3>2
    <2>7. \A t \in Thread \ {r} : x17[t] \in Thread /\ Timed(x17[t]) => Timed(x17[t])' /\ x17[t] # r
      BY <2>1, <2>2 DEF Timed
    <2>8. \A t \in Thread \ {r} : x16[t] \in Thread /\ Timed(x16[t]) => Timed(x16[t])' /\ x16[t] # r
      BY <2>1, <2>2 DEF Timed
    <2> QED
      BY <1>2, <2>1, <2>3, <2>4, <2>5, <2>6, <2>7, <2>8 DEF QueueInv
  <1> QED
    BY <1>2, <1>3, <1>4, <1>5, <1>6, <1>7

(* sleep_unless_woken, blocking: out of the ring, not yet in the queue. *)
LEMMA WaitTimedIInv ==
    ASSUME IInv, NEW timeout \in Timeout, WaitTimed(timeout)
    PROVE  IInv'
  <1> USE DEF IInv
  <1>0. PICK r \in Thread : r = runnable
    BY DEF TypeOK
  <1>1. BlockRunning(timeout) /\ UNCHANGED coreVars /\ timeout \in 1 .. WordMax
    BY DEF WaitTimed
  <1>2. /\ op = "user" /\ boot = "up" /\ sleeper = NULL
        /\ r \in Thread /\ gate[r] = 0
        /\ RingInv' /\ ring' \in Ring /\ runnable' \in Thread
        /\ runnable' \in created
        /\ gate' \in [Thread -> -1 .. GateMax]
        /\ x0' \in [Thread -> Result]
        /\ x1' \in [Thread -> 0 .. WordMax]
        /\ left' \in [Thread -> 0 .. WordMax]
    BY <1>0, <1>1, BlockRunningRing
  <1>3. TypeOK'
    BY <1>0, <1>1, <1>2 DEF WaitTimed, TypeOK, mapVars, coreVars
  <1>4. BootInv'
    BY <1>2 DEF BootInv, WaitTimed, coreVars
  <1>5. MapInv'
    BY <1>2 DEF MapInv, WaitTimed, mapVars, coreVars
  <1>6. /\ UNCHANGED <<blocked_with_timeout, pos, x16, x17>>
        /\ op' = "insert" /\ sleeper' = r /\ cursor' = HEAD /\ remaining' = timeout
        /\ \A t \in Thread \ {r} : /\ gate'[t] = gate[t]
                                     /\ x1'[t] = x1[t]
                                     /\ left'[t] = left[t]
        /\ gate'[r] = -1 /\ left'[r] = timeout
    BY <1>0, <1>1, <1>2 DEF WaitTimed, BlockRunning, TypeOK
  <1>7. LoopInv'
    <2>1. r \in Worker
      BY <1>0, <1>1 DEF BlockRunning
    <2> QED
      BY <1>1, <1>6, <2>1 DEF LoopInv
  <1>8. QueueInv'
    <2>1. ~Timed(r) /\ ~Timed(r)'
      BY <1>2, <1>6 DEF Timed
    <2>2. \A t \in Thread : Timed(t)' <=> Timed(t)
      BY <1>2, <1>6, <2>1 DEF Timed
    <2>3. QueueHead' = QueueHead /\ (QueueHead # NULL => QueueHead \in Thread)
      BY <1>2, <1>6 DEF QueueHead, TypeOK
    <2>4. \A t \in Thread : Timed(t) => t # r
      BY <2>1
    <2>5. QueueHead # NULL => Timed(QueueHead)'
      BY <1>2, <1>6, <2>3, <2>4 DEF Timed, QueueInv
    <2>6. \A t \in Thread \ {r} : x17[t] \in Thread /\ Timed(x17[t]) => Timed(x17[t])' /\ x17[t] # r
      BY <1>2, <1>6, <2>1 DEF Timed
    <2>7. \A t \in Thread \ {r} : x16[t] \in Thread /\ Timed(x16[t]) => Timed(x16[t])' /\ x16[t] # r
      BY <1>2, <1>6, <2>1 DEF Timed
    <2> QED
      BY <1>2, <1>6, <2>2, <2>3, <2>4, <2>5, <2>6, <2>7 DEF QueueInv
  <1> QED
    BY <1>2, <1>3, <1>4, <1>5, <1>7, <1>8

(* While a thread goes into the queue: what Deref( cursor ) can be. *)
LEMMA CursorEntry ==
    ASSUME IInv, op = "insert", NEW e, e = Deref(cursor), e # NULL
    PROVE  /\ e \in Thread /\ Timed(e) /\ e # cursor
           /\ cursor = HEAD => /\ e = QueueHead
                               /\ pos[e] = 1
                               /\ left[e] = x1[e]
           /\ cursor # HEAD => /\ cursor \in Thread /\ Timed(cursor)
                               /\ e = x17[cursor] /\ e # QueueHead
                               /\ x16[e] = cursor
                               /\ pos[e] = pos[cursor] + 1
                               /\ left[e] = left[cursor] + x1[e]
  <1> USE DEF IInv
  <1>1. QueueHead = blocked_with_timeout
    BY DEF QueueHead
  <1>2. CASE cursor = HEAD
    BY <1>1, <1>2 DEF Deref, QueueInv, TypeOK
  <1>3. CASE cursor # HEAD
    <2>1. cursor \in Thread /\ Timed(cursor) /\ e = x17[cursor]
      BY <1>3 DEF LoopInv, Deref
    <2>2. e \in Thread /\ Timed(e) /\ e # QueueHead /\ x16[e] = cursor
      BY <2>1 DEF QueueInv
    <2>3. pos[e] = pos[cursor] + 1 /\ left[e] = left[cursor] + x1[e]
      BY <2>2 DEF QueueInv
    <2> QED
      BY <1>3, <2>1, <2>2, <2>3 DEF TypeOK
  <1> QED
    BY <1>2, <1>3

(* One step of the search for the place in the timeout queue. *)
LEMMA InsertWalkIInv ==
    ASSUME IInv, InsertWalk
    PROVE  IInv'
  <1> USE DEF IInv
  <1>0. PICK e : e = Deref(cursor)
    OBVIOUS
  <1>1. /\ op = "insert" /\ e # NULL /\ remaining > x1[e]
        /\ remaining' = Minus(remaining, x1[e]) /\ cursor' = e
        /\ UNCHANGED <<ring, runnable, gate, x0, queueVars, op, sleeper, mapVars, coreVars>>
    BY <1>0 DEF InsertWalk, PassEntry
  <1>2. /\ e \in Thread /\ Timed(e) /\ e # cursor
        /\ cursor = HEAD => left[e] = x1[e]
        /\ cursor # HEAD => /\ cursor \in Thread
                            /\ left[e] = left[cursor] + x1[e]
    BY <1>0, <1>1, CursorEntry
  <1>3. remaining' = remaining - x1[e] /\ remaining' \in 1 .. WordMax
    BY <1>1, <1>2 DEF Minus, TypeOK
  <1>4. TypeOK'
    BY <1>1, <1>2, <1>3 DEF TypeOK, queueVars, mapVars, coreVars
  <1>5. BootInv' /\ MapInv'
    BY <1>1 DEF BootInv, MapInv, mapVars, coreVars
  <1>6. RingInv'
    <2>1. Ready' = Ready
      BY <1>1 DEF Ready, Parked, coreVars
    <2> QED
      BY <1>1, <2>1 DEF RingInv, coreVars
  <1>7. \A t \in Thread : Timed(t)' <=> Timed(t)
    BY <1>1 DEF Timed, queueVars
  <1>8. LoopInv'
    <2>1. left[sleeper] = remaining' + left[e]
      BY <1>1, <1>2, <1>3 DEF LoopInv, TypeOK
    <2>2. Timed(cursor)'
      BY <1>1, <1>2 DEF Timed, queueVars
    <2> QED
      BY <1>1, <1>2, <1>3, <2>1, <2>2 DEF LoopInv, queueVars
  <1>9. QueueInv'
    <2>1. UNCHANGED <<blocked_with_timeout, x1, x16, x17, left, pos, op, sleeper>>
      BY <1>1 DEF queueVars
    <2>2. QueueHead' = QueueHead /\ (QueueHead # NULL => QueueHead \in Thread)
      BY <1>1, <2>1 DEF QueueHead, TypeOK
    <2>3. \A t \in Thread : x17[t] \in Thread => (Timed(x17[t])' <=> Timed(x17[t]))
      BY <1>1, <2>1 DEF Timed
    <2>4. \A t \in Thread : x16[t] \in Thread => (Timed(x16[t])' <=> Timed(x16[t]))
      BY <1>1, <2>1 DEF Timed
    <2>5. QueueHead # NULL => (Timed(QueueHead)' <=> Timed(QueueHead))
      BY <1>1, <2>1, <2>2 DEF Timed
    <2> QED
      BY <1>1, <1>7, <2>1, <2>2, <2>3, <2>4, <2>5 DEF QueueInv
  <1> QED
    BY <1>4, <1>5, <1>6, <1>8, <1>9

(* The place is found: the thread goes in between the cursor and e. *)
LEMMA InsertHereIInv ==
    ASSUME IInv, InsertHere
    PROVE  IInv'
  <1> USE DEF IInv
  <1>00. PICK s \in Thread : s = sleeper
    BY DEF InsertHere, LoopInv, Worker
  <1>0. PICK c, e, place :
              /\ s = sleeper /\ c = cursor /\ e = Deref(cursor)
              /\ place = IF cursor = HEAD THEN 1 ELSE pos[cursor] + 1
    BY <1>00
  <1>1. /\ op = "insert" /\ gate[s] = -1 /\ ~Timed(s)
        /\ remaining \in 1 .. WordMax
        /\ c # HEAD => c \in Thread /\ Timed(c)
        /\ left[s] = remaining + (IF c = HEAD THEN 0 ELSE left[c])
        /\ c # NULL /\ c # s
        /\ place \in Nat /\ place >= 1
        /\ QueueHead = blocked_with_timeout
    BY <1>0 DEF InsertHere, LoopInv, Timed, TypeOK, QueueHead
  <1>2. e # NULL =>
           /\ e \in Thread /\ Timed(e) /\ e # c /\ e # s
           /\ remaining <= x1[e]
           /\ pos[e] = place
           /\ left[e] = (IF c = HEAD THEN 0 ELSE left[c]) + x1[e]
           /\ c = HEAD => e = QueueHead
           /\ c # HEAD => e # QueueHead /\ x16[e] = c /\ x17[c] = e
    BY <1>0, <1>1, CursorEntry DEF InsertHere, PassEntry, TypeOK
  <1>3. e = NULL => IF c = HEAD THEN QueueHead = NULL ELSE x17[c] = NULL
    BY <1>0, <1>1 DEF Deref
  <1>4. /\ x1' = [t \in Thread |-> IF t = s THEN remaining
                                   ELSE IF t = e THEN Minus(x1[t], remaining)
                                   ELSE x1[t]]
        /\ x16' = [t \in Thread |-> IF t = s THEN c
                                    ELSE IF t = e THEN s ELSE x16[t]]
        /\ x17' = [t \in Thread |-> IF t = s THEN e
                                    ELSE IF t = c THEN s ELSE x17[t]]
        /\ blocked_with_timeout' = IF c = HEAD THEN s ELSE blocked_with_timeout
        /\ pos' = [t \in Thread |-> IF t = s THEN place
                                    ELSE IF Timed(t) /\ pos[t] >= place
                                           THEN pos[t] + 1 ELSE pos[t]]
        /\ op' = "user" /\ sleeper' = NULL /\ cursor' = NULL /\ remaining' = 0
        /\ SwitchMap(s, runnable)
        /\ UNCHANGED <<ring, runnable, gate, x0, left, current_map, coreVars>>
    BY <1>0 DEF InsertHere
  <1>5. \A t \in Thread : x1'[t] = IF t = s THEN remaining
                                  ELSE IF t = e THEN x1[t] - remaining
                                  ELSE x1[t]
    BY <1>1, <1>2, <1>4 DEF Minus, TypeOK
  <1>6. TypeOK'
    <2>1. x1' \in [Thread -> 0 .. WordMax]
      <3>1. \A t \in Thread : x1'[t] \in 0 .. WordMax
        BY <1>1, <1>2, <1>5 DEF TypeOK
      <3> QED
        BY <1>4, <3>1
    <2>2. pos' \in [Thread -> Nat]
      BY <1>1, <1>4 DEF TypeOK
    <2>3. x16' \in [Thread -> Thread \union {NULL, HEAD, Garbage}]
      BY <1>1, <1>4 DEF TypeOK
    <2>4. x17' \in [Thread -> Thread \union {NULL, Garbage}]
      BY <1>2, <1>4 DEF TypeOK
    <2>5. loaded_map' \in Map \union {NULL}
      BY <1>4 DEF SwitchMap, TypeOK
    <2> QED
      BY <1>4, <2>1, <2>2, <2>3, <2>4, <2>5 DEF TypeOK, coreVars
  <1>7. BootInv' /\ MapInv'
    <2>1. boot = "up"
      BY <1>1 DEF BootInv
    <2> QED
      BY <1>0, <1>1, <1>4, <2>1 DEF BootInv, MapInv, SwitchMap, coreVars
  <1>8. RingInv'
    <2>1. Ready' = Ready
      BY <1>4 DEF Ready, Parked, coreVars
    <2> QED
      BY <1>4, <2>1 DEF RingInv, coreVars
  <1>9. LoopInv'
    BY <1>4 DEF LoopInv
  <1>10. QueueInv'
    <2>1. \A t \in Thread : Timed(t)' <=> Timed(t) \/ t = s
      BY <1>0, <1>1, <1>2, <1>4 DEF Timed
    <2>2. QueueHead' = IF c = HEAD THEN s ELSE QueueHead
      BY <1>1, <1>4 DEF QueueHead
    <2>3. QueueHead # NULL => /\ QueueHead \in Thread /\ Timed(QueueHead)
                             /\ pos[QueueHead] = 1 /\ x16[QueueHead] = HEAD
                             /\ left[QueueHead] = x1[QueueHead]
      BY <1>1 DEF QueueInv, TypeOK
    <2>4. c # HEAD => QueueHead # NULL
      BY <1>1 DEF QueueInv
    \* Behind the cursor nothing moves; from e on everyone moves up one.
    <2>5. \A t \in Thread : Timed(t) =>
             IF e # NULL /\ pos[t] >= pos[e]
               THEN pos[t] >= place /\ pos'[t] = pos[t] + 1 /\ left[s] <= left[t]
               ELSE /\ c # HEAD /\ pos[t] < place /\ pos'[t] = pos[t]
                    /\ pos[t] <= pos[c] /\ left[t] <= left[s]
      <3> SUFFICES ASSUME NEW t \in Thread, Timed(t)
                   PROVE  IF e # NULL /\ pos[t] >= pos[e]
               THEN pos[t] >= place /\ pos'[t] = pos[t] + 1 /\ left[s] <= left[t]
               ELSE /\ c # HEAD /\ pos[t] < place /\ pos'[t] = pos[t]
                    /\ pos[t] <= pos[c] /\ left[t] <= left[s]
        OBVIOUS
      <3>0. /\ pos[t] \in Nat /\ pos[t] >= 1 /\ left[t] \in Nat /\ t # s /\ left[s] \in Nat
            /\ c # HEAD => pos[c] \in Nat /\ left[c] \in Nat /\ place = pos[c] + 1
            /\ c = HEAD => place = 1
        BY <1>0, <1>1 DEF TypeOK, QueueInv
      <3>1. CASE e # NULL /\ pos[t] >= pos[e]
        <4>1. left[e] <= left[t] /\ left[e] \in Nat /\ x1[e] \in Nat
          BY <1>2, <3>1 DEF QueueInv, TypeOK
        <4>2. left[s] <= left[e]
          BY <1>1, <1>2, <3>0, <3>1, <4>1
        <4> QED
          BY <1>2, <1>4, <3>0, <3>1, <4>1, <4>2
      <3>2. CASE ~(e # NULL /\ pos[t] >= pos[e])
        <4>1. c # HEAD /\ pos[t] <= pos[c]
          <5>1. CASE e = NULL
            BY <1>1, <1>3, <5>1 DEF QueueInv
          <5>2. CASE e # NULL
            BY <1>2, <3>0, <3>2, <5>2
          <5> QED
            BY <5>1, <5>2
        <4>2. left[t] <= left[c]
          BY <1>1, <4>1 DEF QueueInv
        <4> QED
          BY <1>1, <1>4, <3>0, <3>2, <4>1, <4>2
      <3> QED
        BY <3>1, <3>2
    <2>6. pos'[s] = place /\ left'[s] = left[s] /\ left[s] \in Nat /\ left[s] >= 1
      BY <1>1, <1>4 DEF TypeOK
    <2>7. QueueHead' # NULL /\ QueueHead' \in Thread
      BY <2>2, <2>3, <2>4
    <2>8. /\ Timed(QueueHead)'
          /\ (pos[QueueHead] = 1)'
          /\ (left[QueueHead] = x1[QueueHead])'
          /\ (x16[QueueHead] = HEAD)'
      <3>1. CASE c = HEAD
        <4>1. QueueHead' = s /\ place = 1
          BY <1>0, <2>2, <3>1
        <4>2. left'[s] = x1'[s]
          BY <1>1, <1>4, <1>5, <3>1
        <4>3. gate'[s] = -1 /\ x16'[s] = HEAD /\ s # sleeper'
          BY <1>1, <1>4, <3>1
        <4> QED
          BY <2>6, <4>1, <4>2, <4>3 DEF Timed
      <3>2. CASE c # HEAD
        <4>1. QueueHead' = QueueHead /\ QueueHead # s /\ QueueHead # e
          BY <3>2, <1>1, <1>2, <2>2, <2>3, <2>4
        <4>2. pos'[QueueHead] = 1
          <5>1. pos[c] >= 1 /\ pos[c] \in Nat /\ place = pos[c] + 1
            BY <1>0, <1>1, <3>2 DEF QueueInv, TypeOK
          <5> QED
            BY <1>4, <2>3, <2>4, <3>2, <4>1, <5>1
        <4>3. gate'[QueueHead'] = -1 /\ x16'[QueueHead'] = HEAD /\ QueueHead' # sleeper'
          BY <1>4, <2>3, <2>4, <2>7, <3>2, <4>1 DEF Timed
        <4> QED
          BY <1>4, <1>5, <2>3, <2>4, <3>2, <4>1, <4>2, <4>3 DEF Timed
      <3> QED
        BY <3>1, <3>2
    <2>9. \A t \in Thread : Timed(t)' => left'[t] >= 1
      BY <1>1, <1>4, <2>1, <2>6 DEF QueueInv
    <2>10. \A t \in Thread : Timed(t)' /\ t # QueueHead' =>
             /\ x16'[t] \in Thread
             /\ Timed(x16[t])'
             /\ x17'[x16'[t]] = t
             /\ pos'[t] = pos'[x16'[t]] + 1
             /\ left'[t] = left'[x16'[t]] + x1'[t]
      <3> SUFFICES ASSUME NEW t \in Thread, Timed(t)', t # QueueHead',
                          NEW p, p = x16'[t]
                   PROVE  /\ p \in Thread /\ gate[p] = -1 /\ x16'[p] # NULL
                          /\ x17'[p] = t
                          /\ pos'[t] = pos'[p] + 1
                          /\ left[t] = left[p] + x1'[t]
        BY <1>4 DEF Timed
      <3>1. CASE t = s
        <4>1. c # HEAD /\ p = c /\ Timed(c)
          BY <1>1, <1>4, <2>2, <3>1
        <4>2. pos'[c] = pos[c] /\ place = pos[c] + 1
          BY <1>0, <1>1, <1>2, <2>5, <4>1 DEF TypeOK
        <4>3. Timed(c)'
          BY <2>1, <4>1, <1>1
        <4>4. left[s] = left[c] + x1'[s]
          BY <1>1, <1>5, <4>1 DEF TypeOK
        <4>5. x17'[c] = s
          BY <1>1, <1>4, <4>1
        <4>6. gate[c] = -1 /\ x16'[c] # NULL
          BY <1>4, <4>3 DEF Timed
        <4> QED
          BY <1>1, <2>6, <3>1, <4>1, <4>2, <4>4, <4>5, <4>6
      <3>2. CASE t # s /\ t = e
        <4>1. e # NULL /\ p = s
          BY <1>4, <3>2
        <4>2. pos'[e] = place + 1
          BY <1>2, <2>5, <4>1 DEF TypeOK
        <4>3. left[e] = left[s] + x1'[e]
          BY <1>1, <1>2, <1>5, <3>2, <4>1 DEF TypeOK
        <4> QED
          BY <1>1, <1>4, <2>6, <3>2, <4>1, <4>2, <4>3
      <3>3. CASE t # s /\ t # e
        <4>1. Timed(t) /\ p = x16[t] /\ t # QueueHead
          BY <1>2, <1>3, <1>4, <2>1, <2>2, <3>3
        <4>2. /\ p \in Thread /\ Timed(p) /\ x17[p] = t
              /\ pos[t] = pos[p] + 1
              /\ left[t] = left[p] + x1[t]
          BY <4>1 DEF QueueInv
        <4>3. p # s /\ p # c
          BY <1>1, <1>2, <1>3, <3>3, <4>2
        <4>4. pos'[t] = pos'[p] + 1
          <5>1. pos[p] \in Nat /\ pos[t] \in Nat
            BY <4>2 DEF TypeOK
          <5>2. CASE e # NULL
            <6>1. pos[t] # pos[e] /\ pos[e] \in Nat
              BY <1>2, <3>3, <4>1, <5>2 DEF QueueInv, TypeOK
            <6> QED
              BY <2>5, <4>1, <4>2, <5>1, <5>2, <6>1
          <5>3. CASE e = NULL
            BY <2>5, <4>1, <4>2, <5>3
          <5> QED
            BY <5>2, <5>3
        <4>5. Timed(p)'
          <5>1. \A u \in Thread : Timed(u) => gate'[u] = -1 /\ x16'[u] # NULL
            BY <2>1 DEF Timed
          <5> QED
            BY <4>2, <5>1, <1>4 DEF Timed
        <4> QED
          BY <1>4, <1>5, <3>3, <4>2, <4>3, <4>4, <4>5 DEF Timed
      <3> QED
        BY <3>1, <3>2, <3>3
    <2>11. \A t \in Thread : Timed(t)' /\ x17'[t] # NULL =>
             /\ x17'[t] \in Thread
             /\ Timed(x17[t])'
             /\ x17'[t] # QueueHead'
             /\ x16'[x17'[t]] = t
      <3> SUFFICES ASSUME NEW t \in Thread, Timed(t)',
                          NEW n, n = x17'[t], n # NULL
                   PROVE  /\ n \in Thread /\ gate[n] = -1 /\ x16'[n] # NULL
                          /\ n # QueueHead'
                          /\ x16'[n] = t
        BY <1>4 DEF Timed
      <3>1. CASE t = s
        BY <1>1, <1>2, <1>4, <2>2, <3>1 DEF Timed
      <3>2. CASE t # s /\ t = c
        BY <1>1, <1>4, <2>2, <2>3, <2>4, <3>2
      <3>3. CASE t # s /\ t # c
        <4>1. Timed(t) /\ n = x17[t]
          BY <1>4, <2>1, <3>3
        <4>2. n \in Thread /\ Timed(n) /\ n # QueueHead /\ x16[n] = t
          BY <4>1 DEF QueueInv
        <4>3. n # s /\ n # e
          BY <1>1, <1>2, <3>3, <4>2
        <4> QED
          BY <1>4, <2>2, <3>3, <4>2, <4>3 DEF Timed
      <3> QED
        BY <3>1, <3>2, <3>3
    <2>12. \A t, u \in Thread : Timed(t)' /\ Timed(u)' =>
             /\ x17'[t] = NULL => pos'[u] <= pos'[t]
             /\ pos'[t] = pos'[u] => t = u
             /\ pos'[t] <= pos'[u] => left'[t] <= left'[u]
      <3> SUFFICES ASSUME NEW t \in Thread, NEW u \in Thread, Timed(t)', Timed(u)'
                   PROVE  /\ x17'[t] = NULL => pos'[u] <= pos'[t]
                          /\ pos'[t] = pos'[u] => t = u
                          /\ pos'[t] <= pos'[u] => left[t] <= left[u]
        BY <1>4
      <3>0. /\ pos \in [Thread -> Nat] /\ left \in [Thread -> 0 .. WordMax]
            /\ e # NULL => pos[e] = place
        BY <1>2 DEF TypeOK
      <3>1. CASE t = s /\ u = s
        BY <2>6, <3>0, <3>1, <1>1
      <3>2. CASE t = s /\ u # s
        <4>1. Timed(u)
          BY <2>1, <3>2
        <4>2. e = NULL => pos'[u] < place
          BY <2>5, <4>1
        <4>3. CASE e # NULL /\ pos[u] >= pos[e]
          BY <1>1, <1>4, <2>5, <2>6, <3>0, <3>2, <4>1, <4>3
        <4>4. CASE ~(e # NULL /\ pos[u] >= pos[e])
          BY <1>1, <1>4, <2>5, <2>6, <3>0, <3>2, <4>1, <4>2, <4>4
        <4> QED
          BY <4>3, <4>4
      <3>3. CASE t # s /\ u = s
        <4>1. Timed(t)
          BY <2>1, <3>3
        <4>2. CASE e # NULL /\ pos[t] >= pos[e]
          BY <1>1, <1>4, <2>5, <2>6, <3>0, <3>3, <4>1, <4>2
        <4>3. CASE ~(e # NULL /\ pos[t] >= pos[e])
          <5>1. x17'[t] # NULL
            <6>1. CASE t = c
              BY <1>4, <3>3, <6>1
            <6>2. CASE t # c
              <7>1. x17'[t] = x17[t] /\ c # HEAD /\ Timed(c) /\ c \in Thread
                BY <1>1, <1>4, <2>5, <3>3, <4>1, <4>3, <6>2
              <7>2. pos[t] # pos[c] /\ pos[t] <= pos[c]
                BY <2>5, <4>1, <4>3, <6>2, <7>1 DEF QueueInv
              <7> QED
                BY <3>0, <4>1, <7>1, <7>2 DEF QueueInv
            <6> QED
              BY <6>1, <6>2
          <5> QED
            BY <1>1, <1>4, <2>5, <2>6, <3>0, <3>3, <4>1, <4>3, <5>1
        <4> QED
          BY <4>2, <4>3
      <3>4. CASE t # s /\ u # s
        <4>1. Timed(t) /\ Timed(u)
          BY <2>1, <3>4
        <4>0. /\ pos'[t] = IF e # NULL /\ pos[t] >= place THEN pos[t] + 1 ELSE pos[t]
              /\ pos'[u] = IF e # NULL /\ pos[u] >= place THEN pos[u] + 1 ELSE pos[u]
              /\ pos[t] \in Nat /\ pos[u] \in Nat /\ place \in Nat
          BY <1>1, <2>5, <3>0, <4>1
        <4>2. pos'[t] <= pos'[u] <=> pos[t] <= pos[u]
          BY <4>0
        <4>3. pos'[t] = pos'[u] <=> pos[t] = pos[u]
          BY <4>0
        <4>4. x17'[t] = NULL => x17[t] = NULL
          BY <1>4, <3>4
        <4>5. pos'[u] <= pos'[t] <=> pos[u] <= pos[t]
          BY <4>0
        <4> QED
          BY <4>1, <4>2, <4>3, <4>4, <4>5 DEF QueueInv
      <3> QED
        BY <3>1, <3>2, <3>3, <3>4
    <2>13. \A t \in Thread : IF Timed(t)' THEN pos'[t] >= 1 ELSE pos'[t] = 0
      BY <1>1, <1>4, <2>1, <2>6 DEF QueueInv, TypeOK
    <2>14. \A t \in Thread : ~Timed(t)' => left'[t] = 0
      BY <1>0, <1>4, <2>1 DEF QueueInv
    <2> QED
      BY <1>4, <2>7, <2>8, <2>9, <2>10, <2>11, <2>12, <2>13, <2>14 DEF QueueInv
  <1> QED
    BY <1>6, <1>7, <1>8, <1>9, <1>10

(* Waking a thread: it comes out of whatever it was in. *)
LEMMA WakeWaitingRing ==
    ASSUME IInv, NEW t \in Thread, WakeWaiting(t)
    PROVE  /\ op = "user" /\ boot # "load" /\ sleeper = NULL
           /\ RingInv' /\ ring' \in Ring
           /\ gate' \in [Thread -> -1 .. GateMax]
           /\ x0' \in [Thread -> Result]
           /\ left' \in [Thread -> 0 .. WordMax]
           /\ gate[t] = -1 /\ gate'[t] = 0 /\ left'[t] = 0
           /\ \A u \in Thread \ {t} : gate'[u] = gate[u] /\ left'[u] = left[u]
           /\ BootInv' /\ MapInv' /\ LoopInv'
  <1> USE DEF IInv, WakeWaiting
  <1>1. op = "user" /\ boot # "load"
    BY DEF AtUser
  <1>2. sleeper = NULL
    BY <1>1 DEF LoopInv
  <1>3. /\ gate' \in [Thread -> -1 .. GateMax]
        /\ x0' \in [Thread -> Result]
        /\ left' \in [Thread -> 0 .. WordMax]
        /\ gate[t] = -1 /\ gate'[t] = 0 /\ left'[t] = 0
        /\ \A u \in Thread \ {t} : gate'[u] = gate[u] /\ left'[u] = left[u]
    BY DEF TypeOK, Result
  <1>4. t \in Thread \ Ready /\ Ready' = Ready \union {t}
    <2>1. t \in created /\ t # interrupt_thread
      BY <1>3 DEF RingInv, Worker, TypeOK
    <2> QED
      BY <1>3, <2>1 DEF Ready, Parked, TypeOK, coreVars
  <1>5. RingInv' /\ ring' \in Ring
    <2>1. WaitersAreWorkers'
      BY <1>3, WaitersOfRingInv DEF WaitersAreWorkers, coreVars
    <2> QED
      BY <1>4, <2>1, EnterRing
  <1>6. BootInv' /\ MapInv' /\ LoopInv'
    <2>1. /\ runnable # Idle
          /\ runnable = InterruptThread => interrupt_thread # NULL
          /\ boot \in {"create", "timer", "up"}
      BY <1>1 DEF ActsFor, TypeOK
    <2>2. boot = "up"
      BY <2>1 DEF BootInv
    <2> QED
      BY <1>1, <2>2 DEF BootInv, MapInv, LoopInv, loopVars, mapVars, coreVars
  <1> QED
    BY <1>1, <1>2, <1>3, <1>5, <1>6

(* wake_thread of a thread that waits without a timeout. *)
LEMMA WakeUntimedIInv ==
    ASSUME IInv, NEW t \in Thread, WakeWaiting(t), x16[t] = NULL
    PROVE  IInv'
  <1> USE DEF IInv
  <1>1. /\ op = "user" /\ boot # "load" /\ sleeper = NULL
        /\ RingInv' /\ ring' \in Ring
        /\ gate' \in [Thread -> -1 .. GateMax]
        /\ x0' \in [Thread -> Result]
        /\ left' \in [Thread -> 0 .. WordMax]
        /\ gate[t] = -1 /\ gate'[t] = 0 /\ left'[t] = 0
        /\ \A u \in Thread \ {t} : gate'[u] = gate[u] /\ left'[u] = left[u]
        /\ BootInv' /\ MapInv' /\ LoopInv'
    BY WakeWaitingRing
  <1>2. /\ UNCHANGED <<blocked_with_timeout, x1, pos, op, sleeper, cursor, remaining>>
        /\ x16' = [x16 EXCEPT ![t] = Garbage]
        /\ x17' = [x17 EXCEPT ![t] = Garbage]
        /\ UNCHANGED <<runnable, mapVars, coreVars>>
    BY DEF WakeWaiting, loopVars
  <1>3. TypeOK'
    <2>1. /\ x16' \in [Thread -> Thread \union {NULL, HEAD, Garbage}]
          /\ x17' \in [Thread -> Thread \union {NULL, Garbage}]
      BY <1>2 DEF TypeOK
    <2> QED
      BY <1>1, <1>2, <2>1 DEF TypeOK, mapVars, coreVars
  <1>4. QueueInv'
    <2>1. \A u \in Thread \ {t} : x16'[u] = x16[u] /\ x17'[u] = x17[u]
      BY <1>2 DEF TypeOK
    <2>2. ~Timed(t) /\ ~Timed(t)'
      BY <1>1 DEF Timed
    <2>3. \A u \in Thread : Timed(u)' <=> Timed(u)
      BY <1>1, <1>2, <2>1, <2>2 DEF Timed
    <2>4. QueueHead' = QueueHead /\ (QueueHead # NULL => QueueHead \in Thread)
      BY <1>1, <1>2 DEF QueueHead, TypeOK
    <2>5. \A u \in Thread : Timed(u) => u # t
      BY <2>2
    <2>6. QueueHead # NULL => /\ Timed(QueueHead)' /\ QueueHead # t
      BY <1>1, <1>2, <2>1, <2>4, <2>5 DEF Timed, QueueInv
    <2>7. \A u \in Thread \ {t} : x17[u] \in Thread /\ Timed(x17[u]) => Timed(x17[u])' /\ x17[u] # t
      BY <1>1, <1>2, <2>1, <2>2 DEF Timed
    <2>8. \A u \in Thread \ {t} : x16[u] \in Thread /\ Timed(x16[u]) => Timed(x16[u])' /\ x16[u] # t
      BY <1>1, <1>2, <2>1, <2>2 DEF Timed
    <2> QED
      BY <1>1, <1>2, <2>1, <2>3, <2>4, <2>5, <2>6, <2>7, <2>8 DEF QueueInv
  <1> QED
    BY <1>1, <1>3, <1>4

(* wake_thread of a thread that is somewhere in the timeout queue. *)
LEMMA WakeTimedIInv ==
    ASSUME IInv, NEW t \in Thread, WakeWaiting(t), x16[t] # NULL
    PROVE  IInv'
  <1> USE DEF IInv
  <1>1. /\ op = "user" /\ boot # "load" /\ sleeper = NULL
        /\ RingInv' /\ ring' \in Ring
        /\ gate' \in [Thread -> -1 .. GateMax]
        /\ x0' \in [Thread -> Result]
        /\ left' \in [Thread -> 0 .. WordMax]
        /\ gate[t] = -1 /\ gate'[t] = 0 /\ left'[t] = 0
        /\ \A u \in Thread \ {t} : gate'[u] = gate[u] /\ left'[u] = left[u]
        /\ BootInv' /\ MapInv' /\ LoopInv'
    BY WakeWaitingRing
  <1>2. PICK n, p : n = x17[t] /\ p = x16[t]
    OBVIOUS
  <1>3. Timed(t) /\ QueueHead = blocked_with_timeout
    BY <1>1 DEF Timed, QueueHead
  <1>4. /\ pos \in [Thread -> Nat] /\ left \in [Thread -> 0 .. WordMax]
        /\ x1 \in [Thread -> 0 .. WordMax]
    BY DEF TypeOK
  <1>5. p # NULL /\ (p = HEAD <=> t = QueueHead)
    BY <1>1, <1>2, <1>3 DEF QueueInv
  <1>6. p # HEAD => /\ p \in Thread /\ Timed(p) /\ x17[p] = t /\ p # t
                    /\ pos[t] = pos[p] + 1
                    /\ left[t] = left[p] + x1[t]
    <2>1. p # HEAD => /\ p \in Thread /\ Timed(p) /\ x17[p] = t
                      /\ pos[t] = pos[p] + 1
                      /\ left[t] = left[p] + x1[t]
      BY <1>2, <1>3, <1>5 DEF QueueInv
    <2> QED
      BY <1>4, <2>1
  <1>7. p = HEAD => pos[t] = 1 /\ left[t] = x1[t]
    BY <1>3, <1>5 DEF QueueInv
  <1>8. n # NULL => /\ n \in Thread /\ Timed(n) /\ n # QueueHead /\ x16[n] = t
                    /\ n # t /\ n # p
                    /\ pos[n] = pos[t] + 1
                    /\ left[n] = left[t] + x1[n]
    <2>1. n # NULL => /\ n \in Thread /\ Timed(n) /\ n # QueueHead /\ x16[n] = t
      BY <1>2, <1>3 DEF QueueInv
    <2>2. n # NULL => pos[n] = pos[t] + 1 /\ left[n] = left[t] + x1[n]
      BY <2>1 DEF QueueInv
    <2> QED
      BY <1>4, <1>6, <2>1, <2>2
  <1>9. /\ blocked_with_timeout' = IF p = HEAD THEN n ELSE blocked_with_timeout
        /\ x1' = [u \in Thread |-> IF u = t THEN 0
                                   ELSE IF u = n THEN Plus(x1[u], x1[t]) ELSE x1[u]]
        /\ x16' = [u \in Thread |-> IF u = t THEN Garbage
                                    ELSE IF u = n THEN p ELSE x16[u]]
        /\ x17' = [u \in Thread |-> IF u = t THEN Garbage
                                    ELSE IF u = p THEN n ELSE x17[u]]
        /\ pos' = [u \in Thread |-> IF u = t THEN 0
                                    ELSE IF pos[u] > pos[t] THEN pos[u] - 1 ELSE pos[u]]
        /\ UNCHANGED <<runnable, op, sleeper, cursor, remaining, mapVars, coreVars>>
    BY <1>2 DEF WakeWaiting, loopVars
  <1>10. \A u \in Thread : x1'[u] = IF u = t THEN 0
                                  ELSE IF u = n THEN x1[u] + x1[t] ELSE x1[u]
    <2>1. x1[t] <= left[t]
      BY <1>4, <1>6, <1>7
    <2>2. n # NULL => x1[n] + x1[t] <= left[n]
      BY <1>4, <1>8, <2>1
    <2>3. n # NULL => x1[n] + x1[t] <= WordMax
      BY <1>4, <1>8, <2>2
    <2>4. n # NULL => Plus(x1[n], x1[t]) = x1[n] + x1[t]
      BY <1>4, <1>8, <2>3 DEF Plus
    <2> QED
      BY <1>9, <2>4
  <1>11. TypeOK'
    <2>1. x1' \in [Thread -> 0 .. WordMax]
      <3>1. n # NULL => x1[n] + x1[t] \in 0 .. WordMax
        BY <1>4, <1>6, <1>7, <1>8
      <3>2. \A u \in Thread : x1'[u] \in 0 .. WordMax
        BY <1>4, <1>10, <3>1
      <3> QED
        BY <1>9, <3>2
    <2>2. pos' \in [Thread -> Nat]
      BY <1>4, <1>9
    <2>3. n \in Thread \union {NULL, Garbage} /\ p \in Thread \union {NULL, HEAD, Garbage}
      BY <1>2 DEF TypeOK
    <2>4. x16' \in [Thread -> Thread \union {NULL, HEAD, Garbage}]
      BY <1>9, <2>3 DEF TypeOK
    <2>5. x17' \in [Thread -> Thread \union {NULL, Garbage}]
      BY <1>9, <2>3 DEF TypeOK
    <2>6. blocked_with_timeout' \in Thread \union {NULL}
      BY <1>8, <1>9 DEF TypeOK
    <2> QED
      BY <1>1, <1>9, <2>1, <2>2, <2>4, <2>5, <2>6 DEF TypeOK, mapVars, coreVars
  <1>12. QueueInv'
    <2>1. \A u \in Thread : Timed(u)' <=> Timed(u) /\ u # t
      BY <1>1, <1>5, <1>8, <1>9 DEF Timed
    <2>2. QueueHead' = IF p = HEAD THEN n ELSE QueueHead
      BY <1>1, <1>3, <1>9 DEF QueueHead
    <2>3. QueueHead # NULL => /\ QueueHead \in Thread /\ Timed(QueueHead)
                             /\ pos[QueueHead] = 1 /\ x16[QueueHead] = HEAD
                             /\ left[QueueHead] = x1[QueueHead]
      BY <1>1, <1>3 DEF QueueInv, TypeOK
    <2>4. QueueHead # NULL
      BY <1>3 DEF QueueInv
    <2>5. \A u \in Thread : Timed(u) /\ u # t =>
             /\ pos[u] \in Nat /\ pos[t] \in Nat /\ pos[u] >= 1 /\ pos[u] # pos[t]
             /\ pos'[u] = IF pos[u] > pos[t] THEN pos[u] - 1 ELSE pos[u]
      BY <1>3, <1>4, <1>9 DEF QueueInv
    <2>6. IF QueueHead' = NULL
            THEN \A u \in Thread : ~Timed(u)'
            ELSE /\ Timed(QueueHead)'
                 /\ (pos[QueueHead] = 1)'
                 /\ (left[QueueHead] = x1[QueueHead])'
                 /\ (x16[QueueHead] = HEAD)'
      <3>1. CASE p = HEAD /\ n = NULL
        <4>1. \A u \in Thread : Timed(u) => u = t
          <5>1. \A u \in Thread : Timed(u) => pos[u] <= pos[t]
            <6>1. x17[t] = NULL
              BY <1>2, <3>1
            <6> QED
              BY <1>3, <6>1 DEF QueueInv
          <5> QED
            BY <1>7, <2>5, <3>1, <5>1
        <4> QED
          BY <2>1, <2>2, <3>1, <4>1
      <3>2. CASE p = HEAD /\ n # NULL
        <4>1. QueueHead' = n /\ n \in Thread /\ n # t
          BY <1>8, <2>2, <3>2
        <4>2. pos'[n] = 1
          BY <1>4, <1>7, <1>8, <1>9, <3>2
        <4>3. left'[n] = x1'[n]
          BY <1>1, <1>4, <1>7, <1>8, <1>10, <3>2
        <4>4. gate'[n] = -1 /\ x16'[n] = HEAD /\ sleeper' = NULL
          BY <1>1, <1>8, <1>9, <3>2 DEF Timed
        <4> QED
          BY <4>1, <4>2, <4>3, <4>4 DEF Timed
      <3>3. CASE p # HEAD
        <4>1. QueueHead' = QueueHead /\ QueueHead # t /\ QueueHead # n /\ QueueHead \in Thread
          BY <1>5, <1>8, <2>2, <2>3, <2>4, <3>3
        <4>2. pos'[QueueHead] = 1
          BY <2>3, <2>4, <2>5, <4>1, <1>3 DEF QueueInv
        <4>3. gate'[QueueHead'] = -1 /\ x16'[QueueHead'] = HEAD /\ sleeper' = NULL
          BY <1>1, <1>9, <2>3, <2>4, <4>1 DEF Timed
        <4> QED
          BY <1>1, <1>10, <2>3, <2>4, <4>1, <4>2, <4>3 DEF Timed
      <3> QED
        BY <3>1, <3>2, <3>3
    <2>7. \A u \in Thread : Timed(u)' => left'[u] >= 1
      BY <1>1, <2>1 DEF QueueInv
    <2>8. \A u \in Thread : Timed(u)' /\ u # QueueHead' =>
             /\ x16'[u] \in Thread
             /\ Timed(x16[u])'
             /\ x17'[x16'[u]] = u
             /\ pos'[u] = pos'[x16'[u]] + 1
             /\ left'[u] = left'[x16'[u]] + x1'[u]
      <3> SUFFICES ASSUME NEW u \in Thread, Timed(u)', u # QueueHead',
                          NEW q, q = x16'[u]
                   PROVE  /\ q \in Thread /\ q # t /\ Timed(q)
                          /\ x17'[q] = u
                          /\ pos'[u] = pos'[q] + 1
                          /\ left[u] = left[q] + x1'[u]
        <4>1. \A v \in Thread : Timed(v) /\ v # t => gate'[v] = -1 /\ x16'[v] # NULL
          BY <2>1 DEF Timed
        <4> QED
          BY <1>1, <1>9, <2>1, <4>1 DEF Timed
      <3>0. Timed(u) /\ u # t
        BY <2>1
      <3>1. CASE u = n
        <4>1. p # HEAD /\ q = p /\ n # NULL
          BY <1>9, <2>2, <3>0, <3>1
        <4>2. pos'[p] = pos[p] /\ pos'[n] = pos[t]
          BY <1>4, <1>6, <1>8, <1>9, <4>1
        <4>3. left[n] = left[p] + x1'[n]
          BY <1>4, <1>6, <1>8, <1>10, <4>1
        <4> QED
          BY <1>6, <1>9, <3>1, <4>1, <4>2, <4>3
      <3>2. CASE u # n
        <4>1. q = x16[u] /\ u # QueueHead
          BY <1>5, <1>9, <2>2, <3>0, <3>2
        <4>2. /\ q \in Thread /\ Timed(q) /\ x17[q] = u
              /\ pos[u] = pos[q] + 1
              /\ left[u] = left[q] + x1[u]
          BY <3>0, <4>1 DEF QueueInv
        <4>3. q # t /\ q # p
          BY <1>2, <1>6, <3>0, <3>2, <4>2
        <4>4. pos'[u] = pos'[q] + 1
          BY <2>5, <3>0, <4>2, <4>3
        <4> QED
          BY <1>9, <1>10, <3>0, <3>2, <4>2, <4>3, <4>4
      <3> QED
        BY <3>1, <3>2
    <2>9. \A u \in Thread : Timed(u)' /\ x17'[u] # NULL =>
             /\ x17'[u] \in Thread
             /\ Timed(x17[u])'
             /\ x17'[u] # QueueHead'
             /\ x16'[x17'[u]] = u
      <3> SUFFICES ASSUME NEW u \in Thread, Timed(u)',
                          NEW m, m = x17'[u], m # NULL
                   PROVE  /\ m \in Thread /\ m # t /\ Timed(m)
                          /\ m # QueueHead'
                          /\ x16'[m] = u
        <4>1. \A v \in Thread : Timed(v) /\ v # t => gate'[v] = -1 /\ x16'[v] # NULL
          BY <2>1 DEF Timed
        <4> QED
          BY <1>1, <1>9, <2>1, <4>1 DEF Timed
      <3>0. Timed(u) /\ u # t
        BY <2>1
      <3>1. CASE u = p
        <4>1. m = n /\ p # HEAD
          BY <1>9, <3>0, <3>1
        <4> QED
          BY <1>8, <1>9, <2>2, <3>1, <4>1
      <3>2. CASE u # p
        <4>1. m = x17[u]
          BY <1>9, <3>0, <3>2
        <4>2. m \in Thread /\ Timed(m) /\ m # QueueHead /\ x16[m] = u
          BY <3>0, <4>1 DEF QueueInv
        <4>3. m # t /\ m # n
          BY <1>2, <1>8, <3>0, <3>2, <4>2
        <4> QED
          BY <1>9, <2>2, <4>2, <4>3
      <3> QED
        BY <3>1, <3>2
    <2>10. \A u, v \in Thread : Timed(u)' /\ Timed(v)' =>
             /\ x17'[u] = NULL => pos'[v] <= pos'[u]
             /\ pos'[u] = pos'[v] => u = v
             /\ pos'[u] <= pos'[v] => left'[u] <= left'[v]
      <3> SUFFICES ASSUME NEW u \in Thread, NEW v \in Thread, Timed(u)', Timed(v)'
                   PROVE  /\ x17'[u] = NULL => pos'[v] <= pos'[u]
                          /\ pos'[u] = pos'[v] => u = v
                          /\ pos'[u] <= pos'[v] => left[u] <= left[v]
        BY <1>1, <2>1
      <3>0. Timed(u) /\ u # t /\ Timed(v) /\ v # t
        BY <2>1
      <3>1. /\ pos[u] \in Nat /\ pos[v] \in Nat /\ pos[t] \in Nat
            /\ pos[u] # pos[t] /\ pos[v] # pos[t]
            /\ pos'[u] = IF pos[u] > pos[t] THEN pos[u] - 1 ELSE pos[u]
            /\ pos'[v] = IF pos[v] > pos[t] THEN pos[v] - 1 ELSE pos[v]
        BY <2>5, <3>0
      <3>2. pos'[u] <= pos'[v] <=> pos[u] <= pos[v]
        BY <3>1
      <3>3. pos'[v] <= pos'[u] <=> pos[v] <= pos[u]
        BY <3>1
      <3>4. pos'[u] = pos'[v] <=> pos[u] = pos[v]
        BY <3>1
      <3>5. x17'[u] = NULL => pos[v] <= pos[u]
        <4>1. CASE u = p
          <5>1. x17'[u] = NULL => n = NULL
            BY <1>9, <3>0, <4>1
          <5>2. n = NULL => pos[v] <= pos[t]
            BY <1>2, <1>3, <3>0 DEF QueueInv
          <5>3. pos[t] = pos[u] + 1
            BY <1>6, <4>1
          <5> QED
            BY <3>1, <5>1, <5>2, <5>3
        <4>2. CASE u # p
          BY <1>9, <3>0, <4>2 DEF QueueInv
        <4> QED
          BY <4>1, <4>2
      <3> QED
        BY <3>0, <3>2, <3>3, <3>4, <3>5 DEF QueueInv
    <2>11. \A u \in Thread : IF Timed(u)' THEN pos'[u] >= 1 ELSE pos'[u] = 0
      <3>1. pos[t] >= 1
        BY <1>3 DEF QueueInv
      <3>2. \A u \in Thread : ~Timed(u) => pos[u] = 0
        BY DEF QueueInv
      <3>3. \A u \in Thread : Timed(u) /\ u # t => pos'[u] >= 1
        BY <2>5, <3>1
      <3>4. \A u \in Thread : ~Timed(u) \/ u = t => pos'[u] = 0
        BY <1>4, <1>9, <3>1, <3>2
      <3> QED
        BY <2>1, <3>3, <3>4
    <2>12. \A u \in Thread : ~Timed(u)' => left'[u] = 0
      BY <1>1, <2>1 DEF QueueInv
    <2> QED
      BY <1>1, <1>9, <2>6, <2>7, <2>8, <2>9, <2>10, <2>11, <2>12 DEF QueueInv
  <1> QED
    BY <1>1, <1>11, <1>12

(* WakeWaiting preserves the inductive invariant. *)
LEMMA WakeWaitingIInv ==
    ASSUME IInv, NEW t \in Thread, WakeWaiting(t)
    PROVE  IInv'
  BY WakeUntimedIInv, WakeTimedIInv

(* The timer tick of the interrupt thread. *)
LEMMA TimerTickIInv ==
    ASSUME IInv, TimerTick
    PROVE  IInv'
  <1> USE DEF IInv
  <1>1. /\ op = "user" /\ boot = "up" /\ sleeper = NULL
        /\ runnable = InterruptThread /\ interrupt_thread = InterruptThread
    <2>1. op = "user" /\ boot # "load" /\ runnable = interrupt_thread
      BY DEF TimerTick, AtUser
    <2>2. runnable = InterruptThread /\ interrupt_thread = InterruptThread
      BY <2>1 DEF TypeOK
    <2> QED
      BY <2>1, <2>2 DEF BootInv, LoopInv, TypeOK
  <1>2. /\ ticked' = TRUE
        /\ UNCHANGED <<ring, runnable, gate, x0, blocked_with_timeout, x16, x17,
                       pos, sleeper, remaining, mapVars, interrupt_thread,
                       created, boot>>
    BY DEF TimerTick
  <1>3. RingInv' /\ MapInv' /\ (op' \in {"user", "expire"} => BootInv')
    <2>1. Ready' = Ready
      BY <1>2 DEF Ready, Parked
    <2>2. op' # "insert"
      BY <1>1 DEF TimerTick
    <2> QED
      BY <1>1, <1>2, <2>1, <2>2 DEF RingInv, MapInv, BootInv, mapVars
  <1>4. CASE bsod' = TRUE /\ UNCHANGED <<x1, left, op, cursor>>
    <2>1. UNCHANGED <<queueVars, loopVars>>
      BY <1>2, <1>4 DEF queueVars, loopVars
    <2>2. LoopInv' /\ QueueInv'
      BY <1>1, <1>2, <2>1, LoopFrame, QueueFrame DEF TypeOK
    <2>3. TypeOK'
      BY <1>2, <1>4 DEF TypeOK, mapVars
    <2> QED
      BY <1>1, <1>3, <1>4, <2>2, <2>3
  <1>5. CASE /\ blocked_with_timeout # NULL
             /\ x1' = [x1 EXCEPT ![blocked_with_timeout] = Minus(@, 1)]
             /\ left' = [t \in Thread |-> IF Timed(t) THEN left[t] - 1 ELSE left[t]]
             /\ IF Minus(x1[blocked_with_timeout], 1) = 0
                  THEN op' = "expire" /\ cursor' = blocked_with_timeout
                  ELSE UNCHANGED <<op, cursor>>
             /\ UNCHANGED bsod
    <2>1. PICK h \in Thread : h = blocked_with_timeout
      BY <1>5 DEF TypeOK
    <2>2. QueueHead = h
      BY <1>1, <2>1 DEF QueueHead
    <2>3. /\ Timed(h) /\ pos[h] = 1 /\ left[h] = x1[h] /\ x16[h] = HEAD
          /\ left[h] >= 1
      BY <1>1, <2>2 DEF QueueInv
    <2>4. /\ x1 \in [Thread -> 0 .. WordMax] /\ left \in [Thread -> 0 .. WordMax]
          /\ pos \in [Thread -> Nat]
      BY DEF TypeOK
    <2>5. Minus(x1[h], 1) = x1[h] - 1
      BY <2>3, <2>4 DEF Minus
    <2>6. /\ x1'[h] = x1[h] - 1
          /\ \A t \in Thread \ {h} : x1'[t] = x1[t]
          /\ \A t \in Thread : left'[t] = IF Timed(t) THEN left[t] - 1 ELSE left[t]
          /\ \/ x1'[h] = 0 /\ op' = "expire" /\ cursor' = h
             \/ x1'[h] >= 1 /\ UNCHANGED <<op, cursor>>
      BY <1>5, <2>1, <2>3, <2>4, <2>5
    <2>7. \A t \in Thread : Timed(t) => left[t] >= left[h]
      BY <2>3, <2>4 DEF QueueInv
    <2>8. TypeOK'
      <3>1. x1' \in [Thread -> 0 .. WordMax]
        BY <1>5, <2>1, <2>3, <2>4, <2>5
      <3>2. left' \in [Thread -> 0 .. WordMax]
        BY <1>5, <2>3, <2>4, <2>7
      <3> QED
        BY <1>1, <1>2, <1>5, <2>1, <2>6, <3>1, <3>2 DEF TypeOK, mapVars
    <2>9. LoopInv'
      BY <1>1, <1>2, <2>6 DEF LoopInv
    <2>10. QueueInv'
      <3>1. \A t \in Thread : Timed(t)' <=> Timed(t)
        BY <1>2 DEF Timed
      <3>2. QueueHead' = h
        BY <1>1, <1>2, <2>1, <2>6 DEF QueueHead
      <3>3. Timed(QueueHead)'
        BY <1>2, <2>3, <3>2 DEF Timed
      <3>4. \A t \in Thread : x17[t] \in Thread => (Timed(x17[t])' <=> Timed(x17[t]))
        BY <1>2 DEF Timed
      <3>5. \A t \in Thread : x16[t] \in Thread => (Timed(x16[t])' <=> Timed(x16[t]))
        BY <1>2 DEF Timed
      <3>6. op' # "expire" => \A t \in Thread : Timed(t) => left'[t] >= 1
        BY <2>3, <2>4, <2>6, <2>7
      <3>7. \A t \in Thread : Timed(t) /\ t # h =>
              /\ x16[t] \in Thread
              /\ Timed(x16[t])
              /\ x17[x16[t]] = t
              /\ pos[t] = pos[x16[t]] + 1
              /\ left'[t] = left'[x16[t]] + x1'[t]
        BY <2>2, <2>4, <2>6 DEF QueueInv
      <3>8. \A t, u \in Thread : Timed(t) /\ Timed(u) =>
              /\ x17[t] = NULL => pos[u] <= pos[t]
              /\ pos[t] = pos[u] => t = u
              /\ pos[t] <= pos[u] => left'[t] <= left'[u]
        BY <2>4, <2>6 DEF QueueInv
      <3>9. /\ left'[h] = x1'[h]
            /\ op' = "expire" => x1'[h] = 0
        BY <2>3, <2>6, <1>1
      <3>10. \A t \in Thread : ~Timed(t) => left'[t] = 0
        BY <1>1, <2>6 DEF QueueInv
      <3>11. \A t \in Thread : Timed(t) /\ x17[t] # NULL =>
               /\ x17[t] \in Thread /\ Timed(x17[t])
               /\ x17[t] # h /\ x16[x17[t]] = t
        BY <2>2 DEF QueueInv
      <3>12. \A t \in Thread : IF Timed(t) THEN pos[t] >= 1 ELSE pos[t] = 0
        BY DEF QueueInv
      <3> QED
        BY <1>2, <2>3, <3>1, <3>2, <3>3, <3>4, <3>5, <3>6, <3>7, <3>8, <3>9,
           <3>10, <3>11, <3>12 DEF QueueInv
    <2> QED
      BY <1>1, <1>3, <2>6, <2>8, <2>9, <2>10
  <1> QED
    BY <1>4, <1>5 DEF TimerTick

(* One round of the loop that releases who has timed out. *)
LEMMA ExpireHeadIInv ==
    ASSUME IInv, ExpireHead
    PROVE  IInv'
  <1> USE DEF IInv
  <1>1. /\ op = "expire" /\ boot = "up" /\ sleeper = NULL
        /\ runnable = InterruptThread /\ interrupt_thread = InterruptThread
        /\ cursor \in Thread
    BY DEF ExpireHead, BootInv, LoopInv
  <1>20. PICK h \in Thread : h = cursor
    BY <1>1
  <1>2. PICK n : h = cursor /\ n = x17[cursor]
    BY <1>20
  <1>3. /\ QueueHead = h /\ Timed(h) /\ pos[h] = 1 /\ left[h] = 0 /\ x1[h] = 0
        /\ gate[h] = -1
    BY <1>1, <1>2 DEF QueueHead, QueueInv, Timed
  <1>4. /\ x1 \in [Thread -> 0 .. WordMax] /\ left \in [Thread -> 0 .. WordMax]
        /\ pos \in [Thread -> Nat]
    BY DEF TypeOK
  <1>5. n # NULL => /\ n \in Thread /\ Timed(n) /\ n # h /\ x16[n] = h
                    /\ pos[n] = 2 /\ left[n] = x1[n]
    <2>1. n # NULL => n \in Thread /\ Timed(n) /\ n # h /\ x16[n] = h
      BY <1>2, <1>3 DEF QueueInv
    <2>2. n # NULL => pos[n] = pos[h] + 1 /\ left[n] = left[h] + x1[n]
      BY <1>3, <2>1 DEF QueueInv
    <2> QED
      BY <1>3, <1>4, <2>1, <2>2
  <1>6. /\ ring' = InsertAfter(ring, h, runnable)
        /\ UNCHANGED <<runnable, x1, left, sleeper, remaining, mapVars, coreVars>>
        /\ x0' = [x0 EXCEPT ![h] = -1]
        /\ gate' \in [Thread -> -1 .. GateMax]
        /\ gate'[h] = 0 /\ (\A u \in Thread \ {h} : gate'[u] = gate[u])
        /\ pos' = [u \in Thread |-> IF pos[u] > 0 THEN pos[u] - 1 ELSE 0]
        /\ x17' = [x17 EXCEPT ![h] = Garbage]
    BY <1>2 DEF ExpireHead, TypeOK
  <1>7. /\ x16'[h] = Garbage
        /\ x16' \in [Thread -> Thread \union {NULL, HEAD, Garbage}]
        /\ \A u \in Thread \ {h, n} : x16'[u] = x16[u]
        /\ n # NULL => x16'[n] # NULL
        /\ \/ /\ n # NULL /\ x1[n] = 0 /\ cursor' = n
              /\ UNCHANGED <<op, blocked_with_timeout>>
           \/ /\ n # NULL => x1[n] # 0
              /\ op' = "user" /\ cursor' = NULL /\ blocked_with_timeout' = n
              /\ n # NULL => x16'[n] = HEAD
    <2>1. CASE n # NULL /\ x1[n] = 0
      BY <1>2, <1>5, <2>1 DEF ExpireHead, TypeOK
    <2>2. CASE ~(n # NULL /\ x1[n] = 0)
      BY <1>2, <1>5, <2>2 DEF ExpireHead, TypeOK
    <2> QED
      BY <2>1, <2>2
  <1>8. RingInv' /\ ring' \in Ring
    <2>1. h \in created \intersect Worker
      BY <1>3 DEF RingInv
    <2>2. h \in Thread \ Ready /\ Ready' = Ready \union {h}
      BY <1>1, <1>3, <1>6, <2>1 DEF Ready, Parked, Worker, coreVars, TypeOK
    <2>3. WaitersAreWorkers'
      BY <1>6, WaitersOfRingInv DEF WaitersAreWorkers, coreVars
    <2> QED
      BY <1>6, <2>2, <2>3, EnterRing
  <1>9. TypeOK'
    <2>1. pos' \in [Thread -> Nat]
      BY <1>4, <1>6
    <2>2. x0' \in [Thread -> Result]
      BY <1>6 DEF TypeOK, Result
    <2>3. x17' \in [Thread -> Thread \union {NULL, Garbage}]
      BY <1>6 DEF TypeOK
    <2> QED
      BY <1>1, <1>5, <1>6, <1>7, <1>8, <2>1, <2>2, <2>3 DEF TypeOK, mapVars, coreVars
  <1>10. BootInv' /\ MapInv' /\ LoopInv'
    <2>1. op' \in {"user", "expire"} /\ (op' = "expire" => cursor' \in Thread)
      BY <1>1, <1>5, <1>7
    <2> QED
      BY <1>1, <1>6, <2>1 DEF BootInv, MapInv, LoopInv, mapVars, coreVars
  <1>11. QueueInv'
    <2>1. \A u \in Thread : Timed(u)' <=> Timed(u) /\ u # h
      BY <1>1, <1>5, <1>6, <1>7 DEF Timed
    <2>2. QueueHead' = n
      BY <1>1, <1>7 DEF QueueHead
    <2>3. \A u \in Thread : Timed(u) => pos[u] >= 1 /\ pos'[u] = pos[u] - 1
      BY <1>4, <1>6 DEF QueueInv
    <2>4. \A u \in Thread : Timed(u) /\ u # h => pos[u] >= 2
      <3>1. \A u \in Thread : Timed(u) /\ u # h => pos[u] # pos[h]
        BY <1>3 DEF QueueInv
      <3> QED
        BY <1>3, <1>4, <2>3, <3>1
    <2>5. n = NULL => \A u \in Thread : ~Timed(u)'
      <3>1. n = NULL => \A u \in Thread : Timed(u) => pos[u] <= pos[h]
        BY <1>2, <1>3 DEF QueueInv
      <3> QED
        BY <1>3, <1>4, <2>1, <2>4, <3>1
    <2>6. n # NULL => /\ Timed(QueueHead)'
                      /\ (pos[QueueHead] = 1)'
                      /\ (left[QueueHead] = x1[QueueHead])'
                      /\ (op = "expire" => x1[QueueHead] = 0)'
                      /\ (op # "expire" => x16[QueueHead] = HEAD)'
      <3> SUFFICES ASSUME n # NULL
                   PROVE  /\ gate'[n] = -1 /\ x16'[n] # NULL /\ n # sleeper'
                          /\ pos'[n] = 1
                          /\ left'[n] = x1'[n]
                          /\ op' = "expire" => x1'[n] = 0
                          /\ op' # "expire" => x16'[n] = HEAD
        BY <2>2 DEF Timed
      <3> QED
        BY <1>1, <1>5, <1>6, <1>7, <2>3 DEF Timed
    <2>7. op' # "expire" => \A u \in Thread : Timed(u)' => left'[u] >= 1
      <3> SUFFICES ASSUME op' # "expire", NEW u \in Thread, Timed(u), u # h
                   PROVE  left[u] >= 1
        BY <1>6, <2>1
      <3>1. n # NULL /\ x1[n] # 0
        BY <1>1, <1>7, <2>1, <2>5
      <3>2. left[n] >= 1 /\ pos[n] <= pos[u]
        BY <1>4, <1>5, <2>4, <3>1
      <3>3. left[n] <= left[u]
        BY <1>5, <3>1, <3>2 DEF QueueInv
      <3> QED
        BY <1>4, <1>5, <3>1, <3>2, <3>3
    <2>8. \A u \in Thread : Timed(u)' /\ u # QueueHead' =>
             /\ x16'[u] \in Thread
             /\ Timed(x16[u])'
             /\ x17'[x16'[u]] = u
             /\ pos'[u] = pos'[x16'[u]] + 1
             /\ left'[u] = left'[x16'[u]] + x1'[u]
      <3> SUFFICES ASSUME NEW u \in Thread, Timed(u)', u # QueueHead',
                          NEW q, q = x16'[u]
                   PROVE  /\ q \in Thread /\ q # h /\ Timed(q)
                          /\ x17'[q] = u
                          /\ pos'[u] = pos'[q] + 1
                          /\ left[u] = left[q] + x1[u]
        <4>1. \A v \in Thread : Timed(v) /\ v # h => gate'[v] = -1 /\ x16'[v] # NULL
          BY <2>1 DEF Timed
        <4> QED
          BY <1>1, <1>6, <2>1, <4>1 DEF Timed
      <3>1. Timed(u) /\ u # h /\ u # n /\ q = x16[u]
        BY <1>7, <2>1, <2>2
      <3>2. /\ q \in Thread /\ Timed(q) /\ x17[q] = u
            /\ pos[u] = pos[q] + 1
            /\ left[u] = left[q] + x1[u]
        BY <1>3, <3>1 DEF QueueInv
      <3>3. q # h
        BY <1>2, <3>1, <3>2
      <3>4. x17'[q] = u
        BY <1>6, <3>2, <3>3 DEF TypeOK
      <3>5. pos'[u] = pos'[q] + 1
        BY <1>4, <2>3, <3>1, <3>2
      <3> QED
        BY <3>2, <3>3, <3>4, <3>5
    <2>9. \A u \in Thread : Timed(u)' /\ x17'[u] # NULL =>
             /\ x17'[u] \in Thread
             /\ Timed(x17[u])'
             /\ x17'[u] # QueueHead'
             /\ x16'[x17'[u]] = u
      <3> SUFFICES ASSUME NEW u \in Thread, Timed(u)',
                          NEW m, m = x17'[u], m # NULL
                   PROVE  /\ m \in Thread /\ m # h /\ Timed(m)
                          /\ m # QueueHead'
                          /\ x16'[m] = u
        <4>1. \A v \in Thread : Timed(v) /\ v # h => gate'[v] = -1 /\ x16'[v] # NULL
          BY <2>1 DEF Timed
        <4> QED
          BY <1>1, <1>6, <2>1, <4>1 DEF Timed
      <3>1. Timed(u) /\ u # h /\ m = x17[u]
        BY <1>6, <2>1 DEF TypeOK
      <3>2. m \in Thread /\ Timed(m) /\ m # h /\ x16[m] = u
        BY <1>3, <3>1 DEF QueueInv
      <3>3. m # n
        BY <1>5, <3>1, <3>2
      <3> QED
        BY <1>7, <2>2, <3>2, <3>3
    <2>10. \A u, v \in Thread : Timed(u)' /\ Timed(v)' =>
             /\ x17'[u] = NULL => pos'[v] <= pos'[u]
             /\ pos'[u] = pos'[v] => u = v
             /\ pos'[u] <= pos'[v] => left'[u] <= left'[v]
      <3> SUFFICES ASSUME NEW u \in Thread, NEW v \in Thread,
                          Timed(u), u # h, Timed(v), v # h
                   PROVE  /\ x17'[u] = NULL => pos'[v] <= pos'[u]
                          /\ pos'[u] = pos'[v] => u = v
                          /\ pos'[u] <= pos'[v] => left[u] <= left[v]
        BY <1>6, <2>1
      <3>1. /\ pos[u] \in Nat /\ pos[v] \in Nat
            /\ pos'[u] = pos[u] - 1 /\ pos'[v] = pos[v] - 1
            /\ x17'[u] = x17[u]
        BY <1>4, <1>6, <2>3 DEF TypeOK
      <3>2. /\ x17[u] = NULL => pos[v] <= pos[u]
            /\ pos[u] = pos[v] => u = v
            /\ pos[u] <= pos[v] => left[u] <= left[v]
        BY DEF QueueInv
      <3> QED
        BY <3>1, <3>2
    <2>11. \A u \in Thread : IF Timed(u)' THEN pos'[u] >= 1 ELSE pos'[u] = 0
      <3>1. \A u \in Thread : ~Timed(u) => pos'[u] = 0
        BY <1>4, <1>6 DEF QueueInv
      <3>2. pos'[h] = 0
        BY <1>3, <1>4, <1>6
      <3>3. \A u \in Thread : Timed(u) /\ u # h => pos'[u] >= 1
        BY <1>4, <2>3, <2>4
      <3> QED
        BY <2>1, <3>1, <3>2, <3>3
    <2>12. \A u \in Thread : ~Timed(u)' => left'[u] = 0
      BY <1>1, <1>3, <1>6, <2>1 DEF QueueInv
    <2> QED
      BY <1>6, <2>2, <2>5, <2>6, <2>7, <2>8, <2>9, <2>10, <2>11, <2>12 DEF QueueInv
  <1> QED
    BY <1>8, <1>9, <1>10, <1>11

(* So does a step in which nothing changes. *)
LEMMA StutterIInv ==
    ASSUME IInv, UNCHANGED vars
    PROVE  IInv'
  <1> USE DEF IInv
  <1>1. UNCHANGED <<ring, runnable, gate, x0, blocked_with_timeout, x1, x16, x17,
                    left, pos, op, sleeper, cursor, remaining, loaded_map,
                    current_map, interrupt_thread, ticked, created, boot, bsod>>
    BY DEF vars, queueVars, loopVars, mapVars, coreVars
  <1>2. TypeOK' /\ BootInv' /\ MapInv'
    BY <1>1 DEF TypeOK, BootInv, MapInv
  <1>3. RingInv'
    <2>1. Ready' = Ready
      BY <1>1 DEF Ready, Parked
    <2> QED
      BY <1>1, <2>1 DEF RingInv
  <1>4. LoopInv'
    BY <1>1 DEF LoopInv, Timed
  <1>5. QueueInv'
    BY <1>1, QueueFrame DEF TypeOK, vars
  <1> QED
    BY <1>2, <1>3, <1>4, <1>5

(* Every step of the kernel preserves the inductive invariant. *)
LEMMA NextIInv == IInv /\ [Next]_vars => IInv'
  <1> SUFFICES ASSUME IInv, [Next]_vars PROVE IInv'
    OBVIOUS
  <1>1. ASSUME NEW t \in Thread, NEW map \in Map, LoadDriver(t, map)
        PROVE  IInv'
    BY <1>1, LoadDriverIInv
  <1>2. CASE EnterThread
    BY <1>2, EnterThreadIInv
  <1>3. CASE CreateInterruptThread
    <2>1. AtUser /\ CreateThread(InterruptThread, SystemMap)
      BY <1>3 DEF CreateInterruptThread
    <2> QED
      BY <1>3, <2>1, CreateThreadIInv
  <1>4. CASE StartTimer
    BY <1>4, StartTimerIInv
  <1>5. ASSUME NEW t \in Thread, NEW map \in Map, CreateWorker(t, map)
        PROVE  IInv'
    <2>1. /\ AtUser /\ CreateThread(t, map)
          /\ t \in Worker /\ runnable \in Worker /\ UNCHANGED boot
      BY <1>5 DEF CreateWorker
    <2> QED
      BY <2>1, CreateThreadIInv
  <1>6. CASE Yield
    BY <1>6, YieldIInv
  <1>7. ASSUME NEW map \in Map, GoTo(map)
        PROVE  IInv'
    BY <1>7, GoToIInv
  <1>8. CASE WaitOpen
    BY <1>8, WaitOpenIInv
  <1>9. CASE WaitForever
    BY <1>9, WaitForeverIInv
  <1>10. ASSUME NEW timeout \in Timeout, WaitTimed(timeout)
         PROVE  IInv'
    BY <1>10, WaitTimedIInv
  <1>11. CASE InsertWalk
    BY <1>11, InsertWalkIInv
  <1>12. CASE InsertHere
    BY <1>12, InsertHereIInv
  <1>13. ASSUME NEW t \in Thread, WakeWaiting(t) \/ WakeOther(t) \/ WakeForeign(t)
         PROVE  IInv'
    BY <1>13, WakeWaitingIInv, WakeOtherIInv, WakeForeignIInv
  <1>14. CASE IRQ
    BY <1>14, IRQIInv
  <1>15. CASE SetInterruptThread
    BY <1>15, SetInterruptThreadIInv
  <1>16. CASE TimerTick
    BY <1>16, TimerTickIInv
  <1>17. CASE ExpireHead
    BY <1>17, ExpireHeadIInv
  <1>18. CASE Halted \/ UNCHANGED vars
    BY <1>18, StutterIInv DEF Halted
  <1> QED
    BY <1>1, <1>2, <1>3, <1>4, <1>5, <1>6, <1>7, <1>8, <1>9, <1>10, <1>11, <1>12,
       <1>13, <1>14, <1>15, <1>16, <1>17, <1>18 DEF Next

-----------------------------------------------------------------------------
(* The inductive invariant holds in every state of the kernel, for any     *)
(* number of threads, maps and timeouts.                                   *)
THEOREM KernelInvariant == Spec => []IInv
  BY InitIInv, NextIInv, PTL DEF Spec

(* Every variable of the core keeps the type its C declaration gives it. *)
THEOREM KernelTypeOK == Spec => []TypeOK
  <1>1. IInv => TypeOK
    BY DEF IInv
  <1> QED
    BY <1>1, KernelInvariant, PTL

(* No wait, wake, timeout, interrupt or thread creation ever loses a       *)
(* runnable thread from the core's ring or leaves a blocked one in it.     *)
THEOREM KernelNoThreadLost == Spec => []NoThreadLost
  <1>1. IInv => NoThreadLost
    BY DEF IInv, RingInv, NoThreadLost
  <1> QED
    BY <1>1, KernelInvariant, PTL

(* The thread at EL0 always runs with its own map loaded, although the     *)
(* kernel changes the map only when two threads of a switch differ in it.  *)
THEOREM KernelRightMapLoaded == Spec => []RightMapLoaded
  <1>1. IInv => RightMapLoaded
    BY DEF IInv, MapInv, RightMapLoaded
  <1> QED
    BY <1>1, KernelInvariant, PTL

(* The linked list in the registers of the sleeping threads is the timeout *)
(* queue: every sleeper is in it once, and wakes when its ticks have gone. *)
THEOREM KernelQueueOK == Spec => []QueueOK
  <1>1. IInv => QueueOK
    <2> SUFFICES ASSUME IInv PROVE QueueOK
      OBVIOUS
    <2> USE DEF IInv
    <2>1. \A t \in Thread : Timed(t) /\ x17[t] # NULL =>
             /\ x17[t] \in Thread /\ Timed(x17[t]) /\ x17[t] # QueueHead
             /\ x16[x17[t]] = t
      BY DEF QueueInv
    <2>2. \A t \in Thread : Timed(t) /\ x17[t] # NULL => pos[x17[t]] = pos[t] + 1
      BY <2>1 DEF QueueInv
    <2>3. \A t \in Thread : Timed(t) /\ op # "expire" => left[t] > 0
      BY DEF QueueInv, TypeOK
    <2>4. \A t \in Thread : Timed(t) /\ t = QueueHead /\ op # "expire" => x16[t] = HEAD
      BY DEF QueueInv
    <2>5. \A t \in Thread : Timed(t) /\ t # QueueHead =>
             /\ x16[t] \in Thread
             /\ Timed(x16[t])
             /\ x17[x16[t]] = t
             /\ left[t] = left[x16[t]] + x1[t]
      BY DEF QueueInv
    <2>6. QueueHead # NULL => /\ Timed(QueueHead)
                              /\ pos[QueueHead] = 1
                              /\ left[QueueHead] = x1[QueueHead]
      BY DEF QueueInv
    <2> QED
      BY <2>1, <2>2, <2>3, <2>4, <2>5, <2>6 DEF QueueOK
  <1> QED
    BY <1>1, KernelInvariant, PTL

(* Once the timer runs, an interrupt always finds the interrupt thread. *)
THEOREM KernelInterruptReady == Spec => []InterruptReady
  <1>1. IInv => InterruptReady
    BY DEF IInv, BootInv, InterruptReady
  <1> QED
    BY <1>1, KernelInvariant, PTL

-----------------------------------------------------------------------------
(* The kernel implements the gates.  What GateView makes of its state: *)
Waiters == {t \in Thread : gate[t] = THREAD_WAITING} \ Expiring
Savings == [t \in Thread |-> IF gate[t] > 0 THEN gate[t] ELSE 0]
Results == [t \in Thread |-> IF t \in Expiring THEN -1 ELSE x0[t]]

(* Outside the loop of the tick the view is what the variables say. *)
LEMMA QuietView ==
    ASSUME TypeOK, op # "expire"
    PROVE  /\ Waiters = {t \in Thread : gate[t] = -1}
           /\ Results = x0
  BY DEF Expiring, Waiters, Results, TypeOK

LEMMA QuietViewNext ==
    ASSUME TypeOK', op' # "expire"
    PROVE  /\ Waiters' = {t \in Thread : gate'[t] = -1}
           /\ Results' = x0'
  BY DEF Expiring, Waiters, Results, TypeOK

(* The thread that runs does not wait. *)
LEMMA RunnerAwake ==
    ASSUME IInv, AtUser
    PROVE  /\ runnable \in Thread /\ gate[runnable] \in 0 .. GateMax
           /\ runnable \notin Waiters /\ op = "user" /\ sleeper = NULL
  <1>1. runnable \in Ready /\ runnable \in Thread
    BY RunnableReady DEF IInv, TypeOK
  <1>2. op = "user" /\ sleeper = NULL
    BY DEF AtUser, IInv, LoopInv
  <1> QED
    BY <1>1, <1>2 DEF Ready, IInv, TypeOK, Waiters

(* Steps that leave gates, results and times alone. *)
LEMMA SameView ==
    ASSUME TypeOK, TypeOK', UNCHANGED <<gate, x0, left>>, op # "expire", op' # "expire"
    PROVE  UNCHANGED GateView!gateVars
  <1>1. Waiters' = Waiters /\ Results' = Results /\ Savings' = Savings
    BY QuietView, QuietViewNext DEF Savings
  <1> QED
    BY <1>1 DEF GateView!gateVars, Waiters, Results, Savings

LEMMA SilentRefines ==
    ASSUME IInv, IInv',
           \/ \E t \in Thread, map \in Map : LoadDriver(t, map)
           \/ EnterThread \/ StartTimer \/ InsertWalk \/ InsertHere
           \/ \E t \in Thread : WakeForeign(t)
           \/ IRQ \/ SetInterruptThread \/ (TimerTick /\ bsod')
    PROVE  UNCHANGED GateView!gateVars
  <1>1. op # "expire"
    BY DEF IInv, BootInv, LoadDriver, EnterThread, StartTimer, InsertWalk, InsertHere,
           WakeForeign, IRQ, SetInterruptThread, TimerTick, AtUser
  <1>2. op' # "expire" /\ UNCHANGED <<gate, x0, left>>
    <2>1. CASE TimerTick /\ bsod'
      BY <1>1, <2>1 DEF TimerTick, AtUser
    <2>2. CASE EnterThread \/ StartTimer \/ \E t \in Thread, map \in Map : LoadDriver(t, map)
      BY <1>1, <2>2 DEF LoadDriver, EnterThread, StartTimer, queueVars, loopVars
    <2>3. CASE InsertWalk \/ InsertHere
      BY <1>1, <2>3 DEF InsertWalk, InsertHere, queueVars
    <2>4. CASE IRQ \/ SetInterruptThread \/ \E t \in Thread : WakeForeign(t)
      BY <1>1, <2>4 DEF WakeForeign, IRQ, SetInterruptThread, queueVars, loopVars
    <2> QED
      BY <2>1, <2>2, <2>3, <2>4
  <1> QED
    BY <1>1, <1>2, SameView DEF IInv

(* A thread goes on with something else. *)
LEMMA RegisterRefines ==
    ASSUME IInv, IInv', AtUser, UNCHANGED <<gate, left, op>>,
           x0' = [x0 EXCEPT ![runnable] = Garbage]
    PROVE  \E t \in Thread : GateView!UseRegister(t)
  <1>1. /\ runnable \in Thread /\ runnable \notin Waiters /\ op = "user"
    BY RunnerAwake
  <1>2. Waiters' = Waiters /\ Savings' = Savings /\ Results = x0 /\ Results' = x0'
    BY <1>1, QuietView, QuietViewNext DEF IInv, Savings
  <1>3. \E v \in Result : Results' = [Results EXCEPT ![runnable] = v]
    BY <1>2 DEF Result
  <1> QED
    BY <1>1, <1>2, <1>3 DEF GateView!UseRegister, Waiters, Savings, Results

LEMMA WaitOpenRefines ==
    ASSUME IInv, IInv', WaitOpen
    PROVE  \E t \in Thread : GateView!PassGate(t)
  <1>1. /\ AtUser /\ gate[runnable] > 0
        /\ x0' = [x0 EXCEPT ![runnable] = gate[runnable]]
        /\ gate' = [gate EXCEPT ![runnable] = 0]
        /\ UNCHANGED <<left, op>>
    BY DEF WaitOpen, queueVars, loopVars
  <1>2. /\ runnable \in Thread /\ gate[runnable] \in 0 .. GateMax
        /\ runnable \notin Waiters /\ op = "user"
    BY <1>1, RunnerAwake
  <1>3. gate \in [Thread -> -1 .. GateMax]
    BY DEF IInv, TypeOK
  <1>4. Waiters' = Waiters
    BY <1>1, <1>2, <1>3, QuietView, QuietViewNext, SMTT(30) DEF IInv
  <1>5. /\ Savings[runnable] = gate[runnable]
        /\ Savings' = [Savings EXCEPT ![runnable] = 0]
    BY <1>1, <1>2, <1>3 DEF Savings
  <1>6. Results' = [Results EXCEPT ![runnable] = Savings[runnable]]
    BY <1>1, <1>2, <1>5, QuietView, QuietViewNext DEF IInv
  <1>7. Savings[runnable] > 0
    BY <1>1, <1>5
  <1> QED
    BY <1>1, <1>2, <1>4, <1>5, <1>6, <1>7 DEF GateView!PassGate, Waiters, Savings, Results

LEMMA BlockRefines ==
    ASSUME IInv, IInv', NEW timeout \in Timeout, BlockRunning(timeout), op' # "expire"
    PROVE  GateView!BlockAtGate(runnable, timeout)
  <1>1. /\ AtUser /\ gate[runnable] <= 0
        /\ x0' = [x0 EXCEPT ![runnable] = 0]
        /\ gate' = [gate EXCEPT ![runnable] = -1]
        /\ left' = [left EXCEPT ![runnable] = timeout]
    BY DEF BlockRunning
  <1>2. /\ runnable \in Thread /\ gate[runnable] \in 0 .. GateMax
        /\ runnable \notin Waiters /\ op = "user"
    BY <1>1, RunnerAwake
  <1>3. gate \in [Thread -> -1 .. GateMax]
    BY DEF IInv, TypeOK
  <1>4. Waiters' = Waiters \union {runnable}
    BY <1>1, <1>2, <1>3, QuietView, QuietViewNext DEF IInv
  <1>5. Savings[runnable] = 0 /\ Savings' = Savings
    BY <1>1, <1>2, <1>3 DEF Savings
  <1>6. Results' = [Results EXCEPT ![runnable] = 0]
    BY <1>1, <1>2, QuietView, QuietViewNext DEF IInv
  <1> QED
    BY <1>1, <1>2, <1>4, <1>5, <1>6 DEF GateView!BlockAtGate, Waiters, Savings, Results

LEMMA WakeRefines ==
    ASSUME IInv, IInv', NEW t \in Thread, WakeWaiting(t) \/ WakeOther(t)
    PROVE  GateView!OpenGate(runnable, t)
  <1>1. /\ AtUser /\ x0' = [x0 EXCEPT ![runnable] = Garbage] /\ op' = op
    BY DEF WakeWaiting, WakeOther, loopVars
  <1>2. /\ runnable \in Thread /\ runnable \notin Waiters /\ op = "user"
    BY <1>1, RunnerAwake
  <1>3. gate \in [Thread -> -1 .. GateMax]
    BY DEF IInv, TypeOK
  <1>4. Results' = [Results EXCEPT ![runnable] = Garbage]
    BY <1>1, <1>2, QuietView, QuietViewNext DEF IInv
  <1>5. /\ Waiters = {u \in Thread : gate[u] = -1}
        /\ Waiters' = {u \in Thread : gate'[u] = -1}
    BY <1>1, <1>2, QuietView, QuietViewNext DEF IInv
  <1>6. CASE WakeWaiting(t)
    <2>1. /\ gate[t] = -1 /\ gate' = [gate EXCEPT ![t] = 0]
          /\ left' = [left EXCEPT ![t] = 0]
      BY <1>6 DEF WakeWaiting
    <2>2. t \in Waiters /\ Waiters' = Waiters \ {t}
      BY <1>3, <1>5, <2>1
    <2>3. Savings' = Savings
      BY <1>3, <2>1 DEF Savings
    <2> QED
      BY <1>2, <1>4, <2>1, <2>2, <2>3 DEF GateView!OpenGate, Waiters, Savings, Results
  <1>7. CASE WakeOther(t)
    <2>1. /\ gate[t] # -1 /\ gate' = [gate EXCEPT ![t] = Count(gate[t])]
          /\ left' = left
      BY <1>7 DEF WakeOther, queueVars
    <2>2. t \notin Waiters /\ Waiters' = Waiters
      BY <1>3, <1>5, <2>1 DEF Count
    <2>3. Savings' = [Savings EXCEPT ![t] = IF @ < GateMax THEN @ + 1 ELSE @]
      <3>1. gate[t] \in 0 .. GateMax /\ Savings[t] = gate[t]
        BY <1>3, <2>1 DEF Savings
      <3>2. Count(gate[t]) \in 0 .. GateMax
        BY <3>1 DEF Count
      <3>3. Savings'[t] = Count(Savings[t])
        BY <1>3, <2>1, <3>1, <3>2 DEF Savings
      <3>4. \A u \in Thread : u # t => Savings'[u] = Savings[u]
        BY <1>3, <2>1 DEF Savings
      <3>5. DOMAIN Savings = Thread /\ DOMAIN Savings' = Thread
            /\ Savings' = [u \in Thread |-> Savings'[u]]
        BY DEF Savings
      <3>6. Savings' = [Savings EXCEPT ![t] = Count(Savings[t])]
        BY <3>3, <3>4, <3>5
      <3> QED
        BY <3>6 DEF Count
    <2> QED
      BY <1>2, <1>4, <2>1, <2>2, <2>3 DEF GateView!OpenGate, Waiters, Savings, Results
  <1> QED
    BY <1>6, <1>7


(* The tick: who has one tick left is released with the step that counts   *)
(* it, although the loop has not come to it yet.                           *)
LEMMA TickRefines == ASSUME IInv, IInv', TimerTick, ~bsod' PROVE GateView!Tick
  <1>0. PICK h : h = blocked_with_timeout
    OBVIOUS
  <1>1. /\ AtUser /\ h # NULL /\ UNCHANGED <<gate, x0, x16, sleeper>>
        /\ left' = [t \in Thread |-> IF Timed(t) THEN left[t] - 1 ELSE left[t]]
        /\ op' = IF Minus(x1[h], 1) = 0 THEN "expire" ELSE op
    BY <1>0 DEF TimerTick
  <1>2. op = "user" /\ sleeper = NULL
    BY <1>1, RunnerAwake
  <1>3. /\ gate \in [Thread -> -1 .. GateMax] /\ x0 \in [Thread -> Result]
        /\ left \in [Thread -> 0 .. WordMax] /\ x1 \in [Thread -> 0 .. WordMax]
    BY DEF IInv, TypeOK
  <1>4. /\ h \in Thread /\ Timed(h) /\ pos[h] = 1 /\ left[h] = x1[h]
        /\ left[h] >= 1
    BY <1>0, <1>1, <1>2 DEF IInv, TypeOK, QueueInv, QueueHead
  <1>5. \A t \in Thread : Timed(t) => left[t] >= left[h] /\ left[t] >= 1
    BY <1>2, <1>4 DEF IInv, TypeOK, QueueInv
  <1>6. \A t \in Thread : ~Timed(t) => left[t] = 0
    BY <1>2 DEF IInv, QueueInv
  <1>7. \A t \in Thread : Timed(t)' = Timed(t)
    BY <1>1 DEF Timed
  <1>8. Waiters = {t \in Thread : gate[t] = -1} /\ Results = x0
    BY <1>2, QuietView DEF IInv
  <1>9. \A t \in Thread : t \in Waiters /\ left[t] > 0 <=> Timed(t)
    BY <1>3, <1>5, <1>6, <1>8 DEF Timed
  <1> DEFINE expired == {t \in Waiters : left[t] = 1}
  <1>10. Expiring' = expired
    <2>1. CASE Minus(x1[h], 1) = 0
      <3>1. Expiring' = {t \in Thread : Timed(t)' /\ left'[t] = 0}
        BY <1>1, <2>1 DEF Expiring
      <3>2. \A t \in Thread : Timed(t)' /\ left'[t] = 0 <=> Timed(t) /\ left[t] = 1
        BY <1>1, <1>3, <1>5, <1>7
      <3>3. \A t \in Thread : t \in Waiters /\ left[t] = 1 <=> Timed(t) /\ left[t] = 1
        BY <1>9
      <3>4. Waiters \subseteq Thread
        BY <1>8
      <3> QED
        BY <3>1, <3>2, <3>3, <3>4
    <2>2. CASE Minus(x1[h], 1) # 0
      <3>1. Expiring' = {}
        BY <1>1, <1>2, <2>2 DEF Expiring
      <3>2. left[h] >= 2
        BY <1>3, <1>4, <2>2 DEF Minus
      <3>3. \A t \in Waiters : left[t] # 1
        BY <1>3, <1>4, <1>5, <1>8, <1>9, <3>2
      <3> QED
        BY <3>1, <3>3
    <2> QED
      BY <2>1, <2>2
  <1>11. Waiters' = Waiters \ expired /\ Savings' = Savings
    BY <1>1, <1>8, <1>10 DEF Waiters, Savings
  <1>12. Results' = [t \in Thread |-> IF t \in expired THEN -1 ELSE Results[t]]
    BY <1>1, <1>8, <1>10 DEF Results
  <1>13. left' = [t \in Thread |-> IF t \in Waiters /\ left[t] > 0 THEN left[t] - 1 ELSE left[t]]
    BY <1>1, <1>9
  <1> QED
    BY <1>11, <1>12, <1>13 DEF GateView!Tick, GateView!TimedOut, Waiters, Savings, Results

(* The rounds of the loop do what the tick has promised already. *)
LEMMA ExpireRefines == ASSUME IInv, IInv', ExpireHead PROVE UNCHANGED GateView!gateVars
  <1>0. PICK h, next : h = cursor /\ next = x17[h]
    OBVIOUS
  <1>1. /\ op = "expire" /\ x0' = [x0 EXCEPT ![h] = -1]
        /\ gate' = [gate EXCEPT ![h] = 0]
        /\ UNCHANGED <<left, sleeper, x1>>
        /\ op' = IF next # NULL /\ x1[next] = 0 THEN "expire" ELSE "user"
        /\ next # NULL /\ x1[next] = 0 => x16' = [x16 EXCEPT ![h] = Garbage]
    BY <1>0 DEF ExpireHead
  <1>2. h \in Thread /\ h = QueueHead
    BY <1>0, <1>1 DEF IInv, LoopInv, QueueHead
  <1>3. /\ gate \in [Thread -> -1 .. GateMax] /\ x0 \in [Thread -> Result]
        /\ left \in [Thread -> 0 .. WordMax] /\ x1 \in [Thread -> 0 .. WordMax]
        /\ x16 \in [Thread -> Thread \union {NULL, HEAD, Garbage}]
        /\ pos \in [Thread -> Nat]
    BY DEF IInv, TypeOK
  <1>4. Timed(h) /\ pos[h] = 1 /\ left[h] = 0
    BY <1>1, <1>2 DEF IInv, QueueInv
  <1>5. h \in Expiring /\ Expiring = {t \in Thread : Timed(t) /\ left[t] = 0}
    BY <1>1, <1>2, <1>4 DEF Expiring
  <1>6. Expiring' = Expiring \ {h}
    <2>1. CASE next # NULL /\ x1[next] = 0
      <3>1. Expiring' = {t \in Thread : Timed(t)' /\ left[t] = 0}
        BY <1>1, <2>1 DEF Expiring
      <3>2. \A t \in Thread : Timed(t)' <=> Timed(t) /\ t # h
        BY <1>1, <1>2, <1>3, <2>1 DEF Timed
      <3> QED
        BY <1>5, <3>1, <3>2
    <2>2. CASE ~(next # NULL /\ x1[next] = 0)
      <3>1. Expiring' = {}
        BY <1>1, <2>2 DEF Expiring
      <3>2. ASSUME NEW t \in Thread, Timed(t), t # h PROVE left[t] # 0
        <4>1. pos[t] >= 1 /\ pos[t] # pos[h]
          BY <1>2, <1>4, <3>2 DEF IInv, QueueInv
        <4>2. next # NULL
          BY <1>0, <1>2, <1>3, <1>4, <3>2, <4>1 DEF IInv, QueueInv
        <4>3. next \in Thread /\ Timed(next) /\ next # h /\ x16[next] = h
          BY <1>0, <1>2, <1>4, <4>2 DEF IInv, QueueInv
        <4>4. pos[next] = 2 /\ left[next] = x1[next]
          BY <1>2, <1>3, <1>4, <4>3 DEF IInv, QueueInv
        <4>5. left[next] <= left[t]
          BY <1>3, <1>4, <3>2, <4>1, <4>3, <4>4 DEF IInv, QueueInv
        <4> QED
          BY <1>3, <2>2, <4>2, <4>3, <4>4, <4>5
      <3> QED
        BY <1>5, <3>1, <3>2
    <2> QED
      BY <2>1, <2>2
  <1>7. Waiters' = Waiters
    BY <1>1, <1>2, <1>3, <1>5, <1>6 DEF Waiters
  <1>8. Savings' = Savings
    <2>1. gate[h] = -1
      BY <1>4 DEF Timed
    <2> QED
      BY <1>1, <1>2, <1>3, <2>1 DEF Savings
  <1>9. Results' = Results
    BY <1>1, <1>2, <1>3, <1>5, <1>6 DEF Results
  <1> QED
    BY <1>1, <1>7, <1>8, <1>9 DEF GateView!gateVars, Waiters, Savings, Results

LEMMA InitGates == Init => GateView!GateInit
  <1> SUFFICES ASSUME Init PROVE GateView!GateInit
    OBVIOUS
  <1>1. TypeOK /\ op # "expire"
    BY InitIInv DEF IInv, Init
  <1>2. Waiters = {} /\ Results = x0
    BY <1>1, QuietView DEF Init
  <1>3. Savings = [t \in Thread |-> 0] /\ left = [t \in Thread |-> 0]
    BY DEF Init, Savings
  <1>4. Results \in [Thread -> Result]
    BY <1>1, <1>2 DEF TypeOK
  <1> QED
    BY <1>2, <1>3, <1>4 DEF GateView!GateInit, Waiters, Savings, Results

(* The lists, registers and loops of the kernel keep the promise of the    *)
(* gates: no wake is lost, and a timed wait ends after its ticks, neither  *)
(* earlier nor later, for any number of threads and any timeouts.          *)
THEOREM KernelGates == Spec => GatesImplemented
  <1>1. Init => GateView!GateInit
    BY InitGates
  <1>2. IInv /\ IInv' /\ [Next]_vars => [GateView!GateNext]_(GateView!gateVars)
    <2> SUFFICES ASSUME IInv, IInv', [Next]_vars
                 PROVE  GateView!GateNext \/ UNCHANGED GateView!gateVars
      OBVIOUS
    <2>0. runnable \in Thread
      BY DEF IInv, TypeOK
    <2>1. CASE \/ \E t \in Thread, map \in Map : LoadDriver(t, map)
               \/ EnterThread \/ StartTimer \/ InsertWalk \/ InsertHere
               \/ \E t \in Thread : WakeForeign(t)
               \/ IRQ \/ SetInterruptThread \/ (TimerTick /\ bsod')
      BY <2>1, SilentRefines
    <2>2. CASE \/ CreateInterruptThread \/ Yield
               \/ \E t \in Thread, map \in Map : CreateWorker(t, map)
               \/ \E map \in Map : GoTo(map)
      <3>1. AtUser /\ UNCHANGED <<gate, left, op>> /\ x0' = [x0 EXCEPT ![runnable] = Garbage]
        BY <2>2 DEF CreateInterruptThread, CreateWorker, CreateThread, Yield, GoTo,
                    queueVars, loopVars
      <3>2. \E t \in Thread : GateView!UseRegister(t)
        BY <3>1, RegisterRefines
      <3> QED
        BY <3>2 DEF GateView!GateNext
    <2>3. CASE WaitOpen
      BY <2>3, WaitOpenRefines DEF GateView!GateNext
    <2>4. CASE WaitForever
      <3>1. BlockRunning(0) /\ op' # "expire"
        BY <2>4 DEF WaitForever, BlockRunning, AtUser, loopVars
      <3> QED
        BY <2>0, <3>1, BlockRefines DEF GateView!GateNext
    <2>5. CASE \E timeout \in Timeout : WaitTimed(timeout)
      <3>1. PICK timeout \in Timeout : BlockRunning(timeout) /\ op' # "expire"
        BY <2>5 DEF WaitTimed
      <3> QED
        BY <2>0, <3>1, BlockRefines DEF GateView!GateNext
    <2>6. CASE \E t \in Thread : WakeWaiting(t) \/ WakeOther(t)
      BY <2>0, <2>6, WakeRefines DEF GateView!GateNext
    <2>7. CASE TimerTick /\ ~bsod'
      BY <2>7, TickRefines DEF GateView!GateNext
    <2>8. CASE ExpireHead
      BY <2>8, ExpireRefines
    <2>9. CASE Halted \/ UNCHANGED vars
      <3>1. UNCHANGED <<gate, x0, left, op, x16, sleeper>>
        BY <2>9 DEF Halted, vars, queueVars, loopVars
      <3>2. Expiring' = Expiring
        BY <3>1 DEF Expiring, Timed
      <3> QED
        BY <3>1, <3>2 DEF GateView!gateVars
    <2> QED
      BY <2>1, <2>2, <2>3, <2>4, <2>5, <2>6, <2>7, <2>8, <2>9 DEF Next
  <1> QED
    BY <1>1, <1>2, KernelInvariant, PTL DEF Spec, GatesImplemented, GateView!GateSpec
=============================================================================
