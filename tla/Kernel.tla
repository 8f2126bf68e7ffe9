------------------------------- MODULE Kernel -------------------------------
(***************************************************************************)
(* One core of Isambard's secure EL1 kernel: which thread runs, which wait *)
(* at their gates and for how long, and which memory map is loaded.        *)
(*                                                                         *)
(* The handlers of svc_handling.h and secure_el1.c run with interrupts     *)
(* masked, so one action is one handler.  Two handlers contain a loop over *)
(* the timeout queue.  Each iteration is a step of its own, with the       *)
(* handler's local variables in `op`, `sleeper`, `cursor` and `remaining`; *)
(* every other action waits for op = "user", so nothing comes in between.  *)
(*                                                                         *)
(* The timeout queue is the linked list the code keeps in the registers of *)
(* the waiting threads: x17 the next entry, x16 the address of the pointer *)
(* to this entry (the queue's head, or the x17 of the previous entry), x1  *)
(* the ticks this entry waits after the previous one has timed out.  While *)
(* a thread can run, its registers are its own: x1, x16 and x17 are then   *)
(* worth nothing to the kernel, and x0 holds the result of the last gate   *)
(* call only until the thread's next system call; Garbage stands for the   *)
(* rest.                                                                   *)
(***************************************************************************)
EXTENDS Integers, Rings

CONSTANTS Idle,           \* the system thread of the core, its idle thread
          InterruptThread,\* the thread that calls the interrupt handlers
          Driver,         \* the threads made for the drivers at boot
          Map,            \* the memory maps
          SystemMap,      \* system_map_index, the map of the system driver
          Timeout,        \* the timeouts threads give, in ticks; 0: forever
          GateMax,        \* 0x7fffffff
          WordMax,        \* the largest value of a 64 bit register
          NULL,           \* the null pointer
          HEAD,           \* the address &core->blocked_with_timeout
          Garbage         \* whatever a thread keeps in its own registers

Worker == Thread \ {Idle, InterruptThread}

ASSUME ThreadAssumption ==
    /\ Idle \in Thread
    /\ InterruptThread \in Thread
    /\ Idle # InterruptThread
    /\ Driver \subseteq Worker
    /\ NULL \notin Thread
    /\ HEAD \notin Thread
    /\ NULL # HEAD
    /\ Garbage \notin Thread \union {NULL, HEAD}

ASSUME MapAssumption == SystemMap \in Map

ASSUME NumberAssumption ==
    /\ WordMax \in Nat
    /\ Timeout \subseteq 0 .. WordMax
    /\ 0 \in Timeout
    /\ GateMax \in Nat \ {0}

VARIABLES
    ring,                 \* next and prev of every thread_context
    runnable,             \* core->runnable, the thread that runs at EL0
    interrupt_thread,     \* core->interrupt_thread
    blocked_with_timeout, \* core->blocked_with_timeout
    loaded_map,           \* core->loaded_map
    created,              \* the thread_contexts taken from the heap so far
    gate,                 \* thread->gate
    x0, x1, x16, x17,     \* the registers of each thread that the gate uses
    current_map,          \* thread->current_map
    ticked,               \* this interrupt's timer tick is done, or passed by
    boot,                 \* how far the core has started up
    bsod,                 \* the kernel has shown its blue screen and stopped
    op,                   \* the loop the kernel is in, "user" when at EL0
    sleeper,              \* in "insert": the thread going into the queue
    cursor,               \* in "insert": prev, in "expire": blocked_list_head
    remaining,            \* in "insert": the ticks still to be accounted for
    left,                 \* history: ticks each timed thread has still to wait
    pos                   \* history: its place in the timeout queue, from 1

queueVars == <<blocked_with_timeout, x1, x16, x17, left, pos>>
loopVars  == <<op, sleeper, cursor, remaining>>
mapVars   == <<loaded_map, current_map>>
coreVars  == <<interrupt_thread, ticked, created, boot, bsod>>
vars == <<ring, runnable, gate, x0, queueVars, loopVars, mapVars, coreVars>>

THREAD_WAITING == -1

Result == (-1 .. GateMax) \union {Garbage}

-----------------------------------------------------------------------------
(* 64 bit register arithmetic. *)
MutantPlus(a, b) == a

Plus(a, b)  == IF a + b > WordMax THEN a + b - (WordMax + 1) ELSE a + b
Minus(a, b) == IF a < b THEN a + (WordMax + 1) - b ELSE a - b

(* A thread is in the timeout queue: waiting, with x16 not zero. *)
Timed(t) == /\ gate[t] = THREAD_WAITING
            /\ x16[t] # NULL
            /\ t # sleeper

(* The thread at EL0, between two events of the kernel. *)
AtUser == op = "user" /\ ~bsod /\ boot # "load"

(* Threads whose code calls other maps and wakes other threads: not the    *)
(* idle thread, and the interrupt thread only while it serves an           *)
(* interrupt.                                                              *)
ActsFor(r) == /\ r # Idle
              /\ r = InterruptThread => interrupt_thread = r

(* The gate of a thread that is not waiting counts the wakes, up to a      *)
(* limit.                                                                  *)
Count(g) == IF g < GateMax THEN g + 1 ELSE g

(* The interrupt thread runs with IRQs disabled (spsr 0x80), every other   *)
(* thread with IRQs enabled (spsr 0).                                      *)
MutantInterruptible(t) == t = Idle

Interruptible(t) == t # InterruptThread

(* SEL1_LOWER_AARCH64_SYNC_CODE and the IRQ handler: load the map of the   *)
(* thread that runs now, if it is not the map of the one that ran until    *)
(* then.                                                                   *)
MutantSwitchMap(then, now) == UNCHANGED loaded_map

SwitchMap(then, now) ==
    loaded_map' = IF current_map[now] # current_map[then]
                    THEN current_map[now] ELSE loaded_map

-----------------------------------------------------------------------------
(* Boot: initialise_driver_maps puts the system thread alone in the ring   *)
(* of core 0 and every driver's first thread behind it, each in a map of   *)
(* its own; then enter_secure_el1_himem enters the first thread.           *)

Init ==
    /\ ring = SelfLinked
    /\ runnable = Idle
    /\ interrupt_thread = NULL
    /\ blocked_with_timeout = NULL
    /\ loaded_map = NULL
    /\ created = {Idle}
    /\ gate = [t \in Thread |-> 0]
    /\ x0 = [t \in Thread |-> Garbage]
    /\ x1 = [t \in Thread |-> 0]
    /\ x16 = [t \in Thread |-> Garbage]
    /\ x17 = [t \in Thread |-> Garbage]
    /\ current_map = [t \in Thread |-> SystemMap]
    /\ ticked = FALSE
    /\ boot = "load"
    /\ bsod = FALSE
    /\ op = "user"
    /\ sleeper = NULL
    /\ cursor = NULL
    /\ remaining = 0
    /\ left = [t \in Thread |-> 0]
    /\ pos = [t \in Thread |-> 0]

LoadDriver(t, map) ==
    /\ boot = "load"
    /\ t \in Driver \ created
    /\ map \in Map \ {current_map[u] : u \in created}
    /\ created' = created \union {t}
    /\ current_map' = [current_map EXCEPT ![t] = map]
    /\ ring' = InsertBefore(ring, t, runnable)
    /\ UNCHANGED <<runnable, gate, x0, queueVars, loopVars, loaded_map,
                   interrupt_thread, ticked, boot, bsod>>

EnterThread ==
    /\ boot = "load"
    /\ Driver \subseteq created
    /\ boot' = "create"
    /\ loaded_map' = current_map[runnable]
    /\ UNCHANGED <<ring, runnable, gate, x0, queueVars, loopVars, current_map,
                   interrupt_thread, ticked, created, bsod>>

(* Isambard_System_Service_Create_Thread: the new thread belongs to the    *)
(* map that called the system driver, and runs at once.                    *)
CreateThread(t, map) ==
    LET r == runnable
    IN  /\ t \notin created
        /\ current_map[r] = SystemMap
        /\ created' = created \union {t}
        /\ current_map' = [current_map EXCEPT ![t] = map]
        /\ x0' = [x0 EXCEPT ![r] = Garbage]
        /\ ring' = InsertBefore(ring, t, r)
        /\ runnable' = t
        /\ loaded_map' = IF map # current_map[r] THEN map ELSE loaded_map
        /\ UNCHANGED <<gate, queueVars, loopVars, interrupt_thread, ticked,
                       bsod>>

(* idle_thread_entry: create_interrupt_handler_thread, then start_ms_timer *)
(* and the loop of yield and wfi.                                          *)
CreateInterruptThread ==
    /\ AtUser
    /\ boot = "create"
    /\ runnable = Idle
    /\ CreateThread(InterruptThread, SystemMap)
    /\ boot' = "timer"

StartTimer ==
    /\ AtUser
    /\ boot = "timer"
    /\ runnable = Idle
    /\ boot' = "up"
    /\ UNCHANGED <<ring, runnable, gate, x0, queueVars, loopVars, mapVars,
                   interrupt_thread, ticked, created, bsod>>

(* SYSTEM.create_thread, for a thread of some driver. *)
CreateWorker(t, map) ==
    /\ AtUser
    /\ runnable \in Worker
    /\ t \in Worker
    /\ CreateThread(t, map)
    /\ UNCHANGED boot

-----------------------------------------------------------------------------
(* ISAMBARD_YIELD *)
Yield ==
    LET r == runnable
        n == ring.next[r]
    IN  /\ AtUser
        /\ r \in Worker \/ (r = Idle /\ boot = "up")
        /\ runnable' = n
        /\ x0' = [x0 EXCEPT ![r] = Garbage]
        /\ SwitchMap(r, n)
        /\ UNCHANGED <<ring, gate, queueVars, loopVars, current_map,
                       coreVars>>

(* ISAMBARD_CALL of an interface that map provides, or ISAMBARD_RETURN to  *)
(* a caller in map: the same thread goes on in another map.                *)
GoTo(map) ==
    LET r == runnable
    IN  /\ AtUser
        /\ ActsFor(r)
        /\ map # current_map[r]
        /\ x0' = [x0 EXCEPT ![r] = Garbage]
        /\ current_map' = [current_map EXCEPT ![r] = map]
        /\ loaded_map' = map
        /\ ticked' = (ticked \/ r = InterruptThread)
        /\ UNCHANGED <<ring, runnable, gate, queueVars, loopVars,
                       interrupt_thread, created, boot, bsod>>

-----------------------------------------------------------------------------
(* ISAMBARD_GATE with x0 = 0: wait_until_woken and sleep_unless_woken. *)

(* A: the gate has been opened already. *)
WaitOpen ==
    LET r == runnable
    IN  /\ AtUser
        /\ r \in Worker
        /\ gate[r] > 0
        /\ x0' = [x0 EXCEPT ![r] = gate[r]]
        /\ gate' = [gate EXCEPT ![r] = 0]
        /\ UNCHANGED <<ring, runnable, queueVars, loopVars, mapVars, coreVars>>

(* B, the part that blocking with and without a timeout share. *)
BlockRunning(timeout) ==
    LET r == runnable
    IN  /\ AtUser
        /\ r \in Worker
        /\ gate[r] <= 0
        /\ runnable' = ring.next[r]
        /\ ring' = Remove(ring, r)
        /\ gate' = [gate EXCEPT ![r] = THREAD_WAITING]
        /\ x0' = [x0 EXCEPT ![r] = 0]
        /\ x1' = [x1 EXCEPT ![r] = timeout]
        /\ left' = [left EXCEPT ![r] = timeout]

WaitForever ==
    LET r == runnable
    IN  /\ BlockRunning(0)
        /\ x16' = [x16 EXCEPT ![r] = NULL]
        /\ x17' = [x17 EXCEPT ![r] = NULL]
        /\ SwitchMap(r, ring.next[r])
        /\ UNCHANGED <<blocked_with_timeout, pos, loopVars, current_map,
                       coreVars>>

(* With a timeout: on to the loop that finds the place in the queue. *)
WaitTimed(timeout) ==
    /\ timeout > 0
    /\ BlockRunning(timeout)
    /\ op' = "insert"
    /\ sleeper' = runnable
    /\ cursor' = HEAD
    /\ remaining' = timeout
    /\ UNCHANGED <<blocked_with_timeout, x16, x17, pos, mapVars, coreVars>>

(* blocked_thread == *prev *)
Deref(p) == IF p = HEAD THEN blocked_with_timeout ELSE x17[p]

MutantPassEntry(e) == e # NULL /\ remaining < x1[e]

PassEntry(e) == e # NULL /\ remaining > x1[e]

InsertWalk ==
    LET e == Deref(cursor)
    IN  /\ op = "insert"
        /\ PassEntry(e)
        /\ remaining' = Minus(remaining, x1[e])
        /\ cursor' = e
        /\ UNCHANGED <<ring, runnable, gate, x0, queueVars, op, sleeper, mapVars,
                       coreVars>>

InsertHere ==
    LET s == sleeper
        e == Deref(cursor)
        place == IF cursor = HEAD THEN 1 ELSE pos[cursor] + 1
    IN  /\ op = "insert"
        /\ ~PassEntry(e)
        /\ x1' = [t \in Thread |-> IF t = s THEN remaining
                                   ELSE IF t = e THEN Minus(x1[t], remaining)
                                   ELSE x1[t]]
        /\ x16' = [t \in Thread |-> IF t = s THEN cursor
                                    ELSE IF t = e THEN s ELSE x16[t]]
        /\ x17' = [t \in Thread |-> IF t = s THEN e
                                    ELSE IF t = cursor THEN s ELSE x17[t]]
        /\ blocked_with_timeout' = IF cursor = HEAD THEN s ELSE blocked_with_timeout
        /\ pos' = [t \in Thread |-> IF t = s THEN place
                                    ELSE IF Timed(t) /\ pos[t] >= place
                                           THEN pos[t] + 1 ELSE pos[t]]
        /\ op' = "user" /\ sleeper' = NULL /\ cursor' = NULL /\ remaining' = 0
        /\ SwitchMap(s, runnable)
        /\ UNCHANGED <<ring, runnable, gate, x0, left, current_map, coreVars>>

-----------------------------------------------------------------------------
(* ISAMBARD_GATE with x0 # 0: wake_thread( t ).  The caller has put the    *)
(* code of t into its x0, and the handler leaves it there.                 *)

WakeWaiting(t) ==
    LET r == runnable
        next == x17[t]
    IN  /\ AtUser
        /\ ActsFor(r)
        /\ t \in created
        /\ gate[t] = THREAD_WAITING
        /\ current_map[t] = current_map[r]
        /\ ring' = InsertAfter(ring, t, r)
        /\ gate' = [gate EXCEPT ![t] = 0]
        /\ x0' = [x0 EXCEPT ![r] = Garbage]
        /\ left' = [left EXCEPT ![t] = 0]
        /\ IF x16[t] # NULL
             THEN /\ blocked_with_timeout' = IF x16[t] = HEAD THEN next
                                             ELSE blocked_with_timeout
                  /\ x1' = [u \in Thread |-> IF u = t THEN 0
                                             ELSE IF u = next THEN Plus(x1[u], x1[t])
                                             ELSE x1[u]]
                  /\ x16' = [u \in Thread |-> IF u = t THEN Garbage
                                              ELSE IF u = next THEN x16[t]
                                              ELSE x16[u]]
                  /\ x17' = [u \in Thread |-> IF u = t THEN Garbage
                                              ELSE IF u = x16[t] THEN next
                                              ELSE x17[u]]
                  /\ pos' = [u \in Thread |-> IF u = t THEN 0
                                              ELSE IF pos[u] > pos[t] THEN pos[u] - 1
                                              ELSE pos[u]]
             ELSE /\ x16' = [x16 EXCEPT ![t] = Garbage]
                  /\ x17' = [x17 EXCEPT ![t] = Garbage]
                  /\ UNCHANGED <<blocked_with_timeout, x1, pos>>
        /\ UNCHANGED <<runnable, loopVars, mapVars, coreVars>>

WakeOther(t) ==
    LET r == runnable
    IN  /\ AtUser
        /\ ActsFor(r)
        /\ t \in created
        /\ gate[t] # THREAD_WAITING
        /\ gate' = [gate EXCEPT ![t] = Count(@)]
        /\ x0' = [x0 EXCEPT ![r] = Garbage]
        /\ UNCHANGED <<ring, runnable, queueVars, loopVars, mapVars, coreVars>>

(* "Threads not blocked in same map": the kernel stops. *)
WakeForeign(t) ==
    LET r == runnable
    IN  /\ AtUser
        /\ ActsFor(r)
        /\ t \in created
        /\ gate[t] = THREAD_WAITING
        /\ current_map[t] # current_map[r]
        /\ bsod' = TRUE
        /\ UNCHANGED <<ring, runnable, gate, x0, queueVars, loopVars, mapVars,
                       interrupt_thread, ticked, created, boot>>

-----------------------------------------------------------------------------
(* Interrupts. *)

(* SEL1_LOWER_AARCH64_IRQ_CODE, once the idle thread has started the       *)
(* timer.                                                                  *)
IRQ ==
    /\ AtUser
    /\ boot = "up"
    /\ Interruptible(runnable)
    /\ IF interrupt_thread = NULL
         THEN bsod' = TRUE /\ UNCHANGED <<ring, runnable, loaded_map>>
         ELSE /\ ring' = InsertBefore(ring, interrupt_thread, runnable)
              /\ runnable' = interrupt_thread
              /\ SwitchMap(runnable, interrupt_thread)
              /\ UNCHANGED bsod
    /\ ticked' = FALSE
    /\ UNCHANGED <<gate, x0, queueVars, loopVars, current_map,
                   interrupt_thread, created, boot>>

(* Isambard_System_Service_Set_Interrupt_Thread: the interrupt thread has  *)
(* called the handlers, and leaves the ring until the next interrupt.      *)
SetInterruptThread ==
    LET r == runnable
    IN  /\ AtUser
        /\ r = InterruptThread
        /\ current_map[r] = SystemMap
        /\ IF interrupt_thread \notin {NULL, r}
             THEN bsod' = TRUE /\ UNCHANGED <<ring, runnable, interrupt_thread, loaded_map>>
             ELSE /\ interrupt_thread' = r
                  /\ runnable' = ring.next[r]
                  /\ ring' = Remove(ring, r)
                  /\ SwitchMap(r, ring.next[r])
                  /\ UNCHANGED bsod
        /\ ticked' = FALSE
        /\ UNCHANGED <<gate, x0, queueVars, loopVars, current_map,
                       created, boot>>

(* gate_function( 0, 0 ) of the interrupt thread: the timer tick.  With    *)
(* nobody in the queue it changes nothing.                                 *)
TimerTick ==
    LET h == blocked_with_timeout
    IN  /\ AtUser
        /\ runnable = interrupt_thread
        /\ ticked' = TRUE
        /\ IF current_map[runnable] # SystemMap
             THEN bsod' = TRUE /\ UNCHANGED <<x1, left, op, cursor>>
             ELSE /\ ~ticked
                  /\ h # NULL
                  /\ x1' = [x1 EXCEPT ![h] = Minus(@, 1)]
                  /\ left' = [t \in Thread |-> IF Timed(t) THEN left[t] - 1 ELSE left[t]]
                  /\ IF Minus(x1[h], 1) = 0
                       THEN op' = "expire" /\ cursor' = h
                       ELSE UNCHANGED <<op, cursor>>
                  /\ UNCHANGED bsod
        /\ UNCHANGED <<ring, runnable, gate, x0, blocked_with_timeout, x16, x17,
                       pos, sleeper, remaining, mapVars, interrupt_thread,
                       created, boot>>

(* One round of the loop that releases everyone who times out this tick. *)
ExpireHead ==
    LET h == cursor
        next == x17[h]
    IN  /\ op = "expire"
        /\ x0' = [x0 EXCEPT ![h] = -1]
        /\ gate' = [gate EXCEPT ![h] = 0]
        /\ ring' = InsertAfter(ring, h, runnable)
        /\ pos' = [t \in Thread |-> IF pos[t] > 0 THEN pos[t] - 1 ELSE 0]
        /\ x17' = [x17 EXCEPT ![h] = Garbage]
        /\ IF next # NULL /\ x1[next] = 0
             THEN /\ cursor' = next
                  /\ x16' = [x16 EXCEPT ![h] = Garbage]
                  /\ UNCHANGED <<op, blocked_with_timeout>>
             ELSE /\ op' = "user" /\ cursor' = NULL
                  /\ blocked_with_timeout' = next
                  /\ x16' = [t \in Thread |-> IF t = h THEN Garbage
                                              ELSE IF t = next THEN HEAD
                                              ELSE x16[t]]
        /\ UNCHANGED <<runnable, x1, left, sleeper, remaining, mapVars, coreVars>>

-----------------------------------------------------------------------------
(* BSOD never returns. *)
Halted == bsod /\ UNCHANGED vars

Next ==
    \/ \E t \in Thread, map \in Map : LoadDriver(t, map)
    \/ EnterThread \/ CreateInterruptThread \/ StartTimer
    \/ \E t \in Thread, map \in Map : CreateWorker(t, map)
    \/ Yield
    \/ \E map \in Map : GoTo(map)
    \/ WaitOpen \/ WaitForever
    \/ \E timeout \in Timeout : WaitTimed(timeout)
    \/ InsertWalk \/ InsertHere
    \/ \E t \in Thread : WakeWaiting(t) \/ WakeOther(t) \/ WakeForeign(t)
    \/ IRQ \/ SetInterruptThread \/ TimerTick \/ ExpireHead
    \/ Halted

Spec == Init /\ [][Next]_vars

(* Interrupt handlers are straight-line code that returns, the timer's     *)
(* interrupt line stays asserted until it is served and infinitely many    *)
(* interrupts are timer interrupts.  Nothing is assumed of other threads:  *)
(* they may keep the core for themselves.                                  *)
HandlerReturns == runnable = InterruptThread /\ GoTo(SystemMap)

Fairness ==
    /\ WF_vars(InsertWalk) /\ WF_vars(InsertHere) /\ WF_vars(ExpireHead)
    /\ SF_vars(IRQ) /\ SF_vars(TimerTick)
    /\ SF_vars(HandlerReturns) /\ SF_vars(SetInterruptThread)

FairSpec == Spec /\ Fairness

-----------------------------------------------------------------------------
(* Every variable has the type its C declaration gives it. *)
TypeOK ==
    /\ ring \in Ring
    /\ runnable \in Thread
    /\ interrupt_thread \in {NULL, InterruptThread}
    /\ blocked_with_timeout \in Thread \union {NULL}
    /\ loaded_map \in Map \union {NULL}
    /\ created \subseteq Thread
    /\ gate \in [Thread -> -1 .. GateMax]
    /\ x0 \in [Thread -> Result]
    /\ x1 \in [Thread -> 0 .. WordMax]
    /\ x16 \in [Thread -> Thread \union {NULL, HEAD, Garbage}]
    /\ x17 \in [Thread -> Thread \union {NULL, Garbage}]
    /\ current_map \in [Thread -> Map]
    /\ ticked \in BOOLEAN
    /\ boot \in {"load", "create", "timer", "up"}
    /\ bsod \in BOOLEAN
    /\ op \in {"user", "insert", "expire"}
    /\ sleeper \in Thread \union {NULL}
    /\ cursor \in Thread \union {NULL, HEAD}
    /\ remaining \in 0 .. WordMax
    /\ left \in [Thread -> 0 .. WordMax]
    /\ pos \in [Thread -> Nat]

(* The interrupt thread between two interrupts: in no list at all. *)
Parked(t) == t = interrupt_thread /\ t # runnable

(* The threads that can run. *)
Ready == {t \in created : gate[t] # THREAD_WAITING /\ ~Parked(t)}

(* Every thread is where it belongs: a thread that was created and neither *)
(* waits at its gate nor is the parked interrupt thread is in the runnable *)
(* ring, so it will run again; and nothing else is in that ring.  Waits,   *)
(* wakes, timeouts, interrupts and new threads all relink it.              *)
NoThreadLost == RingOf(ring, runnable) = Ready

(* The thread at EL0 sees its own map: change_map is called only when the  *)
(* maps of the two threads of a switch differ, which is enough only if the *)
(* map of the running thread was loaded before.                            *)
RightMapLoaded ==
    (op = "user" /\ ~bsod /\ boot # "load") => loaded_map = current_map[runnable]

(* The timeout queue as a list: its entries are exactly the threads that   *)
(* wait with a timeout, each points back at the pointer that leads to it,  *)
(* and the differences in x1 add up to the ticks each has left, so the     *)
(* first has at least one (the tick decrements it before it tests for 0).  *)
QueueHead == IF op = "expire" THEN cursor ELSE blocked_with_timeout

QueueOK ==
    /\ QueueHead # NULL =>
          /\ Timed(QueueHead)
          /\ pos[QueueHead] = 1
          /\ left[QueueHead] = x1[QueueHead]
    /\ op # "expire" => \A t \in Thread : Timed(t) => left[t] > 0
    /\ \A t \in Thread : Timed(t) =>
          /\ t # QueueHead => /\ x16[t] \in Thread
                              /\ Timed(x16[t])
                              /\ x17[x16[t]] = t
                              /\ left[t] = left[x16[t]] + x1[t]
          /\ (t = QueueHead /\ op # "expire") => x16[t] = HEAD
          /\ x17[t] # NULL => /\ Timed(x17[t])
                              /\ x16[x17[t]] = t
                              /\ pos[x17[t]] = pos[t] + 1

(* An interrupt never finds the core without an interrupt thread. *)
InterruptReady == boot = "up" => interrupt_thread = InterruptThread

(* A wait with a timeout ends, whatever the other threads do: a runnable   *)
(* thread that never yields, wakes that relink the queue around it, new    *)
(* sleepers that go in front of it.                                        *)
SleepEnds ==
    \A t \in Thread : Timed(t) ~> (gate[t] # THREAD_WAITING \/ bsod)

-----------------------------------------------------------------------------
(* The inductive invariant behind these properties, in five parts. *)

BootInv ==
    /\ {Idle, runnable} \subseteq created
    /\ boot \in {"load", "create"} => /\ runnable = Idle
                                     /\ interrupt_thread = NULL
                                     /\ InterruptThread \notin created
    /\ boot \in {"timer", "up"} => InterruptThread \in created
    /\ boot = "timer" => IF interrupt_thread = NULL
                           THEN runnable = InterruptThread /\ ring.next[runnable] = Idle
                           ELSE runnable = Idle
    /\ boot = "up" => interrupt_thread = InterruptThread
    /\ op # "user" => boot = "up"

RingInv ==
    /\ WellLinked(ring)
    /\ RingOf(ring, runnable) = Ready
    /\ \A t \in Thread \ Ready : Alone(ring, t)
    /\ \A t \in Thread : gate[t] = THREAD_WAITING => t \in created \intersect Worker

MapInv ==
    boot # "load" =>
        loaded_map = current_map[IF op = "insert" THEN sleeper ELSE runnable]

LoopInv ==
    /\ op # "insert" => sleeper = NULL
    /\ op = "insert" =>
          /\ sleeper \in Worker
          /\ gate[sleeper] = THREAD_WAITING
          /\ remaining >= 1
          /\ cursor # HEAD => cursor \in Thread /\ Timed(cursor)
          /\ left[sleeper] = remaining + (IF cursor = HEAD THEN 0 ELSE left[cursor])
    /\ op = "expire" => /\ cursor \in Thread
                        /\ runnable = InterruptThread
                        /\ interrupt_thread = InterruptThread

QueueInv ==
    /\ IF QueueHead = NULL
         THEN \A t \in Thread : ~Timed(t)
         ELSE /\ Timed(QueueHead)
              /\ pos[QueueHead] = 1
              /\ left[QueueHead] = x1[QueueHead]
              /\ op = "expire" => x1[QueueHead] = 0
              /\ op # "expire" => x16[QueueHead] = HEAD
    /\ op # "expire" => \A t \in Thread : Timed(t) => left[t] >= 1
    /\ \A t \in Thread : Timed(t) /\ t # QueueHead =>
          /\ x16[t] \in Thread
          /\ Timed(x16[t])
          /\ x17[x16[t]] = t
          /\ pos[t] = pos[x16[t]] + 1
          /\ left[t] = left[x16[t]] + x1[t]
    /\ \A t \in Thread : Timed(t) /\ x17[t] # NULL =>
          /\ x17[t] \in Thread
          /\ Timed(x17[t])
          /\ x17[t] # QueueHead
          /\ x16[x17[t]] = t
    /\ \A t, u \in Thread : Timed(t) /\ Timed(u) =>
          /\ x17[t] = NULL => pos[u] <= pos[t]
          /\ pos[t] = pos[u] => t = u
          /\ pos[t] <= pos[u] => left[t] <= left[u]
    /\ \A t \in Thread : IF Timed(t) THEN pos[t] >= 1 ELSE pos[t] = 0
    /\ \A t \in Thread : ~Timed(t) /\ t # sleeper => left[t] = 0

IInv == TypeOK /\ BootInv /\ RingInv /\ MapInv /\ LoopInv /\ QueueInv

-----------------------------------------------------------------------------
(* The kernel implements the gates: the threads that the tick's loop has   *)
(* still to release count as released when the tick happens.               *)
Expiring == IF op = "expire" THEN {t \in Thread : Timed(t) /\ left[t] = 0} ELSE {}

GateView == INSTANCE Gates WITH
    waiting <- {t \in Thread : gate[t] = THREAD_WAITING} \ Expiring,
    saved   <- [t \in Thread |-> IF gate[t] > 0 THEN gate[t] ELSE 0],
    Own     <- Garbage,
    result  <- [t \in Thread |-> IF t \in Expiring THEN -1 ELSE x0[t]]

(* handle_svc_gate keeps the promise of its comment, whatever else runs:   *)
(* no wake is lost, no wait ends early, late or with the wrong result.     *)
GatesImplemented == GateView!GateSpec
=============================================================================
