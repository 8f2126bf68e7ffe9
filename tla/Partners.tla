------------------------------ MODULE Partners ------------------------------
(***************************************************************************)
(* Partner threads: how the kernel runs a virtual machine as one of its    *)
(* threads, on one core.  A secure thread (Vm) and its partner (Guest)     *)
(* share one place in the ring of runnable threads; whichever of them has  *)
(* it can run.  SWITCH_TO_PARTNER (svc_handling.h) exchanges them.  Only   *)
(* the guest runs in the non-secure world, so every thread switch to or    *)
(* from it passes through EL3 (el3_virtual_machines.c), which exchanges    *)
(* the system registers and the security state.                            *)
(*                                                                         *)
(* What the guest may not do itself traps to EL2.  The handler there puts  *)
(* the details into the registers of the secure partner and asks EL3 for   *)
(* the switch.  Interrupts are routed to EL3 even then: they may come      *)
(* between any two steps of EL2, and EL2 is resumed like the guest.        *)
(* EL3 and secure EL1 run with interrupts masked and are part of one step. *)
(*                                                                         *)
(* This module has the state of that layer and what each operation does    *)
(* to it; module RiscOS has the threads that use it.                       *)
(***************************************************************************)
EXTENDS Integers, Sequences, Rings

CONSTANTS Idle, InterruptThread,
          Vm, Guest,  \* the secure thread of the virtual machine, its partner
          NULL

VARIABLES
    ring, runnable,   \* the links of all threads, the head of those that can run
    gate,             \* of each thread: -1 waiting, else wakes saved up
    sleeping,         \* the threads that wait with a timeout
    partner,          \* thread->partner of Vm, or NULL
    ns,               \* SCR_EL3.NS: the core is in the non-secure world
    sys,              \* the system registers of the core
    vm_state,         \* those saved behind the guest's thread_context
    cpu,              \* mode, pc and a register while the guest or EL2 runs
    context,          \* those saved in the guest's thread_context
    elr_el2, esr_el2, \* where and why the guest trapped
    trap,             \* the first two registers of Vm's thread_context
    stopped           \* why the machine has stopped, or NULL

world == <<ns, sys, cpu>>
guest == <<vm_state, context, elr_el2, esr_el2, trap>>

(* LOAD_SECURE_EL1_REGS: what the core has in the secure world. *)
SecureRegs == [el1 |-> -1, hcr |-> {}]

(* Nothing that counts: the guest does not run, or has not trapped. *)
NoCpu  == [mode |-> "none", pc |-> 0, reg |-> 0]
NoTrap == [pc |-> 0, esr |-> "none"]

VI == 7             \* HCR_EL2: a virtual interrupt is pending
Word == 0 .. 31     \* the bits of a uint32_t

PartnersInit(ready) ==
    /\ ring = ready /\ runnable = Vm
    /\ gate = [t \in Thread |-> 0]
    /\ sleeping = {}
    /\ partner = NULL
    /\ ns = FALSE /\ sys = SecureRegs
    /\ vm_state = [el1 |-> 0, hcr |-> {}]
    /\ cpu = NoCpu /\ context = NoCpu
    /\ elr_el2 = 0 /\ esr_el2 = "none" /\ trap = NoTrap
    /\ stopped = NULL

-----------------------------------------------------------------------------
(* Entering a thread *)

(* The test of spsr in el1_enter_thread: AArch32, or EL2 that was          *)
(* interrupted.                                                            *)
MutantIsNonSecure(c) == c.mode = "guest"

IsNonSecure(c) == c.mode \in {"guest", "el2", "el2 stored"}

(* el1_enter_thread( t ); for a non-secure thread, smc 0 and in_el3, which *)
(* toggles the world, and LOAD_VM_SYSTEM_REGS.                             *)
Enter(t) ==
    /\ runnable' = t
    /\ IF t = Guest /\ IsNonSecure(context')
         THEN ns' = ~ns /\ sys' = vm_state' /\ cpu' = context'
         ELSE UNCHANGED world

(* A switch between secure threads, or to the guest, that leaves the       *)
(* guest's own state alone.                                                *)
Run(t) == UNCHANGED guest /\ Enter(t)

(* restore_secure_system_regs and the toggle of the world: from the guest  *)
(* or EL2 to secure EL1, which stores c in the context of the guest.       *)
MutantLeave(c) ==
    /\ context' = c
    /\ ns' = ~ns
    /\ sys' = SecureRegs
    /\ cpu' = NoCpu
    /\ UNCHANGED vm_state

Leave(c) ==
    /\ context' = c
    /\ ns' = ~ns
    /\ vm_state' = sys /\ sys' = SecureRegs
    /\ cpu' = NoCpu

-----------------------------------------------------------------------------
(* System calls *)

(* The assignments of SWITCH_TO_PARTNER, in their order. *)
MutantExchanged(r, t, p) ==
    [next |-> [r.next EXCEPT ![p] = r.next[t], ![r.prev[t]] = p, ![t] = t],
     prev |-> [r.prev EXCEPT ![p] = r.prev[t], ![t] = t]]

Exchanged(r, t, p) ==
    LET n1 == [r.next EXCEPT ![p] = r.next[t]]
        p1 == [r.prev EXCEPT ![p] = r.prev[t]]
        p2 == [p1 EXCEPT ![n1[t]] = p]
        n2 == [n1 EXCEPT ![p2[t]] = p]
    IN  [next |-> [n2 EXCEPT ![t] = t], prev |-> [p2 EXCEPT ![t] = t]]

(* Thread_Make_Partner *)
MakePartner ==
    /\ partner' = Guest
    /\ vm_state' = [el1 |-> 0, hcr |-> {}]
    /\ context' = [mode |-> "guest", pc |-> 0, reg |-> 0]

(* By Vm, which gives the guest's pc; its own registers are stored over    *)
(* what the last trap left there.                                          *)
SwitchToGuest(next_pc) ==
    /\ ring' = Exchanged(ring, Vm, partner)
    /\ context' = [context EXCEPT !.pc = next_pc]
    /\ elr_el2' = 0 /\ esr_el2' = "none" /\ trap' = NoTrap
    /\ UNCHANGED vm_state
    /\ Enter(partner)

(* CHANGE_VM_SYSTEM_REGISTER for HCR_EL2, on bits: the new value is kept *)
(* in 32 bits.  bits and mask are regs[2] and regs[3] of the caller.       *)
MutantChanged(bits, mask) == bits

Changed(bits, mask) ==
    LET old == vm_state.hcr \intersect mask
    IN  ((bits \ old) \union (old \ bits)) \intersect Word

ChangeHcr(bits, mask) ==
    vm_state' = [vm_state EXCEPT !.hcr = Changed(bits, mask)]

(* GET_PARTNER_REG and SET_PARTNER_REG *)
PartnerReg == context.reg

SetPartnerReg(v) == context' = [context EXCEPT !.reg = v]

(* ISAMBARD_YIELD *)
Yield(t) == Run(ring.next[t]) /\ UNCHANGED ring

(* A wait that blocks, without and with a timeout, and one that does not. *)
Block(t, timed) ==
    /\ gate[t] = 0
    /\ gate' = [gate EXCEPT ![t] = -1]
    /\ sleeping' = IF timed THEN sleeping \union {t} ELSE sleeping
    /\ ring' = Remove(ring, t)
    /\ Run(ring.next[t])

Pass(t) ==
    /\ gate[t] > 0
    /\ gate' = [gate EXCEPT ![t] = 0]
    /\ UNCHANGED <<ring, runnable, sleeping, world, guest>>

(* wake_thread( t ) by u *)
Wake(t, u) ==
    IF gate[t] = -1
      THEN /\ ring' = InsertAfter(ring, t, u)
           /\ gate' = [gate EXCEPT ![t] = 0]
           /\ sleeping' = sleeping \ {t}
      ELSE /\ gate' = [gate EXCEPT ![t] = @ + 1]
           /\ UNCHANGED <<ring, sleeping>>

(* create_thread: the new thread runs first. *)
CreateThread(t) ==
    /\ ring' = InsertBefore(ring, t, runnable)
    /\ Run(t)

(* claim_lock and release_lock: a lock is its owner and the threads that   *)
(* are blocked, in order; the first of them gets the lock and runs.        *)
Unlocked == [owner |-> NULL, queue |-> << >>]

Claim(lock, t) ==
    IF lock.owner = NULL THEN [lock EXCEPT !.owner = t]
                         ELSE [lock EXCEPT !.queue = Append(@, t)]

ClaimRuns(lock, t) ==
    IF lock.owner = NULL
      THEN UNCHANGED <<ring, runnable, world, guest>>
      ELSE ring' = Remove(ring, t) /\ Run(ring.next[t])

Release(lock) ==
    IF lock.queue = << >> THEN Unlocked
    ELSE [owner |-> Head(lock.queue), queue |-> Tail(lock.queue)]

ReleaseRuns(lock) ==
    IF lock.queue = << >>
      THEN UNCHANGED <<ring, runnable, world, guest>>
      ELSE ring' = InsertBefore(ring, Head(lock.queue), runnable) /\ Run(Head(lock.queue))

-----------------------------------------------------------------------------
(* Interrupts and traps *)

(* An interrupt: REDIRECT_INTERRUPT_TO_SECURE_EL1 in the non-secure world, *)
(* then the handler of secure EL1 in either.                               *)
InterruptTaken ==
    /\ ring' = InsertBefore(ring, InterruptThread, runnable)
    /\ runnable' = InterruptThread
    /\ IF ns THEN Leave(cpu) /\ UNCHANGED <<elr_el2, esr_el2, trap>>
             ELSE UNCHANGED <<world, guest>>

(* The interrupt thread finds that the time of t is over. *)
Expired(t) ==
    /\ t \in sleeping
    /\ ring' = InsertAfter(ring, t, InterruptThread)
    /\ gate' = [gate EXCEPT ![t] = 0]
    /\ sleeping' = sleeping \ {t}

(* The guest traps to EL2, with v in its register. *)
TrapToEL2(why, v) ==
    /\ elr_el2' = cpu.pc /\ esr_el2' = why
    /\ cpu' = [cpu EXCEPT !.mode = "el2", !.reg = v]

(* EL2 stores the details in the registers of the secure partner ... *)
MutantStoreTrap ==
    /\ cpu.mode = "el2"
    /\ cpu' = [cpu EXCEPT !.mode = "el2 stored"]
    /\ UNCHANGED trap

StoreTrap ==
    /\ cpu.mode = "el2"
    /\ trap' = [pc |-> elr_el2, esr |-> esr_el2]
    /\ cpu' = [cpu EXCEPT !.mode = "el2 stored"]

(* ... and has EL3 make a SWITCH_TO_PARTNER call of it. *)
SwitchToSecure ==
    /\ cpu.mode = "el2 stored"
    /\ Leave([cpu EXCEPT !.mode = "guest", !.pc = elr_el2])
    /\ ring' = Exchanged(ring, Guest, Vm)
    /\ runnable' = Vm
    /\ UNCHANGED <<elr_el2, esr_el2, trap>>
=============================================================================
