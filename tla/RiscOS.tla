------------------------------- MODULE RiscOS -------------------------------
(***************************************************************************)
(* The driver that runs RISC OS in a virtual machine (drivers/riscos.c):   *)
(* the thread that runs the guest and emulates its devices, the thread     *)
(* that is the SD card (sdcard), and the one that raises a virtual         *)
(* interrupt from time to time (ticker_thread), on top of module Partners. *)
(*                                                                         *)
(* vm_lock is held while the guest runs and while its trap is handled,     *)
(* emmc_state_lock and then irq_lock by an access to the SD controller.    *)
(* A thread runs until it waits, yields, passes a lock on or is            *)
(* interrupted, which it may be between any two steps.                     *)
(*                                                                         *)
(* Of the guest's state there are one register, its pc and one system      *)
(* register.  Emulated registers that only store what is written to them   *)
(* have no contents here: a read returns any value.                        *)
(***************************************************************************)
EXTENDS Partners

CONSTANTS Sdcard, Ticker,   \* the threads that riscos.c creates
          Uses, Value       \* the traps and values that the guest uses

ASSUME RiscOSAssumption ==
    /\ Thread = {Idle, InterruptThread, Vm, Guest, Sdcard, Ticker}
    /\ Idle \notin {InterruptThread, Vm, Guest, Sdcard, Ticker}
    /\ InterruptThread \notin {Vm, Guest, Sdcard, Ticker}
    /\ Vm \notin {Guest, Sdcard, Ticker} /\ Guest \notin {Sdcard, Ticker} /\ Sdcard # Ticker
    /\ NULL \notin Thread
    /\ Value \subseteq {0, 1}

VARIABLES
    pc,             \* of each secure thread
    next_pc,        \* where Vm lets the guest continue; 0 while it runs
    lock,           \* vm_lock, emmc_state_lock and irq_lock
    sdcard_thread, ticker_thread_running,
    emmc_state,     \* CMDTM, and bit 0 of STATUS, INTERRUPT and IRPT_MASK
    irq_details,    \* interrupt 62
    irq_active,
    waiting         \* waiting_for_interrupt or waiting_for_event

threads == <<sdcard_thread, ticker_thread_running, next_pc, waiting>>
devices == <<emmc_state, irq_details, irq_active>>
kernel  == <<ring, runnable, gate, sleeping>>
vars == <<pc, lock, threads, devices, kernel, partner, world, guest, stopped>>

(* entry: the traps RISC OS runs with; bits that stand for the others of   *)
(* the constant, of which the last is out of reach of a uint32_t.          *)
HCR2 == {4, 13, 34}

StatusIdle == 2     \* what a read of STATUS returns, which no other
StatusBusy == 3     \* register holds

(* Why the guest traps: what vm_handler and what it calls tell apart.  An  *)
(* ack is an early one if the guest had no virtual interrupt.              *)
EmmcAccess  == {"read", "write", "status", "cmd7", "cmd", "clear", "mask"}
IrqAccess   == {"enable", "disable", "pending"}
OtherDevice == {"mailbox read", "mailbox write", "timer", "timer control", "bsc"}
Cp15        == {"cp15 read", "cp15 write"}
Emulated    == EmmcAccess \union IrqAccess \union OtherDevice \union Cp15

Init ==
    /\ PartnersInit(InsertBefore(SelfLinked, Vm, Idle))
    /\ pc = [t \in Thread |-> IF t = Vm THEN "make_partner" ELSE "start"]
    /\ next_pc = 0
    /\ lock = [l \in {"vm", "emmc", "irq"} |-> Unlocked]
    /\ sdcard_thread = NULL /\ ticker_thread_running = FALSE
    /\ emmc_state = [CMDTM |-> "none", inhibit |-> FALSE, done |-> FALSE, mask |-> 0]
    /\ irq_details = [pending |-> FALSE, enabled |-> FALSE]
    /\ irq_active = FALSE /\ waiting = FALSE

-----------------------------------------------------------------------------
(* What the steps of the threads have in common. *)

Step(t, from, to) ==
    /\ stopped = NULL
    /\ runnable = t
    /\ pc[t] = from
    /\ pc' = [pc EXCEPT ![t] = to]

(* BRK, or a system call that the kernel does not know. *)
Stop(t, from, why) ==
    /\ stopped = NULL
    /\ runnable = t
    /\ pc[t] = from
    /\ stopped' = why
    /\ UNCHANGED <<pc, lock, threads, devices, kernel, partner, world, guest>>

(* A step without a system call. *)
Local(t, from, to) ==
    Step(t, from, to) /\ UNCHANGED <<lock, kernel, partner, world, guest, stopped>>

Yields(t, from, to) ==
    /\ Step(t, from, to)
    /\ Yield(t)
    /\ UNCHANGED <<lock, threads, devices, gate, sleeping, partner, stopped>>

Waits(t, from, timed, to) ==
    /\ Step(t, from, to)
    /\ Block(t, timed) \/ Pass(t)
    /\ UNCHANGED <<lock, devices, partner, stopped>>

Claims(t, l, from, to) ==
    /\ Step(t, from, to)
    /\ lock' = [lock EXCEPT ![l] = Claim(lock[l], t)]
    /\ ClaimRuns(lock[l], t)
    /\ UNCHANGED <<threads, devices, gate, sleeping, partner, stopped>>

Releases(t, l, from, to) ==
    /\ Step(t, from, to)
    /\ lock' = [lock EXCEPT ![l] = Release(lock[l])]
    /\ ReleaseRuns(lock[l])
    /\ UNCHANGED <<threads, devices, gate, sleeping, partner, stopped>>

Creates(t, from, to) ==
    /\ Step(Vm, from, to)
    /\ CreateThread(t)
    /\ UNCHANGED <<lock, threads, devices, gate, sleeping, partner, stopped>>

(* A system call of Vm about its partner, which changes only the guest. *)
Calls(from, to) ==
    /\ Step(Vm, from, to)
    /\ UNCHANGED <<lock, kernel, partner, world, elr_el2, esr_el2, trap, stopped>>

(* update_virtual_irq with new details, in the middle of a step from a pc  *)
(* to the next: system calls 8 and 9 do not exist.                         *)
UpdateVirtualIrq(t, from, to, details) ==
    LET irq_now == details.pending /\ details.enabled
    IN  IF irq_now # irq_active
          THEN Stop(t, from, "svc")
          ELSE /\ Step(t, from, to)
               /\ irq_details' = details
               /\ irq_active' = irq_now
               /\ UNCHANGED <<lock, threads, emmc_state, kernel, partner, world,
                              guest, stopped>>

(* The condition on which an SD interrupt is pending. *)
Pending(e) == e.done /\ e.mask = 1

-----------------------------------------------------------------------------
(* entry *)

MakePartnerThread ==
    /\ Step(Vm, "make_partner", "registers")
    /\ MakePartner
    /\ UNCHANGED <<lock, threads, devices, kernel, world, elr_el2, esr_el2, trap, stopped>>

SetRegisters ==
    /\ Calls("registers", "create_sdcard")
    /\ ChangeHcr(HCR2, {})
    /\ UNCHANGED <<threads, devices, context>>

CreateSdcard == Creates(Sdcard, "create_sdcard", "sdcard?")

AwaitSdcard ==
    IF sdcard_thread = NULL
      THEN Yields(Vm, "sdcard?", "sdcard?")
      ELSE Local(Vm, "sdcard?", "create_ticker") /\ UNCHANGED <<threads, devices>>

CreateTicker == Creates(Ticker, "create_ticker", "ticker?")

AwaitTicker ==
    IF ~ticker_thread_running
      THEN Yields(Vm, "ticker?", "ticker?")
      ELSE Local(Vm, "ticker?", "claim vm") /\ UNCHANGED <<threads, devices>>

(* The loop. *)
ClaimVm == Claims(Vm, "vm", "claim vm", "switch")

RunGuest ==
    /\ Step(Vm, "switch", "handler")
    /\ SwitchToGuest(next_pc)
    /\ next_pc' = 0
    /\ UNCHANGED <<lock, sdcard_thread, ticker_thread_running, waiting, devices, gate,
                   sleeping, partner, stopped>>

ReleaseVm == Releases(Vm, "vm", "release vm", "waiting?")

(* Nobody calls wake_thread for Vm: a guest that has executed WFI or WFE   *)
(* does not run again, and waiting is not reset.                           *)
WaitForEvent ==
    IF waiting
      THEN Waits(Vm, "waiting?", FALSE, "woken") /\ UNCHANGED threads
      ELSE Yields(Vm, "waiting?", "claim vm")

Entry ==
    \/ MakePartnerThread \/ SetRegisters \/ CreateSdcard \/ AwaitSdcard
    \/ CreateTicker \/ AwaitTicker
    \/ ClaimVm \/ RunGuest \/ ReleaseVm \/ WaitForEvent

-----------------------------------------------------------------------------
(* vm_handler.  What the guest gave or gets is in its register. *)

NextPc == IF trap.esr \in Emulated THEN (trap.pc + 1) % 2 ELSE trap.pc

(* stage2_data_abort: the device, by the address. *)
Device(esr) ==
    CASE esr \in EmmcAccess -> "claim emmc"
      [] esr \in IrqAccess  -> "claim irq"
      [] esr \in {"mailbox read", "mailbox write"} -> "mailbox"
      [] esr \in {"timer", "timer control"} -> "timer"
      [] OTHER -> "bsc"

Handle ==
    /\ next_pc' = NextPc
    /\ waiting' = (waiting \/ trap.esr = "wfi")
    /\ Local(Vm, "handler",
             CASE trap.esr \in Cp15 -> "cp15"
               [] trap.esr \in {"ack", "early ack"} -> "ack"
               [] trap.esr \in {"wfi", "hvc"} -> "release vm"
               [] trap.esr = "bad" -> "bad"
               [] OTHER -> Device(trap.esr))
    /\ UNCHANGED <<sdcard_thread, ticker_thread_running, devices>>

Bad == Stop(Vm, "bad", "guest")

(* hvc32 *)
Acknowledge ==
    /\ Calls("ack", "release vm")
    /\ ChangeHcr({}, (0 .. 63) \ {VI})
    /\ UNCHANGED <<threads, devices, context>>

Cp15Access ==
    /\ Calls("cp15", "release vm")
    /\ IF trap.esr = "cp15 write"
         THEN vm_state' = [vm_state EXCEPT !.el1 = PartnerReg] /\ UNCHANGED context
         ELSE SetPartnerReg(vm_state.el1) /\ UNCHANGED vm_state
    /\ UNCHANGED <<threads, devices>>

(* What a read of a register that only stores returns. *)
Returns(from, to) ==
    /\ Calls(from, to)
    /\ \E v \in Value : SetPartnerReg(v)
    /\ UNCHANGED <<threads, devices, vm_state>>

Mailbox ==
    IF trap.esr = "mailbox read"
      THEN Returns("mailbox", "release vm")
      ELSE Local(Vm, "mailbox", "tags") /\ UNCHANGED <<threads, devices>>

(* Every tag is answered in the guest's memory, unless it is unknown. *)
RespondToTagRequest ==
    \/ Local(Vm, "tags", "release vm") /\ UNCHANGED <<threads, devices>>
    \/ Stop(Vm, "tags", "guest")

(* A write to the control register ends in a loop. *)
SystemTimer ==
    IF trap.esr = "timer"
      THEN Returns("timer", "release vm")
      ELSE Local(Vm, "timer", "for ever") /\ UNCHANGED <<threads, devices>>

Bsc == Returns("bsc", "release vm")

(* bcm_2835_emmc_access, from the lock on. *)
ClaimEmmc == Claims(Vm, "emmc", "claim emmc", "emmc")

ReadEmmc ==
    \/ trap.esr = "read" /\ Returns("emmc", "release emmc")
    \/ /\ trap.esr = "status"
       /\ Calls("emmc", "release emmc")
       /\ SetPartnerReg(IF emmc_state.inhibit THEN StatusBusy ELSE StatusIdle)
       /\ UNCHANGED <<threads, devices, vm_state>>

Started(e) == [e EXCEPT !.CMDTM = trap.esr, !.inhibit = TRUE]

WriteEmmc ==
    LET e == CASE trap.esr = "write" -> emmc_state
               [] trap.esr = "clear" -> [emmc_state EXCEPT !.done = @ /\ PartnerReg = 0]
               [] trap.esr = "mask"  -> [emmc_state EXCEPT !.mask = PartnerReg]
               [] OTHER -> Started(emmc_state)
    IN  /\ trap.esr \in EmmcAccess \ {"read", "status"}
        /\ emmc_state' = e
        /\ Local(Vm, "emmc", CASE trap.esr \in {"cmd7", "cmd"} -> "wake"
                               [] trap.esr = "clear" /\ ~Pending(e) -> "claim irq"
                               [] trap.esr = "mask" /\ Pending(e) -> "claim irq"
                               [] OTHER -> "release emmc")
        /\ UNCHANGED <<threads, irq_details, irq_active>>

WakeSdcard ==
    /\ Step(Vm, "wake", "yield")
    /\ Wake(sdcard_thread, Vm)
    /\ UNCHANGED <<lock, threads, devices, runnable, partner, world, guest, stopped>>

YieldToSdcard == Yields(Vm, "yield", "release emmc")

MutantReleaseEmmc ==
    IF trap.esr = "cmd7"
      THEN Local(Vm, "release emmc", "release vm") /\ UNCHANGED <<threads, devices>>
      ELSE Releases(Vm, "emmc", "release emmc", "release vm")

ReleaseEmmc == Releases(Vm, "emmc", "release emmc", "release vm")

(* bcm_2835_irq_registers_access, trigger_irq and clear_irq. *)
ClaimIrq == Claims(Vm, "irq", "claim irq", "irq")

ReadIrq ==
    /\ trap.esr = "pending"
    /\ Calls("irq", "release irq")
    /\ SetPartnerReg(IF irq_details.pending /\ irq_details.enabled THEN 1 ELSE 0)
    /\ UNCHANGED <<threads, devices, vm_state>>

WriteIrq ==
    /\ trap.esr # "pending"
    /\ UpdateVirtualIrq(Vm, "irq", "release irq",
           CASE trap.esr = "enable"  -> [irq_details EXCEPT !.enabled = TRUE]
             [] trap.esr = "disable" -> [irq_details EXCEPT !.enabled = FALSE]
             [] trap.esr = "clear"   -> [irq_details EXCEPT !.pending = FALSE]
             [] OTHER                -> [irq_details EXCEPT !.pending = TRUE])

ReleaseIrq ==
    Releases(Vm, "irq", "release irq",
             IF trap.esr \in EmmcAccess THEN "release emmc" ELSE "release vm")

VmHandler ==
    \/ Handle \/ Bad \/ Acknowledge \/ Cp15Access
    \/ Mailbox \/ RespondToTagRequest \/ SystemTimer \/ Bsc
    \/ ClaimEmmc \/ ReadEmmc \/ WriteEmmc \/ WakeSdcard \/ YieldToSdcard \/ ReleaseEmmc
    \/ ClaimIrq \/ ReadIrq \/ WriteIrq \/ ReleaseIrq

-----------------------------------------------------------------------------
(* sdcard *)

SdcardStarts ==
    /\ Local(Sdcard, "start", "wait")
    /\ sdcard_thread' = Sdcard
    /\ UNCHANGED <<ticker_thread_running, next_pc, waiting, devices>>

SdcardWaits == Waits(Sdcard, "wait", FALSE, "command") /\ UNCHANGED threads

SdcardLooks ==
    IF emmc_state.CMDTM = "cmd7"
      THEN Local(Sdcard, "command", "sleep") /\ UNCHANGED <<threads, devices>>
      ELSE Stop(Sdcard, "command", "guest")

SdcardSleeps == Waits(Sdcard, "sleep", TRUE, "claim emmc") /\ UNCHANGED threads

SdcardClaims == Claims(Sdcard, "emmc", "claim emmc", "complete")

Complete ==
    LET e == [emmc_state EXCEPT !.inhibit = FALSE, !.done = TRUE]
    IN  /\ emmc_state' = e
        /\ Local(Sdcard, "complete", IF Pending(e) THEN "claim irq" ELSE "release emmc")
        /\ UNCHANGED <<threads, irq_details, irq_active>>

TriggerIrq ==
    \/ Claims(Sdcard, "irq", "claim irq", "irq")
    \/ UpdateVirtualIrq(Sdcard, "irq", "release irq", [irq_details EXCEPT !.pending = TRUE])
    \/ Releases(Sdcard, "irq", "release irq", "release emmc")

SdcardReleases == Releases(Sdcard, "emmc", "release emmc", "wait")

SdcardThread ==
    \/ SdcardStarts \/ SdcardWaits \/ SdcardLooks \/ SdcardSleeps
    \/ SdcardClaims \/ Complete \/ TriggerIrq \/ SdcardReleases

-----------------------------------------------------------------------------
(* ticker_thread *)

TickerStarts ==
    /\ Local(Ticker, "start", "sleep")
    /\ ticker_thread_running' = TRUE
    /\ UNCHANGED <<sdcard_thread, next_pc, waiting, devices>>

TickerSleeps == Waits(Ticker, "sleep", TRUE, "claim vm") /\ UNCHANGED threads

MutantTickerClaims == Local(Ticker, "claim vm", "raise") /\ UNCHANGED <<threads, devices>>

TickerClaims == Claims(Ticker, "vm", "claim vm", "raise")

MutantRaised == Changed({}, (0 .. 63) \ {VI})

Raised == Changed({VI}, (0 .. 63) \ {VI})

RaiseVirtualInterrupt ==
    /\ Step(Ticker, "raise", "release vm")
    /\ vm_state' = [vm_state EXCEPT !.hcr = Raised]
    /\ UNCHANGED <<lock, threads, devices, kernel, partner, world, context, elr_el2,
                   esr_el2, trap, stopped>>

TickerReleases == Releases(Ticker, "vm", "release vm", "sleep")

TickerThread ==
    TickerStarts \/ TickerSleeps \/ TickerClaims \/ RaiseVirtualInterrupt \/ TickerReleases

-----------------------------------------------------------------------------
(* The kernel's own threads, and the guest *)

rest == <<pc, lock, threads, devices, partner, stopped>>

Irq ==
    /\ stopped = NULL
    /\ runnable # InterruptThread
    /\ InterruptTaken
    /\ UNCHANGED <<gate, sleeping, rest>>

Expire(t) ==
    /\ stopped = NULL
    /\ runnable = InterruptThread
    /\ Expired(t)
    /\ UNCHANGED <<runnable, world, guest, rest>>

IrqDone ==
    /\ stopped = NULL
    /\ runnable = InterruptThread
    /\ ring' = Remove(ring, InterruptThread)
    /\ Run(ring.next[InterruptThread])
    /\ UNCHANGED <<gate, sleeping, rest>>

IdleThread ==
    /\ stopped = NULL
    /\ runnable = Idle
    /\ Yield(Idle)
    /\ UNCHANGED <<gate, sleeping, rest>>

(* The guest, which waits for CMD_INHIBIT before it writes a command, and  *)
(* does not write to STATUS, uses its registers and traps.                 *)
GuestRuns == stopped = NULL /\ runnable = Guest /\ cpu.mode = "guest"

Compute ==
    /\ GuestRuns
    /\ \E v \in Value :
         \/ cpu' = [cpu EXCEPT !.reg = v] /\ UNCHANGED sys
         \/ sys' = [sys EXCEPT !.el1 = v] /\ UNCHANGED cpu
    /\ UNCHANGED <<kernel, ns, guest, rest>>

Traps ==
    {"wfi", "hvc", "bad"}
    \union (Emulated \ {"write", "clear", "mask", "cp15 write", "cmd7", "cmd"})
    \union (IF cpu.reg \in Value THEN {"write", "clear", "mask", "cp15 write"} ELSE {})
    \union (IF cpu.reg = StatusIdle THEN {"cmd7", "cmd"} ELSE {})
    \union {IF VI \in sys.hcr THEN "ack" ELSE "early ack"}

GuestTraps ==
    /\ GuestRuns
    /\ \E why \in Traps \intersect Uses : TrapToEL2(why, IF why \in {"cmd7", "cmd"} THEN 0 ELSE cpu.reg)
    /\ UNCHANGED <<kernel, ns, sys, vm_state, context, trap, rest>>

EL2 ==
    /\ stopped = NULL
    /\ runnable = Guest
    /\ \/ /\ StoreTrap
          /\ UNCHANGED <<ring, runnable, ns, sys, vm_state, context, elr_el2, esr_el2>>
       \/ SwitchToSecure
    /\ UNCHANGED <<gate, sleeping, rest>>

Halted == stopped # NULL /\ UNCHANGED vars

Next ==
    \/ Entry \/ VmHandler \/ SdcardThread \/ TickerThread \/ IdleThread
    \/ Irq \/ IrqDone \/ \E t \in Thread : Expire(t)
    \/ Compute \/ GuestTraps \/ EL2
    \/ Halted

Spec == Init /\ [][Next]_vars

(* The timer's interrupt keeps coming, but not so fast that no thread ever *)
(* gets to its next instruction; a timeout that has begun comes to its     *)
(* end.  Nothing is assumed of the guest.                                  *)
Fairness ==
    /\ WF_vars(Irq) /\ WF_vars(IrqDone)
    /\ SF_vars(IdleThread) /\ SF_vars(EL2)
    /\ SF_vars(Entry \/ VmHandler) /\ SF_vars(SdcardThread) /\ SF_vars(TickerThread)
    /\ SF_vars(Expire(Sdcard)) /\ SF_vars(Expire(Ticker))

FairSpec == Spec /\ Fairness

-----------------------------------------------------------------------------
Locks == {"vm", "emmc", "irq"}
InQueue(t, l) == \E i \in DOMAIN lock[l].queue : lock[l].queue[i] = t
Blocked(t) == gate[t] = -1 \/ \E l \in Locks : InQueue(t, l)

(* Every variable has its type; no lock's queue has a thread twice, and at *)
(* most one wake is saved up at a gate.                                    *)
TypeOK ==
    /\ ring \in Ring /\ runnable \in Thread /\ partner \in {NULL, Guest}
    /\ gate \in [Thread -> -1 .. 1]
    /\ sleeping \subseteq {t \in Thread : gate[t] = -1}
    /\ \A l \in Locks : /\ lock[l].owner \in {NULL, Vm, Sdcard, Ticker}
                        /\ Len(lock[l].queue) <= 1
    /\ vm_state.hcr \subseteq 0 .. 63 /\ vm_state.el1 \in 0 .. 3
    /\ ns \in BOOLEAN /\ irq_active \in BOOLEAN /\ waiting \in BOOLEAN
    /\ {context.pc, elr_el2, trap.pc, next_pc} \subseteq {0, 1}
    /\ stopped \in {NULL, "guest", "svc"}

(* The ring of threads that can run is what SWITCH_TO_PARTNER, which edits *)
(* the links itself, must leave it: well linked and in one piece, with     *)
(* every thread that is neither blocked nor unborn, and of Vm and its      *)
(* partner only one.  Every variable has its type.                         *)
RingRight ==
    LET r    == {runnable} \union {t \in Thread : ~Alone(ring, t)}
        born == {Sdcard, Ticker} \ {t \in Thread : pc[t] = "start" /\ Alone(ring, t)}
    IN  /\ TypeOK
        /\ WellLinked(ring)
        /\ \A Q \in SUBSET r : Q # {} /\ Closed(ring, Q) => Q = r
        /\ Idle \in r
        /\ \A t \in born : t \in r <=> ~Blocked(t)
        /\ InterruptThread \in r <=> runnable = InterruptThread
        /\ Vm \in r \/ Guest \in r <=> ~Blocked(Vm)
        /\ ~(Vm \in r /\ Guest \in r)

(* The core is in the non-secure world, with the guest's system registers, *)
(* exactly while the guest (or EL2 on its behalf) runs, however often it   *)
(* is interrupted there: every toggle of the world in EL3 is matched.      *)
WorldRight ==
    /\ ns <=> runnable = Guest
    /\ ns <=> sys # SecureRegs
    /\ ns <=> cpu.mode # "none"

(* When vm_handler is called, its arguments are those of the trap that     *)
(* ended this run of the guest, and GET_PARTNER_REG and SET_PARTNER_REG    *)
(* find the guest's registers: EL2 may have been interrupted between its   *)
(* stores and the switch.                                                  *)
HandlerSeesTrap ==
    pc[Vm] = "handler" /\ Alone(ring, Guest)
    => /\ trap = [pc |-> context.pc, esr |-> esr_el2]
       /\ context.mode = "guest"
       /\ lock["vm"].owner = Vm

(* The bits of HCR_EL2, but for the virtual interrupt, that the guest runs *)
(* with, or will when it runs next.                                        *)
GuestHcr == (IF ns THEN sys.hcr ELSE vm_state.hcr) \ {VI}

(* The traps that entry's call has left in HCR_EL2 are those that the guest*)
(* runs with ever after, whatever ticker_thread and hvc32 do to the same   *)
(* register by reading and writing it, and wherever an interrupt leaves it:*)
(* only the virtual interrupt comes and goes.  They are not all that entry *)
(* asks for (riscos.c:1402): the kernel has lost bits 34 to 36 in the      *)
(* uint32_t of svc_handling.h:640 before there is anything to keep.        *)
TrapsKept ==
    [][pc[Vm] \notin {"make_partner", "registers"} => GuestHcr' = GuestHcr]_vars

(* Nobody but the guest itself, and vm_handler on its behalf, changes what *)
(* the guest sees of its registers: not an interrupt in the guest or in    *)
(* EL2, not a switch of the world, not another thread.                     *)
GuestState ==
    IF ns THEN <<sys.el1, IF cpu.mode = "guest" THEN cpu.pc ELSE elr_el2, cpu.reg>>
          ELSE <<vm_state.el1, IF context.mode = "guest" THEN context.pc ELSE elr_el2,
                 context.reg>>

GuestStateKept ==
    [][(GuestState' # GuestState)
       => ((runnable = Guest /\ runnable' = Guest) \/ runnable = Vm)]_vars

(* A virtual interrupt goes away only when a guest that had seen it        *)
(* acknowledges it: one that is raised between the trap and hvc32 would be *)
(* lost, and vm_lock is held to prevent that.                              *)
NoTickLost ==
    [][(VI \in vm_state.hcr /\ VI \notin vm_state'.hcr) => trap.esr = "ack"]_vars

(* A command to the card ends, though the guest may never trap again, and  *)
(* though Vm yields with emmc_state_lock claimed; unless the machine has   *)
(* stopped.                                                                *)
CommandEnds == emmc_state.inhibit ~> (~emmc_state.inhibit \/ stopped # NULL)

(* A tick reaches the guest if that keeps trapping: the ticker waits for   *)
(* vm_lock, which Vm claims again after each trap.                         *)
TickRaised ==
    []<>(pc[Vm] = "waiting?")
    => (pc[Ticker] = "raise" ~> (VI \in vm_state.hcr \/ stopped # NULL))
=============================================================================
