---------------------------- MODULE RiscOSProofs ----------------------------
(***************************************************************************)
(* The driver of the virtual machine and the kernel's partner threads, for *)
(* any use the guest makes of its devices.                                 *)
(***************************************************************************)
EXTENDS RiscOS, RingProofs

USE RiscOSAssumption

(* Where Vm is: before it creates the sdcard and the ticker, before its    *)
(* loop, outside vm_lock, in its other locks, and in vm_handler.           *)
NoSdcard == {"make_partner", "registers", "create_sdcard"}
NoTicker == NoSdcard \union {"sdcard?", "create_ticker"}
Outside  == NoTicker \union {"ticker?", "claim vm", "waiting?", "woken"}
InIrq    == {"irq", "release irq"}
InEmmc   == {"emmc", "wake", "yield", "release emmc"}
Handling == {"handler", "cp15", "ack", "bad", "mailbox", "tags", "timer", "for ever", "bsc",
             "claim emmc", "claim irq"} \union InEmmc \union InIrq

Modes == {"guest", "el2", "el2 stored"}
Why   == {"wfi", "hvc", "bad", "ack", "early ack"} \union Emulated

(* A thread at `at` that has claimed a lock and not yet released it, if Vm *)
(* handles the trap esr; and one that has just claimed it.                 *)
WantsAt(t, l, at, esr) ==
    \/ l = "vm" /\ t = Vm /\ at \notin Outside
    \/ l = "vm" /\ t = Ticker /\ at \in {"raise", "release vm"}
    \/ /\ l = "emmc" /\ t = Vm
       /\ \/ at \in InEmmc
          \/ at \in InIrq \union {"claim irq"} /\ esr \in EmmcAccess
    \/ l = "emmc" /\ t = Sdcard /\ at \in InIrq \union {"complete", "claim irq", "release emmc"}
    \/ l = "irq" /\ t \in {Vm, Sdcard} /\ at \in InIrq

ClaimedAt(t, l, at) ==
    \/ l = "vm" /\ at = (IF t = Vm THEN "switch" ELSE "raise")
    \/ l = "emmc" /\ at = (IF t = Vm THEN "emmc" ELSE "complete")
    \/ l = "irq" /\ at = "irq"

Wants(t, l) == WantsAt(t, l, pc[t], trap.esr)

Owner(l)  == lock[l].owner
Waiter(l) == IF lock[l].queue = << >> THEN NULL ELSE Head(lock[l].queue)

(* What a lock looks like with an owner and a waiter, either perhaps NULL. *)
Shape(o, w) == [owner |-> o, queue |-> IF w = NULL THEN << >> ELSE <<w>>]

LockInv ==
    /\ lock \in [Locks -> {Shape(o, w) : o \in Thread \union {NULL}, w \in Thread \union {NULL}}]
    /\ \A l \in Locks :
         /\ Waiter(l) # NULL => Owner(l) # NULL /\ Owner(l) # Waiter(l) /\ ClaimedAt(Waiter(l), l, pc[Waiter(l)])
         /\ \A t \in Thread : Wants(t, l) <=> t \in {Owner(l), Waiter(l)}

(* The links are one ring, S, with head at its head, and every other thread *)
(* is alone.                                                                *)
Runs(links, head, S) ==
    /\ links \in Ring /\ WellLinked(links) /\ head \in Thread
    /\ RingOf(links, head) = S
    /\ \A t \in Thread \ S : Alone(links, t)

Live == RingOf(ring, runnable)

Born(t) == pc[Vm] \notin (CASE t = Sdcard -> NoSdcard [] t = Ticker -> NoTicker [] OTHER -> {})

Able(t) == Born(t) /\ ~Blocked(t)

Members(S) ==
    /\ Idle \in S
    /\ InterruptThread \in S <=> runnable = InterruptThread
    /\ \A t \in {Sdcard, Ticker} : t \in S <=> Able(t)
    /\ (Vm \in S \/ Guest \in S) <=> Able(Vm)
    /\ ~(Vm \in S /\ Guest \in S)
    /\ Guest \in S => pc[Vm] = "handler"

RingInv == Runs(ring, runnable, Live) /\ Members(Live)

VmAt     == Outside \union Handling \union {"switch", "release vm"}
SdcardAt == {"start", "wait", "command", "sleep", "claim emmc", "complete", "claim irq",
             "release emmc"} \union InIrq
TickerAt == {"start", "sleep", "claim vm", "raise", "release vm"}

DataInv ==
    /\ ticker_thread_running \in BOOLEAN /\ waiting \in BOOLEAN
    /\ next_pc \in {0, 1}
    /\ irq_active \in BOOLEAN /\ stopped \in {NULL, "guest", "svc"}
    /\ \E c, i, d, m : emmc_state = [CMDTM |-> c, inhibit |-> i, done |-> d, mask |-> m]

PcInv ==
    /\ pc \in [Thread -> VmAt \union SdcardAt \union TickerAt]
    /\ pc[Vm] \in VmAt /\ pc[Sdcard] \in SdcardAt /\ pc[Ticker] \in TickerAt
    /\ ~Born(Sdcard) => pc[Sdcard] = "start"
    /\ ~Born(Ticker) => pc[Ticker] = "start"
    /\ sdcard_thread = IF pc[Sdcard] = "start" THEN NULL ELSE Sdcard
    /\ pc[Vm] \notin NoSdcard \union {"sdcard?"} => sdcard_thread = Sdcard
    /\ DataInv

Inhibited == emmc_state.inhibit = TRUE

(* A command is woken for exactly once: where Sdcard is and what its gate   *)
(* has, while there is a command that Vm has woken it for or not.           *)
Serves(at, n, busy) ==
    IF busy
      THEN \/ at = "wait" /\ n = 1
           \/ at \in {"command", "sleep", "complete"} /\ n = 0
           \/ at = "claim emmc"
      ELSE \/ at \in {"start", "wait", "claim irq", "release emmc"} \union InIrq /\ n = 0
           \/ at = "command" /\ n = -1

GateInv ==
    /\ gate \in [Thread -> -1 .. 1]
    /\ gate[Idle] = 0 /\ gate[InterruptThread] = 0 /\ gate[Guest] = 0
    /\ gate[Vm] = (IF pc[Vm] = "woken" THEN -1 ELSE 0)
    /\ gate[Ticker] \in {-1, 0} /\ (gate[Ticker] = -1 => pc[Ticker] = "claim vm")
    /\ sleeping \subseteq {t \in {Sdcard, Ticker} : gate[t] = -1}
    /\ Sdcard \in sleeping => pc[Sdcard] = "claim emmc"
    /\ gate[Sdcard] = -1 => pc[Sdcard] \in {"command", "claim emmc"}
    /\ gate[Sdcard] = 1 => pc[Sdcard] = "wait"
    /\ Serves(pc[Sdcard], gate[Sdcard], Inhibited /\ pc[Vm] # "wake")
    /\ pc[Vm] = "wake" => Inhibited

(* The registers of the guest, wherever they are. *)
Mode == IF ns THEN cpu.mode ELSE context.mode
Reg  == IF ns THEN cpu.reg ELSE context.reg

WorldInv ==
    /\ ns \in BOOLEAN
    /\ ns <=> runnable = Guest
    /\ IF ns THEN /\ cpu \in [mode : Modes, pc : {0, 1}, reg : 0 .. 3]
                  /\ sys \in [el1 : {0, 1}, hcr : SUBSET (0 .. 63)]
                  /\ sys.hcr = vm_state.hcr
             ELSE cpu = NoCpu /\ sys = SecureRegs
    /\ vm_state \in [el1 : {0, 1}, hcr : SUBSET (0 .. 63)]
    /\ context \in [mode : Modes \union {"none"}, pc : {0, 1}, reg : 0 .. 3]
    /\ partner = IF pc[Vm] = "make_partner" THEN NULL ELSE Guest
    /\ pc[Vm] # "make_partner" => context.mode # "none"
    /\ elr_el2 \in {0, 1} /\ esr_el2 \in Why \union {"none"}
    /\ trap \in [pc : {0, 1}, esr : Why \union {"none"}]

(* The traps that the guest runs with. *)
HcrInv ==
    IF pc[Vm] \in {"make_partner", "registers"}
      THEN vm_state.hcr = {}
      ELSE vm_state.hcr \ {VI} = HCR2 \intersect Word

(* The trap of the guest while EL2 has it ... *)
El2Inv ==
    /\ Reg = StatusIdle => ~Inhibited
    /\ Mode \in {"el2", "el2 stored"} =>
         /\ Guest \in Live
         /\ esr_el2 \in Why
         /\ esr_el2 = "early ack" => VI \notin vm_state.hcr
         /\ esr_el2 = "cp15 write" => Reg \in {0, 1}
         /\ esr_el2 \in {"cmd7", "cmd"} => ~Inhibited /\ Reg # StatusIdle
    /\ Mode = "el2 stored" => trap = [pc |-> elr_el2, esr |-> esr_el2]

(* ... and from then to the end of vm_handler. *)
HandlerAt(at) ==
    /\ at = "handler" =>
         /\ trap = [pc |-> elr_el2, esr |-> esr_el2] /\ context.pc = elr_el2
         /\ trap.esr \in Why
    /\ at \in {"handler", "ack"} /\ trap.esr = "early ack" => VI \notin vm_state.hcr
    /\ at \in {"handler", "cp15"} /\ trap.esr = "cp15 write" => Reg \in {0, 1}
    /\ at \in {"handler", "claim emmc", "emmc"} /\ trap.esr \in {"cmd7", "cmd"} =>
         ~Inhibited /\ Reg # StatusIdle
    /\ at \in {"claim emmc"} \union InEmmc => trap.esr \in EmmcAccess
    /\ at \in {"wake", "yield"} => trap.esr \in {"cmd7", "cmd"}
    /\ at = "ack" => trap.esr \in {"ack", "early ack"}
    /\ at \in {"claim irq"} \union InIrq => trap.esr \in IrqAccess \union {"clear", "mask"}

HandlerInv == HandlerAt(pc[Vm])

TrapInv == HcrInv /\ El2Inv /\ (Guest \notin Live => HandlerInv)

Inv == PcInv /\ LockInv /\ RingInv /\ GateInv /\ WorldInv /\ TrapInv


-----------------------------------------------------------------------------
(* Rings *)

(* A nonempty set that no link leaves, in the ring of a, is that ring. *)
LEMMA OnePiece ==
    ASSUME NEW links \in Ring, WellLinked(links), NEW a \in Thread,
           NEW Q \in SUBSET RingOf(links, a), Q # {}, Closed(links, Q)
    PROVE  Q = RingOf(links, a)
  <1>1. PICK u \in Q : TRUE
    OBVIOUS
  <1>2. u \in Thread /\ Q \subseteq Thread
    BY DEF RingOf
  <1>3. a \in Q
    <2>1. SUFFICES ASSUME a \notin Q PROVE FALSE
      OBVIOUS
    <2>2. Closed(links, Thread \ Q)
      <3>1. SUFFICES ASSUME NEW t \in Thread \ Q
                     PROVE  links.next[t] \in Thread \ Q /\ links.prev[t] \in Thread \ Q
        BY DEF Closed
      <3>2. /\ links.next[t] \in Thread /\ links.prev[t] \in Thread
            /\ links.prev[links.next[t]] = t /\ links.next[links.prev[t]] = t
        BY DEF Ring, WellLinked
      <3>3. QED
        BY <3>2 DEF Closed
    <2>3. a \in Thread \ Q
      BY <2>1
    <2>4. u \in Thread \ Q
      BY <2>2, <2>3 DEF RingOf
    <2>5. QED
      BY <2>4
  <1>4. \A v \in RingOf(links, a) : v \in Q
    BY <1>2, <1>3 DEF RingOf
  <1>5. QED
    BY <1>4

LEMMA RunsFacts ==
    ASSUME NEW links, NEW head, NEW S, Runs(links, head, S)
    PROVE  /\ links \in Ring /\ WellLinked(links) /\ head \in S /\ S \subseteq Thread
           /\ links.next[head] \in S /\ links.prev[head] \in S
           /\ \A t \in Thread \ S : Alone(links, t)
           /\ \A t \in S : links.next[t] \in S /\ links.prev[t] \in S
  <1>1. links \in Ring /\ head \in Thread /\ RingOf(links, head) = S
    BY DEF Runs
  <1>2. head \in S
    BY <1>1, SelfInRing
  <1>3. Closed(links, S)
    BY <1>1, RingClosed
  <1>4. S \subseteq Thread
    BY <1>1 DEF RingOf
  <1>5. QED
    BY <1>2, <1>3, <1>4 DEF Runs, Closed

(* The members of a ring with more than one are not alone. *)
LEMMA RunsNotAlone ==
    ASSUME NEW links, NEW head, NEW S, Runs(links, head, S), NEW t \in S, NEW u \in S, t # u
    PROVE  ~Alone(links, t) /\ links.next[t] # t
  <1>1. /\ links \in Ring /\ WellLinked(links) /\ S \subseteq Thread /\ head \in Thread
        /\ RingOf(links, head) = S
    BY RunsFacts DEF Runs
  <1>2. SUFFICES ASSUME links.next[t] = t PROVE FALSE
    BY DEF Alone
  <1>3. links.prev[t] = t
    BY <1>1, <1>2 DEF WellLinked
  <1>4. Closed(links, {t})
    BY <1>2, <1>3 DEF Closed
  <1>5. {t} = S
    BY <1>1, <1>4, OnePiece
  <1>6. QED
    BY <1>5

LEMMA RunsYield ==
    ASSUME NEW links, NEW head, NEW S, Runs(links, head, S)
    PROVE  Runs(links, links.next[head], S)
  <1>1. links.next[head] \in Thread
    BY RunsFacts
  <1>2. RingOf(links, links.next[head]) = S
    BY RingOfNext DEF Runs
  <1>3. QED
    BY <1>1, <1>2 DEF Runs

LEMMA RunsRemove ==
    ASSUME NEW links, NEW head, NEW S, Runs(links, head, S), S # {head}
    PROVE  /\ Runs(Remove(links, head), links.next[head], S \ {head})
           /\ links.next[head] \in S \ {head}
  <1>1. /\ links \in Ring /\ WellLinked(links) /\ head \in S /\ S \subseteq Thread
        /\ links.next[head] \in S
        /\ \A t \in Thread \ S : Alone(links, t)
        /\ RingOf(links, head) = S
    BY RunsFacts DEF Runs
  <1>2. links.next[head] # head
    <2>1. PICK u \in S : u # head
      BY <1>1
    <2>2. QED
      BY <1>1, <2>1, RunsNotAlone
  <1>3. /\ Remove(links, head) \in Ring /\ WellLinked(Remove(links, head))
        /\ Alone(Remove(links, head), head)
        /\ \A t \in Thread : Alone(links, t) => Alone(Remove(links, head), t)
        /\ RingOf(Remove(links, head), links.next[head]) = S \ {head}
    BY <1>1, <1>2, RemoveFromRing
  <1>4. QED
    BY <1>1, <1>2, <1>3 DEF Runs

LEMMA RunsInsertBefore ==
    ASSUME NEW links, NEW head, NEW S, Runs(links, head, S), NEW t \in Thread \ S
    PROVE  Runs(InsertBefore(links, t, head), t, S \union {t})
  <1>1. /\ links \in Ring /\ WellLinked(links) /\ head \in S /\ S \subseteq Thread
        /\ \A u \in Thread \ S : Alone(links, u)
        /\ RingOf(links, head) = S
    BY RunsFacts DEF Runs
  <1>2. /\ InsertBefore(links, t, head) \in Ring /\ WellLinked(InsertBefore(links, t, head))
        /\ \A u \in Thread \ {t, head} : Alone(links, u) => Alone(InsertBefore(links, t, head), u)
        /\ RingOf(InsertBefore(links, t, head), t) = S \union {t}
    BY <1>1, InsertBeforeRing
  <1>3. QED
    BY <1>1, <1>2 DEF Runs

LEMMA RunsInsertAfter ==
    ASSUME NEW links, NEW head, NEW S, Runs(links, head, S), NEW t \in Thread \ S
    PROVE  Runs(InsertAfter(links, t, head), head, S \union {t})
  <1>1. /\ links \in Ring /\ WellLinked(links) /\ head \in S /\ S \subseteq Thread
        /\ \A u \in Thread \ S : Alone(links, u)
        /\ RingOf(links, head) = S
    BY RunsFacts DEF Runs
  <1>2. /\ InsertAfter(links, t, head) \in Ring /\ WellLinked(InsertAfter(links, t, head))
        /\ \A u \in Thread \ {t, head} : Alone(links, u) => Alone(InsertAfter(links, t, head), u)
        /\ RingOf(InsertAfter(links, t, head), head) = S \union {t}
    BY <1>1, InsertAfterRing
  <1>3. QED
    BY <1>1, <1>2 DEF Runs

(* SWITCH_TO_PARTNER links the partner in behind the thread, and takes the *)
(* thread out.                                                             *)
LEMMA ExchangedLinks ==
    ASSUME NEW links \in Ring, WellLinked(links), NEW t \in Thread, NEW u \in Thread,
           links.next[t] # t, Alone(links, u)
    PROVE  /\ Exchanged(links, t, u) = Remove(InsertAfter(links, u, t), t)
           /\ InsertAfter(links, u, t).next[t] = u
  <1>1. PICK n \in [Thread -> Thread], p \in [Thread -> Thread] :
            links = [next |-> n, prev |-> p]
    BY DEF Ring
  <1>2. /\ p[n[t]] = t /\ n[p[t]] = t /\ n[t] # t /\ p[t] # t /\ u # t
        /\ n[u] = u /\ p[u] = u /\ n[t] # u /\ p[t] # u
        /\ n[t] \in Thread /\ p[t] \in Thread
    BY <1>1 DEF WellLinked, Alone
  <1> DEFINE n1 == [n EXCEPT ![u] = n[t], ![t] = u]
             p1 == [p EXCEPT ![u] = t, ![n[t]] = u]
  <1>3. InsertAfter(links, u, t) = [next |-> n1, prev |-> p1]
    BY <1>1 DEF InsertAfter
  <1>4. n1[t] = u /\ p1[t] = p[t]
    BY <1>2
  <1>5. Remove(InsertAfter(links, u, t), t)
        = [next |-> [n1 EXCEPT ![p[t]] = u, ![t] = t], prev |-> [p1 EXCEPT ![u] = p[t], ![t] = t]]
    BY <1>3, <1>4 DEF Remove
  <1> DEFINE m1 == [n EXCEPT ![u] = n[t]]
             q1 == [p EXCEPT ![u] = p[t]]
             q2 == [q1 EXCEPT ![n[t]] = u]
             m2 == [m1 EXCEPT ![p[t]] = u]
  <1>6. m1[t] = n[t] /\ q2[t] = p[t]
    BY <1>2
  <1>7. Exchanged(links, t, u) = [next |-> [m2 EXCEPT ![t] = t], prev |-> [q2 EXCEPT ![t] = t]]
    BY <1>1, <1>6 DEF Exchanged
  <1>8. [m2 EXCEPT ![t] = t] = [n1 EXCEPT ![p[t]] = u, ![t] = t]
    BY <1>2
  <1>9. [q2 EXCEPT ![t] = t] = [p1 EXCEPT ![u] = p[t], ![t] = t]
    BY <1>2
  <1>10. QED
    BY <1>3, <1>4, <1>5, <1>7, <1>8, <1>9

LEMMA RunsExchanged ==
    ASSUME NEW links, NEW head, NEW S, Runs(links, head, S), S # {head},
           NEW t \in Thread \ S
    PROVE  Runs(Exchanged(links, head, t), t, (S \ {head}) \union {t})
  <1>1. /\ links \in Ring /\ WellLinked(links) /\ head \in S /\ S \subseteq Thread
        /\ Alone(links, t)
    BY RunsFacts
  <1>2. links.next[head] # head
    <2>1. PICK u \in S : u # head
      BY <1>1
    <2>2. QED
      BY <1>1, <2>1, RunsNotAlone
  <1>3. /\ Exchanged(links, head, t) = Remove(InsertAfter(links, t, head), head)
        /\ InsertAfter(links, t, head).next[head] = t
    BY <1>1, <1>2, ExchangedLinks
  <1>4. Runs(InsertAfter(links, t, head), head, S \union {t})
    BY RunsInsertAfter
  <1>5. Runs(Remove(InsertAfter(links, t, head), head), t, (S \union {t}) \ {head})
    <2>1. PICK r, T : r = InsertAfter(links, t, head) /\ T = S \union {t}
      OBVIOUS
    <2>2. Runs(r, head, T) /\ T # {head} /\ r.next[head] = t
      BY <1>1, <1>3, <1>4, <2>1
    <2>3. Runs(Remove(r, head), r.next[head], T \ {head})
      BY <2>2, RunsRemove
    <2>4. QED
      BY <2>1, <2>2, <2>3
  <1>6. (S \union {t}) \ {head} = (S \ {head}) \union {t}
    BY <1>1
  <1>7. QED
    BY <1>3, <1>5, <1>6


-----------------------------------------------------------------------------
(* Locks *)

LEMMA ShapeFacts ==
    ASSUME NEW o, NEW w
    PROVE  /\ Shape(o, w).owner = o
           /\ Shape(o, w).queue = << >> <=> w = NULL
           /\ w # NULL => /\ Shape(o, w).queue = <<w>> /\ Head(Shape(o, w).queue) = w
                          /\ Tail(Shape(o, w).queue) = << >>
           /\ (IF Shape(o, w).queue = << >> THEN NULL ELSE Head(Shape(o, w).queue)) = w
  <1>1. CASE w = NULL
    BY <1>1 DEF Shape
  <1>2. CASE w # NULL
    <2>1. /\ Shape(o, w) = [owner |-> o, queue |-> <<w>>]
          /\ <<w>> # << >> /\ Head(<<w>>) = w /\ Tail(<<w>>) = << >>
      BY <1>2 DEF Shape
    <2>2. QED
      BY <1>2, <2>1
  <1>3. QED
    BY <1>1, <1>2

Perhaps == Thread \union {NULL}

Moves(t, to) == pc' = [pc EXCEPT ![t] = to]
Becomes(l, k) == lock' = [lock EXCEPT ![l] = k]
Claimed(l, t) == Becomes(l, Claim(lock[l], t))
Released(l)   == Becomes(l, Release(lock[l]))

LEMMA LockFacts ==
    ASSUME LockInv, NEW l \in Locks
    PROVE  /\ lock[l] = Shape(Owner(l), Waiter(l))
           /\ Owner(l) \in Perhaps /\ Waiter(l) \in Perhaps
           /\ lock[l].queue = << >> <=> Waiter(l) = NULL
  <1>1. PICK o \in Perhaps, w \in Perhaps : lock[l] = Shape(o, w)
    BY DEF LockInv, Perhaps
  <1>2. Owner(l) = o /\ Waiter(l) = w
    BY <1>1, ShapeFacts DEF Owner, Waiter
  <1>3. QED
    BY <1>1, <1>2, ShapeFacts

LEMMA WantsIff ==
    ASSUME LockInv, NEW l \in Locks, NEW t \in Thread
    PROVE  /\ Wants(t, l) <=> (t = Owner(l) \/ t = Waiter(l))
           /\ t = Waiter(l) => Owner(l) # t /\ Owner(l) \in Thread /\ ClaimedAt(t, l, pc[t])
  BY LockFacts DEF LockInv, Perhaps

(* A thread is blocked at its gate or by a lock. *)
LEMMA BlockedFacts ==
    ASSUME LockInv, NEW t \in Thread
    PROVE  Blocked(t) <=> (gate[t] = -1 \/ \E l \in Locks : Waiter(l) = t)
  <1>1. ASSUME NEW l \in Locks PROVE InQueue(t, l) <=> Waiter(l) = t
    <2>1. /\ lock[l] = Shape(Owner(l), Waiter(l)) /\ Waiter(l) \in Perhaps
      BY LockFacts
    <2>2. CASE Waiter(l) = NULL
      <3>1. lock[l].queue = << >>
        BY <2>1, <2>2, ShapeFacts
      <3>2. DOMAIN lock[l].queue = {}
        BY <3>1
      <3>3. QED
        BY <2>2, <3>2 DEF InQueue
    <2>3. CASE Waiter(l) # NULL
      <3>1. PICK w : w = Waiter(l)
        OBVIOUS
      <3>2. lock[l].queue = <<w>>
        BY <2>1, <2>3, <3>1, ShapeFacts
      <3>3. DOMAIN <<w>> = {1} /\ <<w>>[1] = w
        OBVIOUS
      <3>4. QED
        BY <3>1, <3>2, <3>3 DEF InQueue
    <2>4. QED
      BY <2>2, <2>3
  <1>2. QED
    BY <1>1 DEF Blocked

LEMMA ChangeLock ==
    ASSUME LockInv, NEW l \in Locks, NEW o \in Perhaps, NEW w \in Perhaps,
           Becomes(l, Shape(o, w))
    PROVE  /\ Owner(l)' = o /\ Waiter(l)' = w
           /\ \A k \in Locks \ {l} : Owner(k)' = Owner(k) /\ Waiter(k)' = Waiter(k)
           /\ lock' \in [Locks -> {Shape(a, b) : a \in Perhaps, b \in Perhaps}]
  <1>1. lock \in [Locks -> {Shape(a, b) : a \in Perhaps, b \in Perhaps}]
    BY DEF LockInv, Perhaps
  <1>2. lock'[l] = Shape(o, w) /\ \A k \in Locks \ {l} : lock'[k] = lock[k]
    BY <1>1 DEF Becomes
  <1>3. lock' \in [Locks -> {Shape(a, b) : a \in Perhaps, b \in Perhaps}]
    <2>1. Shape(o, w) \in {Shape(a, b) : a \in Perhaps, b \in Perhaps}
      OBVIOUS
    <2>2. QED
      BY <1>1, <2>1 DEF Becomes
  <1>4. QED
    BY <1>2, <1>3, ShapeFacts DEF Owner, Waiter

LEMMA WhoWants ==
    ASSUME NEW t, NEW l, NEW at, NEW esr, WantsAt(t, l, at, esr)
    PROVE  t \in {Vm, IF l = "vm" THEN Ticker ELSE Sdcard}
  BY DEF WantsAt

LEMMA ClaimedApart ==
    ASSUME NEW t \in {Vm, Sdcard, Ticker}, NEW k \in Locks, NEW l \in Locks, NEW at,
           ClaimedAt(t, k, at), ClaimedAt(t, l, at)
    PROVE  k = l /\ at \notin {"woken", "claim vm", "command", "claim emmc", "start", "handler"}
  BY DEF ClaimedAt, Locks

(* A step of t changes what it wants, and nobody else does. *)
LEMMA WantsStep ==
    ASSUME PcInv, NEW t \in Thread, NEW to, Moves(t, to), trap' = trap
    PROVE  /\ pc'[t] = to /\ \A u \in Thread \ {t} : pc'[u] = pc[u]
           /\ \A l : Wants(t, l)' <=> WantsAt(t, l, to, trap.esr)
           /\ \A l : \A u \in Thread \ {t} : Wants(u, l)' <=> Wants(u, l)
  <1>1. pc'[t] = to /\ \A u \in Thread \ {t} : pc'[u] = pc[u]
    BY DEF PcInv, Moves
  <1>2. QED
    BY <1>1 DEF Wants

LEMMA LocksStay ==
    ASSUME PcInv, LockInv, NEW t \in Thread, NEW to, Moves(t, to), trap' = trap,
           lock' = lock, \A l \in Locks : Waiter(l) # t,
           \A l \in Locks : WantsAt(t, l, to, trap.esr) <=> WantsAt(t, l, pc[t], trap.esr)
    PROVE  LockInv' /\ \A l \in Locks : Owner(l)' = Owner(l) /\ Waiter(l)' = Waiter(l)
  <1>1. \A l \in Locks : Owner(l)' = Owner(l) /\ Waiter(l)' = Waiter(l)
    BY DEF Owner, Waiter
  <1>2. ASSUME NEW l \in Locks, Waiter(l) # NULL
        PROVE  /\ Owner(l) # NULL /\ Owner(l) # Waiter(l)
               /\ ClaimedAt(Waiter(l), l, pc'[Waiter(l)])
    <2>1. Waiter(l) \in Thread \ {t}
      BY <1>2, LockFacts DEF Perhaps
    <2>2. pc'[Waiter(l)] = pc[Waiter(l)]
      BY <2>1, WantsStep
    <2>3. QED
      BY <1>2, <2>2 DEF LockInv
  <1>3. ASSUME NEW l \in Locks, NEW u \in Thread
        PROVE  Wants(u, l)' <=> Wants(u, l)
    BY WantsStep DEF Wants
  <1>4. QED
    BY <1>1, <1>2, <1>3 DEF LockInv


LEMMA LockClaimed ==
    ASSUME PcInv, LockInv, NEW t \in {Vm, Sdcard, Ticker}, NEW l \in Locks, NEW to,
           Moves(t, to), trap' = trap,
           Claimed(l, t),
           \A k \in Locks : Waiter(k) # t,
           \A k \in Locks : WantsAt(t, k, to, trap.esr) <=>
                               (k = l \/ WantsAt(t, k, pc[t], trap.esr)),
           ~WantsAt(t, l, pc[t], trap.esr), ClaimedAt(t, l, to)
    PROVE  /\ LockInv'
           /\ \A k \in Locks \ {l} : Waiter(k)' = Waiter(k)
           /\ Waiter(l) = NULL
           /\ Waiter(l)' = (IF lock[l].owner = NULL THEN NULL ELSE t)
  <1>1. /\ lock[l] = Shape(Owner(l), Waiter(l))
        /\ Owner(l) \in Perhaps /\ Waiter(l) \in Perhaps
    BY LockFacts
  <1>2. t # Owner(l) /\ t # Waiter(l)
    BY DEF LockInv, Wants
  <1>3. WantsAt(t, l, to, trap.esr)
    OBVIOUS
  <1>4. Waiter(l) = NULL
    <2>1. SUFFICES ASSUME Waiter(l) # NULL PROVE FALSE
      OBVIOUS
    <2>2. Waiter(l) \in Thread /\ Owner(l) \in Thread /\ Owner(l) # Waiter(l)
      BY <1>1, <2>1 DEF LockInv, Perhaps
    <2>3. Wants(Waiter(l), l) /\ Wants(Owner(l), l)
      BY <2>2 DEF LockInv
    <2>4. {t, Waiter(l), Owner(l)} \subseteq {Vm, IF l = "vm" THEN Ticker ELSE Sdcard}
      BY <1>3, <2>3, WhoWants DEF Wants
    <2>5. QED
      BY <1>2, <2>2, <2>4
  <1>5. t \in Thread /\ t \in Perhaps /\ NULL \in Perhaps /\ t # NULL
    BY DEF Perhaps
  <1>6. Claim(lock[l], t) = IF Owner(l) = NULL THEN Shape(t, NULL) ELSE Shape(Owner(l), t)
    <2>1. lock[l] = [owner |-> Owner(l), queue |-> << >>]
      BY <1>1, <1>4 DEF Shape
    <2>2. CASE Owner(l) = NULL
      BY <2>1, <2>2 DEF Claim, Shape
    <2>3. CASE Owner(l) # NULL
      <3>1. Append(<< >>, t) = <<t>>
        OBVIOUS
      <3>2. Claim(lock[l], t) = [owner |-> Owner(l), queue |-> Append(<< >>, t)]
        BY <2>1, <2>3 DEF Claim
      <3>3. QED
        BY <1>5, <2>3, <3>1, <3>2 DEF Shape
    <2>4. QED
      BY <2>2, <2>3
  <1>7. /\ Owner(l)' = (IF Owner(l) = NULL THEN t ELSE Owner(l))
        /\ Waiter(l)' = (IF Owner(l) = NULL THEN NULL ELSE t)
        /\ \A k \in Locks \ {l} : Owner(k)' = Owner(k) /\ Waiter(k)' = Waiter(k)
        /\ lock' \in [Locks -> {Shape(a, b) : a \in Perhaps, b \in Perhaps}]
    <2>1. CASE Owner(l) = NULL
      <3>1. Becomes(l, Shape(t, NULL))
        BY <1>6, <2>1 DEF Claimed
      <3>2. QED
        BY <1>5, <2>1, <3>1, ChangeLock
    <2>2. CASE Owner(l) # NULL
      <3>1. PICK o \in Perhaps : o = Owner(l)
        BY <1>1
      <3>2. Becomes(l, Shape(o, t))
        BY <1>6, <2>2, <3>1 DEF Claimed
      <3>3. /\ Owner(l)' = o /\ Waiter(l)' = t
            /\ \A k \in Locks \ {l} : Owner(k)' = Owner(k) /\ Waiter(k)' = Waiter(k)
            /\ lock' \in [Locks -> {Shape(a, b) : a \in Perhaps, b \in Perhaps}]
        BY <1>5, <3>2, ChangeLock
      <3>4. QED
        BY <2>2, <3>1, <3>3
    <2>3. QED
      BY <2>1, <2>2
  <1>8. /\ pc'[t] = to /\ \A u \in Thread \ {t} : pc'[u] = pc[u]
        /\ \A k : Wants(t, k)' <=> WantsAt(t, k, to, trap.esr)
        /\ \A k : \A u \in Thread \ {t} : Wants(u, k)' <=> Wants(u, k)
    BY WantsStep
  <1>9. ASSUME NEW k \in Locks, Waiter(k)' # NULL
        PROVE  /\ Owner(k)' # NULL /\ Owner(k)' # Waiter(k)'
               /\ ClaimedAt(Waiter(k)', k, pc'[Waiter(k)'])
    <2>1. CASE k = l
      BY <1>2, <1>5, <1>7, <1>8, <1>9, <2>1
    <2>2. CASE k # l
      <3>1. Waiter(k)' = Waiter(k) /\ Owner(k)' = Owner(k)
        BY <1>7, <2>2
      <3>2. Waiter(k) \in Thread \ {t}
        BY <1>9, <3>1, LockFacts DEF Perhaps
      <3>3. QED
        BY <1>8, <1>9, <3>1, <3>2 DEF LockInv
    <2>3. QED
      BY <2>1, <2>2
  <1>10. ASSUME NEW k \in Locks, NEW u \in Thread
         PROVE  Wants(u, k)' <=> u \in {Owner(k)', Waiter(k)'}
    <2>1. Wants(u, k) <=> u \in {Owner(k), Waiter(k)}
      BY DEF LockInv
    <2>2. CASE k = l
      BY <1>1, <1>2, <1>3, <1>4, <1>5, <1>7, <1>8, <2>1, <2>2
    <2>3. CASE k # l
      <3>1. u = t => (Wants(u, k)' <=> Wants(u, k))
        BY <1>8, <2>3 DEF Wants
      <3>2. QED
        BY <1>7, <1>8, <2>1, <2>3, <3>1
    <2>4. QED
      BY <2>2, <2>3
  <1>11. QED
    BY <1>4, <1>7, <1>9, <1>10 DEF LockInv, Perhaps, Owner

LEMMA LockReleased ==
    ASSUME PcInv, LockInv, NEW t \in {Vm, Sdcard, Ticker}, NEW l \in Locks, NEW to,
           Moves(t, to), trap' = trap,
           Released(l),
           \A k \in Locks : Waiter(k) # t,
           \A k \in Locks : WantsAt(t, k, to, trap.esr) <=>
                               (k # l /\ WantsAt(t, k, pc[t], trap.esr)),
           WantsAt(t, l, pc[t], trap.esr)
    PROVE  /\ LockInv'
           /\ \A k \in Locks \ {l} : Waiter(k)' = Waiter(k)
           /\ Owner(l) = t /\ Waiter(l)' = NULL
           /\ Waiter(l) # NULL => /\ Waiter(l) = Head(lock[l].queue)
                                  /\ Waiter(l) \in {Vm, IF l = "vm" THEN Ticker ELSE Sdcard} \ {t}
  <1>1. /\ lock[l] = Shape(Owner(l), Waiter(l))
        /\ Owner(l) \in Perhaps /\ Waiter(l) \in Perhaps
    BY LockFacts
  <1>2. t = Owner(l) /\ t # Waiter(l)
    BY DEF LockInv, Wants
  <1>3. Release(lock[l]) = IF Waiter(l) = NULL THEN Shape(NULL, NULL) ELSE Shape(Waiter(l), NULL)
    <2>1. CASE Waiter(l) = NULL
      BY <1>1, <2>1, ShapeFacts DEF Release, Unlocked, Shape
    <2>2. CASE Waiter(l) # NULL
      <3>1. /\ Shape(Owner(l), Waiter(l)).queue # << >>
            /\ Head(Shape(Owner(l), Waiter(l)).queue) = Waiter(l)
            /\ Tail(Shape(Owner(l), Waiter(l)).queue) = << >>
        BY <2>2, ShapeFacts
      <3>2. Release(lock[l]) = [owner |-> Waiter(l), queue |-> << >>]
        BY <1>1, <3>1 DEF Release
      <3>3. QED
        BY <2>2, <3>2 DEF Shape
    <2>3. QED
      BY <2>1, <2>2
  <1>4. /\ Owner(l)' = Waiter(l) /\ Waiter(l)' = NULL
        /\ \A k \in Locks \ {l} : Owner(k)' = Owner(k) /\ Waiter(k)' = Waiter(k)
        /\ lock' \in [Locks -> {Shape(a, b) : a \in Perhaps, b \in Perhaps}]
    <2>1. NULL \in Perhaps
      BY DEF Perhaps
    <2>2. PICK w \in Perhaps : w = Waiter(l)
      BY <1>1
    <2>3. Becomes(l, Shape(w, NULL))
      BY <1>3, <2>2 DEF Released
    <2>4. /\ Owner(l)' = w /\ Waiter(l)' = NULL
          /\ \A k \in Locks \ {l} : Owner(k)' = Owner(k) /\ Waiter(k)' = Waiter(k)
          /\ lock' \in [Locks -> {Shape(a, b) : a \in Perhaps, b \in Perhaps}]
      BY <2>1, <2>3, ChangeLock
    <2>5. QED
      BY <2>2, <2>4
  <1>5. /\ pc'[t] = to /\ \A u \in Thread \ {t} : pc'[u] = pc[u]
        /\ \A k : Wants(t, k)' <=> WantsAt(t, k, to, trap.esr)
        /\ \A k : \A u \in Thread \ {t} : Wants(u, k)' <=> Wants(u, k)
    BY WantsStep
  <1>6. ASSUME NEW k \in Locks, Waiter(k)' # NULL
        PROVE  /\ Owner(k)' # NULL /\ Owner(k)' # Waiter(k)'
               /\ ClaimedAt(Waiter(k)', k, pc'[Waiter(k)'])
    <2>1. k # l /\ Waiter(k)' = Waiter(k) /\ Owner(k)' = Owner(k)
      BY <1>4, <1>6
    <2>2. Waiter(k) \in Thread \ {t}
      BY <1>6, <2>1, LockFacts DEF Perhaps
    <2>3. QED
      BY <1>5, <1>6, <2>1, <2>2 DEF LockInv
  <1>7. ASSUME NEW k \in Locks, NEW u \in Thread
        PROVE  Wants(u, k)' <=> u \in {Owner(k)', Waiter(k)'}
    <2>1. Wants(u, k) <=> u \in {Owner(k), Waiter(k)}
      BY DEF LockInv
    <2>2. CASE k = l
      BY <1>1, <1>2, <1>4, <1>5, <2>1, <2>2
    <2>3. CASE k # l
      <3>1. u = t => (Wants(u, k)' <=> Wants(u, k))
        BY <1>5, <2>3 DEF Wants
      <3>2. QED
        BY <1>4, <1>5, <2>1, <2>3, <3>1
    <2>4. QED
      BY <2>2, <2>3
  <1>8. Waiter(l) # NULL => /\ Waiter(l) = Head(lock[l].queue)
                            /\ Waiter(l) \in {Vm, IF l = "vm" THEN Ticker ELSE Sdcard} \ {t}
    <2>1. SUFFICES ASSUME Waiter(l) # NULL
                   PROVE  /\ Waiter(l) = Head(lock[l].queue)
                          /\ Waiter(l) \in {Vm, IF l = "vm" THEN Ticker ELSE Sdcard}
      BY <1>2
    <2>2. Waiter(l) \in Thread /\ Wants(Waiter(l), l)
      BY <1>1, <2>1 DEF LockInv, Perhaps
    <2>3. QED
      BY <1>1, <2>1, <2>2, WhoWants, ShapeFacts DEF Wants
  <1>9. QED
    BY <1>2, <1>4, <1>6, <1>7, <1>8 DEF LockInv, Perhaps

(* The same of the next state. *)
BlockedSo == \A t \in Thread : Blocked(t) <=> (gate[t] = -1 \/ \E l \in Locks : Waiter(l) = t)

LEMMA BlockedNext == LockInv' => BlockedSo'
  <1>1. LockInv => BlockedSo
    BY BlockedFacts DEF BlockedSo
  <1>2. QED
    BY <1>1, PTL


-----------------------------------------------------------------------------
(* Who can run *)

Ours == {Vm, Sdcard, Ticker}

SchedInv == PcInv /\ LockInv /\ RingInv /\ GateInv

LEMMA LiveNext ==
    ASSUME NEW S, Runs(ring', runnable', S), Members(S)'
    PROVE  RingInv' /\ Live' = S
  BY DEF RingInv, Runs, Live

LEMMA RunningFacts ==
    ASSUME SchedInv, NEW t \in Ours, runnable = t
    PROVE  /\ t \in Live /\ Live \subseteq Thread /\ Idle \in Live /\ Idle # t
           /\ InterruptThread \notin Live
           /\ gate[t] # -1 /\ Born(t)
           /\ \A l \in Locks : Waiter(l) # t
           /\ t = Vm => Guest \notin Live
  <1>1. t \in Live /\ Live \subseteq Thread
    BY RunsFacts DEF SchedInv, RingInv
  <1>2. Able(t)
    BY <1>1 DEF SchedInv, RingInv, Members, Ours
  <1>3. ~Blocked(t) /\ Born(t)
    BY <1>2 DEF Able
  <1>4. gate[t] # -1 /\ \A l \in Locks : Waiter(l) # t
    BY <1>3, BlockedFacts DEF SchedInv, Ours
  <1>5. QED
    BY <1>1, <1>3, <1>4 DEF SchedInv, RingInv, Members, Ours

LEMMA AbleNext ==
    ASSUME LockInv, LockInv', NEW t \in Thread, gate'[t] = -1 <=> gate[t] = -1,
           \A l \in Locks : Waiter(l)' = t <=> Waiter(l) = t, Born(t)' <=> Born(t)
    PROVE  Able(t)' <=> Able(t)
  <1>1. Blocked(t) <=> (gate[t] = -1 \/ \E l \in Locks : Waiter(l) = t)
    BY BlockedFacts
  <1>2. Blocked(t)' <=> (gate'[t] = -1 \/ \E l \in Locks : Waiter(l)' = t)
    BY BlockedNext DEF BlockedSo
  <1>3. QED
    BY <1>1, <1>2 DEF Able

SameStage(from, to) ==
    (from \in NoSdcard <=> to \in NoSdcard) /\ (from \in NoTicker <=> to \in NoTicker)

LEMMA BornStep ==
    ASSUME PcInv, NEW t \in Thread, NEW to, Moves(t, to), t = Vm => SameStage(pc[Vm], to),
           NEW u \in Ours
    PROVE  Born(u)' <=> Born(u)
  <1>1. pc'[Vm] = IF t = Vm THEN to ELSE pc[Vm]
    BY DEF PcInv, Moves
  <1>2. CASE u = Vm
    BY <1>2 DEF Born
  <1>3. CASE u = Sdcard
    BY <1>1, <1>3 DEF Born, SameStage
  <1>4. CASE u = Ticker
    BY <1>1, <1>4 DEF Born, SameStage
  <1>5. QED
    BY <1>2, <1>3, <1>4 DEF Ours

(* A step that leaves the ring alone, or yields. *)
LEMMA Stays ==
    ASSUME SchedInv, NEW t \in Ours, runnable = t, NEW to, Moves(t, to), trap' = trap,
           t = Vm => SameStage(pc[Vm], to),
           \A l \in Locks : WantsAt(t, l, to, trap.esr) <=> WantsAt(t, l, pc[t], trap.esr),
           lock' = lock, ring' = ring, \A u \in Thread : gate'[u] = -1 <=> gate[u] = -1,
           runnable' = runnable \/ runnable' = ring.next[runnable]
    PROVE  /\ LockInv' /\ RingInv' /\ Live' = Live
           /\ runnable' \in Live
  <1>1. /\ t \in Live /\ Live \subseteq Thread /\ Idle \in Live /\ InterruptThread \notin Live
        /\ gate[t] # -1
        /\ \A l \in Locks : Waiter(l) # t
        /\ t = Vm => Guest \notin Live
    BY RunningFacts
  <1>2. PcInv /\ LockInv /\ RingInv /\ t \in Thread
    BY DEF SchedInv, Ours
  <1>3. LockInv' /\ \A l \in Locks : Owner(l)' = Owner(l) /\ Waiter(l)' = Waiter(l)
    BY <1>1, <1>2, LocksStay
  <1>4. ASSUME NEW u \in Ours PROVE Able(u)' <=> Able(u)
    <2>1. Born(u)' <=> Born(u)
      BY <1>2, BornStep
    <2>2. u \in Thread
      BY DEF Ours
    <2>3. QED
      BY <1>2, <1>3, <2>1, <2>2, AbleNext
  <1>5. PICK S : S = Live
    OBVIOUS
  <1>6. Runs(ring, runnable, S) /\ Members(S)
    BY <1>2, <1>5 DEF RingInv
  <1>7. Runs(ring', runnable', S) /\ runnable' \in S
    BY <1>1, <1>5, <1>6, RunsYield, RunsFacts
  <1>8. Members(S)'
    <2>1. runnable' # InterruptThread /\ runnable # InterruptThread
      BY <1>1, <1>5, <1>7
    <2>2. Guest \in S => pc'[Vm] = pc[Vm]
      BY <1>1, <1>2, <1>5, WantsStep
    <2>3. QED
      BY <1>4, <1>6, <2>1, <2>2 DEF Members, Ours
  <1>9. RingInv' /\ Live' = S
    BY <1>7, <1>8, LiveNext
  <1>10. QED
    BY <1>3, <1>5, <1>7, <1>9

(* A step that takes t out of the ring: t waits, at its gate or for a lock. *)
LEMMA Leaves ==
    ASSUME SchedInv, NEW t \in Ours, runnable = t, NEW to, Moves(t, to),
           t = Vm => SameStage(pc[Vm], to),
           LockInv', \A u \in Thread \ {t} : gate'[u] = gate[u],
           \A l \in Locks : \A u \in Ours \ {t} : Waiter(l)' = u <=> Waiter(l) = u,
           gate'[t] = -1 \/ \E l \in Locks : Waiter(l)' = t,
           ring' = Remove(ring, t), runnable' = ring.next[t]
    PROVE  /\ RingInv' /\ Live' = Live \ {t}
           /\ runnable' \in Live
  <1>1. /\ t \in Live /\ Live \subseteq Thread /\ Idle \in Live /\ InterruptThread \notin Live
        /\ Idle # t
        /\ t = Vm => Guest \notin Live
    BY RunningFacts
  <1>2. PcInv /\ LockInv /\ RingInv /\ t \in Thread
    BY DEF SchedInv, Ours
  <1>3. ASSUME NEW u \in Ours \ {t} PROVE Able(u)' <=> Able(u)
    <2>1. Born(u)' <=> Born(u)
      BY <1>2, BornStep
    <2>2. u \in Thread
      BY DEF Ours
    <2>3. QED
      BY <1>2, <2>1, <2>2, AbleNext
  <1>4. ~Able(t)'
    BY <1>2, BlockedNext DEF BlockedSo, Able
  <1>5. PICK S : S = Live
    OBVIOUS
  <1>6. Runs(ring, runnable, S) /\ Members(S)
    BY <1>2, <1>5 DEF RingInv
  <1>7. Runs(ring', runnable', S \ {t}) /\ runnable' \in S \ {t}
    <2>1. S # {t} /\ Runs(ring, t, S)
      BY <1>1, <1>5, <1>6
    <2>2. Runs(Remove(ring, t), ring.next[t], S \ {t}) /\ ring.next[t] \in S \ {t}
      BY <2>1, RunsRemove
    <2>3. QED
      BY <2>2
  <1>8. Members(S \ {t})'
    <2>1. runnable' # InterruptThread /\ runnable # InterruptThread
      BY <1>1, <1>5, <1>7
    <2>2. Guest \in S => pc'[Vm] = pc[Vm]
      BY <1>1, <1>2, <1>5 DEF Moves, PcInv
    <2>3. Idle \in S \ {t} /\ InterruptThread \notin S \ {t}
      BY <1>1, <1>5
    <2>4. \A u \in {Sdcard, Ticker} : u \in S \ {t} <=> Able(u)'
      BY <1>3, <1>4, <1>6 DEF Members, Ours
    <2>5. (Vm \in S \ {t} \/ Guest \in S \ {t}) <=> Able(Vm)'
      BY <1>1, <1>3, <1>4, <1>5, <1>6 DEF Members, Ours
    <2>6. QED
      BY <1>6, <2>1, <2>2, <2>3, <2>4, <2>5 DEF Members
  <1>9. RingInv' /\ Live' = S \ {t}
    BY <1>7, <1>8, LiveNext
  <1>10. QED
    BY <1>5, <1>7, <1>9

(* A step that brings u into the ring. *)
LEMMA Joins ==
    ASSUME SchedInv, NEW t \in Ours \union {InterruptThread}, runnable = t,
           NEW u \in Ours, u \notin Live, u = Vm => Guest \notin Live,
           LockInv', \A v \in Thread \ {u} : gate'[v] = -1 <=> gate[v] = -1,
           \A l \in Locks : \A v \in Ours \ {u} : Waiter(l)' = v <=> Waiter(l) = v,
           gate'[u] # -1, \A l \in Locks : Waiter(l)' # u,
           \A v \in Ours \ {u} : Born(v)' <=> Born(v), Born(u)',
           Guest \in Live => pc'[Vm] = pc[Vm],
           \/ ring' = InsertBefore(ring, u, t) /\ runnable' = u /\ t # InterruptThread
           \/ ring' = InsertAfter(ring, u, t) /\ runnable' = t
    PROVE  RingInv' /\ Live' = Live \union {u} /\ runnable' \in Live'
  <1>1. PcInv /\ LockInv /\ RingInv /\ u \in Thread
    BY DEF SchedInv, Ours
  <1>2. ASSUME NEW v \in Ours \ {u} PROVE Able(v)' <=> Able(v)
    <2>1. v \in Thread
      BY DEF Ours
    <2>2. QED
      BY <1>1, <2>1, AbleNext
  <1>3. Able(u)'
    BY <1>1, BlockedNext DEF BlockedSo, Able
  <1>4. PICK S : S = Live
    OBVIOUS
  <1>5. Runs(ring, runnable, S) /\ Members(S) /\ t \in S /\ S \subseteq Thread
    BY <1>1, <1>4, RunsFacts DEF RingInv
  <1>6. Runs(ring', runnable', S \union {u}) /\ runnable' \in S \union {u}
    BY <1>1, <1>4, <1>5, RunsInsertBefore, RunsInsertAfter
  <1>7. Members(S \union {u})'
    <2>1. /\ u # InterruptThread /\ u # Idle /\ u # Guest
          /\ InterruptThread \in S \union {u} <=> runnable' = InterruptThread
          /\ Idle \in S \union {u}
      BY <1>5 DEF Members, Ours
    <2>2. \A v \in {Sdcard, Ticker} : v \in S \union {u} <=> Able(v)'
      BY <1>2, <1>3, <1>5 DEF Members, Ours
    <2>3. (Vm \in S \union {u} \/ Guest \in S \union {u}) <=> Able(Vm)'
      BY <1>2, <1>3, <1>4, <1>5, <2>1 DEF Members, Ours
    <2>4. ~(Vm \in S \union {u} /\ Guest \in S \union {u})
      BY <1>4, <1>5, <2>1 DEF Members
    <2>5. Guest \in S \union {u} => pc'[Vm] = "handler"
      BY <1>4, <1>5, <2>1 DEF Members
    <2>6. QED
      BY <2>1, <2>2, <2>3, <2>4, <2>5 DEF Members
  <1>8. RingInv' /\ Live' = S \union {u}
    BY <1>6, <1>7, LiveNext
  <1>9. QED
    BY <1>4, <1>6, <1>8

-----------------------------------------------------------------------------
(* The two worlds *)

(* A switch from one secure thread to another, or to the guest, does not   *)
(* change what the guest has in its registers.                             *)
LEMMA WorldSwitch ==
    ASSUME WorldInv, runnable # Guest, partner' = partner,
           pc'[Vm] = "make_partner" <=> pc[Vm] = "make_partner",
           NEW u, Run(u), u = Guest => pc[Vm] # "make_partner"
    PROVE  WorldInv' /\ Mode' = Mode /\ Reg' = Reg
  <1>1. /\ UNCHANGED <<vm_state, context, elr_el2, esr_el2, trap>>
        /\ runnable' = u /\ ns = FALSE /\ cpu = NoCpu /\ sys = SecureRegs
    BY DEF Run, Enter, guest, WorldInv
  <1>2. CASE u # Guest
    <2>1. UNCHANGED <<ns, sys, cpu>>
      BY <1>2 DEF Run, Enter, world
    <2>2. QED
      BY <1>1, <1>2, <2>1 DEF WorldInv, Mode, Reg
  <1>3. CASE u = Guest
    <2>1. context.mode \in Modes /\ context \in [mode : Modes, pc : {0, 1}, reg : 0 .. 3]
      BY <1>3 DEF WorldInv, Modes
    <2>2. IsNonSecure(context')
      BY <1>1, <2>1 DEF IsNonSecure, Modes
    <2>3. ns' = TRUE /\ sys' = vm_state' /\ cpu' = context'
      BY <1>1, <1>3, <2>2 DEF Run, Enter
    <2>4. QED
      BY <1>1, <1>3, <2>1, <2>3 DEF WorldInv, Mode, Reg
  <1>4. QED
    BY <1>2, <1>3

LEMMA WorldStays ==
    ASSUME WorldInv, partner' = partner, UNCHANGED <<world, guest>>,
           pc'[Vm] = "make_partner" <=> pc[Vm] = "make_partner",
           runnable' = Guest <=> runnable = Guest
    PROVE  WorldInv' /\ Mode' = Mode /\ Reg' = Reg
  BY DEF world, guest, WorldInv, Mode, Reg

(* An interrupt takes the core from the guest, which keeps its registers. *)
LEMMA WorldLeft ==
    ASSUME WorldInv, partner' = partner, pc' = pc, runnable = Guest, runnable' # Guest,
           Leave(cpu), UNCHANGED <<elr_el2, esr_el2, trap>>, pc[Vm] # "make_partner"
    PROVE  /\ WorldInv' /\ Mode' = Mode /\ Reg' = Reg
           /\ vm_state'.hcr = vm_state.hcr /\ context'.mode \in Modes
  <1>1. /\ ns = TRUE /\ cpu \in [mode : Modes, pc : {0, 1}, reg : 0 .. 3]
        /\ sys \in [el1 : {0, 1}, hcr : SUBSET (0 .. 63)] /\ sys.hcr = vm_state.hcr
    BY DEF WorldInv
  <1>2. /\ context' = cpu /\ ns' = FALSE /\ vm_state' = sys /\ sys' = SecureRegs
        /\ cpu' = NoCpu
    BY <1>1 DEF Leave
  <1>3. QED
    BY <1>1, <1>2 DEF WorldInv, Mode, Reg, Modes

-----------------------------------------------------------------------------
(* What the steps of the threads do to the kernel's state *)

SameFor(t, to) ==
    t = Vm => SameStage(pc[Vm], to) /\ pc[Vm] # "make_partner" /\ to # "make_partner"

SameWants(t, to) ==
    \A l \in Locks : WantsAt(t, l, to, trap.esr) <=> WantsAt(t, l, pc[t], trap.esr)

(* t at `to` has claimed l as well; has released l. *)
Claiming(t, l, to) ==
    /\ ~WantsAt(t, l, pc[t], trap.esr) /\ ClaimedAt(t, l, to)
    /\ \A k \in Locks : WantsAt(t, k, to, trap.esr) <=> (k = l \/ WantsAt(t, k, pc[t], trap.esr))

Releasing(t, l, to) ==
    /\ WantsAt(t, l, pc[t], trap.esr)
    /\ \A k \in Locks : WantsAt(t, k, to, trap.esr) <=>
                           (k # l /\ WantsAt(t, k, pc[t], trap.esr))

Shared ==
    /\ LockInv' /\ RingInv' /\ WorldInv'
    /\ Mode' = Mode /\ Reg' = Reg /\ UNCHANGED guest
    /\ (Guest \in Live)' <=> Guest \in Live

StepInv(t, to) ==
    /\ Inv /\ runnable = t /\ Moves(t, to) /\ SameFor(t, to) /\ partner' = partner

LEMMA StepFacts ==
    ASSUME NEW t \in Ours, NEW to, StepInv(t, to)
    PROVE  /\ SchedInv /\ WorldInv /\ t \in Thread /\ runnable = t /\ runnable # Guest
           /\ Moves(t, to) /\ (t = Vm => SameStage(pc[Vm], to)) /\ partner' = partner
           /\ pc'[Vm] = "make_partner" <=> pc[Vm] = "make_partner"
           /\ \A u \in Live : u = Guest => pc[Vm] # "make_partner"
  BY DEF StepInv, Inv, SchedInv, Ours, SameFor, Moves, PcInv, RingInv, Members

LEMMA LocalShared ==
    ASSUME NEW t \in Ours, NEW to, StepInv(t, to), SameWants(t, to), lock' = lock,
           UNCHANGED <<ring, runnable, world, guest>>,
           \A u \in Thread : gate'[u] = -1 <=> gate[u] = -1
    PROVE  Shared
  <1>1. /\ SchedInv /\ WorldInv /\ runnable = t /\ runnable # Guest /\ Moves(t, to)
        /\ t = Vm => SameStage(pc[Vm], to)
        /\ partner' = partner
        /\ pc'[Vm] = "make_partner" <=> pc[Vm] = "make_partner"
    BY StepFacts
  <1>2. trap' = trap
    BY DEF guest
  <1>3. LockInv' /\ RingInv' /\ Live' = Live
    BY <1>1, <1>2, Stays DEF SameWants
  <1>4. WorldInv' /\ Mode' = Mode /\ Reg' = Reg
    BY <1>1, WorldStays
  <1>5. QED
    BY <1>3, <1>4 DEF Shared

LEMMA YieldShared ==
    ASSUME NEW t \in Ours, NEW to, StepInv(t, to), SameWants(t, to), lock' = lock,
           Yield(t), gate' = gate
    PROVE  Shared
  <1>1. /\ SchedInv /\ WorldInv /\ runnable = t /\ runnable # Guest /\ Moves(t, to)
        /\ t = Vm => SameStage(pc[Vm], to)
        /\ partner' = partner
        /\ pc'[Vm] = "make_partner" <=> pc[Vm] = "make_partner"
        /\ \A u \in Live : u = Guest => pc[Vm] # "make_partner"
    BY StepFacts
  <1>2. trap' = trap /\ UNCHANGED guest /\ ring' = ring /\ runnable' = ring.next[runnable]
        /\ Run(runnable')
    BY <1>1 DEF guest, Yield, Run, Enter
  <1>3. LockInv' /\ RingInv' /\ Live' = Live /\ runnable' \in Live
    BY <1>1, <1>2, Stays DEF SameWants
  <1>4. PICK u : u = ring.next[t]
    OBVIOUS
  <1>5. Run(u) /\ (u = Guest => pc[Vm] # "make_partner")
    BY <1>1, <1>2, <1>3, <1>4 DEF Yield
  <1>6. WorldInv' /\ Mode' = Mode /\ Reg' = Reg
    BY <1>1, <1>5, WorldSwitch
  <1>7. QED
    BY <1>2, <1>3, <1>6 DEF Shared

(* t waits: at its gate ... *)
LEMMA BlockShared ==
    ASSUME NEW t \in Ours, NEW to, StepInv(t, to), SameWants(t, to), lock' = lock,
           NEW timed, Block(t, timed)
    PROVE  Shared
  <1>1. /\ SchedInv /\ WorldInv /\ runnable = t /\ runnable # Guest /\ Moves(t, to)
        /\ t = Vm => SameStage(pc[Vm], to)
        /\ partner' = partner /\ t \in Thread
        /\ pc'[Vm] = "make_partner" <=> pc[Vm] = "make_partner"
        /\ \A u \in Live : u = Guest => pc[Vm] # "make_partner"
    BY StepFacts
  <1>2. /\ trap' = trap /\ UNCHANGED guest /\ ring' = Remove(ring, t)
        /\ runnable' = ring.next[t] /\ Run(ring.next[t])
    BY <1>1 DEF guest, Block, Run, Enter
  <1>3. gate'[t] = -1 /\ \A u \in Thread \ {t} : gate'[u] = gate[u]
    BY <1>1 DEF Block, SchedInv, GateInv
  <1>4. LockInv' /\ \A l \in Locks : Owner(l)' = Owner(l) /\ Waiter(l)' = Waiter(l)
    BY <1>1, <1>2, RunningFacts, LocksStay DEF SameWants, SchedInv
  <1>5. RingInv' /\ Live' = Live \ {t} /\ runnable' \in Live
    BY <1>1, <1>2, <1>3, <1>4, Leaves
  <1>6. PICK u : u = ring.next[t]
    OBVIOUS
  <1>7. Run(u) /\ (u = Guest => pc[Vm] # "make_partner")
    BY <1>1, <1>2, <1>5, <1>6
  <1>8. WorldInv' /\ Mode' = Mode /\ Reg' = Reg
    BY <1>1, <1>7, WorldSwitch
  <1>9. QED
    BY <1>1, <1>2, <1>4, <1>5, <1>8 DEF Shared

(* ... or for a lock. *)
LEMMA ClaimShared ==
    ASSUME NEW t \in Ours, NEW to, StepInv(t, to), NEW l \in Locks, Claimed(l, t),
           Claiming(t, l, to), ClaimRuns(lock[l], t), gate' = gate
    PROVE  Shared
  <1>1. /\ SchedInv /\ WorldInv /\ runnable = t /\ runnable # Guest /\ Moves(t, to)
        /\ t = Vm => SameStage(pc[Vm], to)
        /\ partner' = partner /\ t \in Thread
        /\ pc'[Vm] = "make_partner" <=> pc[Vm] = "make_partner"
        /\ \A u \in Live : u = Guest => pc[Vm] # "make_partner"
    BY StepFacts
  <1>2. UNCHANGED guest /\ trap' = trap
    BY DEF guest, ClaimRuns, Run
  <1>3. /\ PcInv /\ LockInv /\ RingInv /\ t \in {Vm, Sdcard, Ticker}
        /\ \A k \in Locks : Waiter(k) # t
    BY <1>1, RunningFacts DEF SchedInv, Ours
  <1>4. /\ LockInv'
        /\ \A k \in Locks \ {l} : Waiter(k)' = Waiter(k)
        /\ Waiter(l) = NULL
        /\ Waiter(l)' = (IF lock[l].owner = NULL THEN NULL ELSE t)
    BY <1>1, <1>2, <1>3, LockClaimed DEF Claiming
  <1>5. CASE lock[l].owner = NULL
    <2>1. UNCHANGED <<ring, runnable, world, guest>>
      BY <1>5 DEF ClaimRuns
    <2>2. WorldInv' /\ Mode' = Mode /\ Reg' = Reg
      BY <1>1, <2>1, WorldStays
    <2>3. \A k \in Locks : Waiter(k)' = Waiter(k)
      BY <1>4, <1>5
    <2>4. ASSUME NEW u \in Ours PROVE Able(u)' <=> Able(u)
      <3>1. Born(u)' <=> Born(u)
        BY <1>1, <1>3, BornStep
      <3>2. u \in Thread
        BY DEF Ours
      <3>3. QED
        BY <1>3, <1>4, <2>3, <3>1, <3>2, AbleNext
    <2>5. PICK S : S = Live
      OBVIOUS
    <2>6. Runs(ring', runnable', S) /\ Members(S)
      BY <1>3, <2>1, <2>5 DEF RingInv
    <2>7. Guest \in S => pc'[Vm] = pc[Vm]
      BY <1>1, <1>2, <1>3, <2>5, RunningFacts, WantsStep
    <2>8. Members(S)'
      BY <2>1, <2>4, <2>6, <2>7 DEF Members, Ours
    <2>9. RingInv' /\ Live' = S
      BY <2>6, <2>8, LiveNext
    <2>10. QED
      BY <1>2, <1>4, <2>2, <2>5, <2>9 DEF Shared
  <1>6. CASE lock[l].owner # NULL
    <2>1. ring' = Remove(ring, t) /\ Run(ring.next[t]) /\ runnable' = ring.next[t]
      BY <1>6 DEF ClaimRuns, Run, Enter
    <2>2. Waiter(l)' = t /\ \A k \in Locks : \A u \in Ours \ {t} : Waiter(k)' = u <=> Waiter(k) = u
      BY <1>4, <1>6 DEF Ours
    <2>3. RingInv' /\ Live' = Live \ {t} /\ runnable' \in Live
      BY <1>1, <1>4, <2>1, <2>2, Leaves
    <2>4. PICK u : u = ring.next[t]
      OBVIOUS
    <2>5. Run(u) /\ (u = Guest => pc[Vm] # "make_partner")
      BY <1>1, <2>1, <2>3, <2>4
    <2>6. WorldInv' /\ Mode' = Mode /\ Reg' = Reg
      BY <1>1, <2>5, WorldSwitch
    <2>7. QED
      BY <1>1, <1>2, <1>4, <2>3, <2>6 DEF Shared
  <1>7. QED
    BY <1>5, <1>6

(* The waiter of a lock waits for nothing else. *)
LEMMA WaiterFacts ==
    ASSUME SchedInv, NEW l \in Locks, NEW w \in Ours, Waiter(l) = w
    PROVE  /\ w \notin Live /\ (w = Vm => Guest \notin Live)
           /\ gate[w] # -1 /\ Born(w)
           /\ \A k \in Locks \ {l} : Waiter(k) # w
  <1>1. w \in Thread /\ LockInv /\ RingInv /\ PcInv /\ GateInv /\ w \in {Vm, Sdcard, Ticker} /\ w # NULL
    BY DEF SchedInv, Ours
  <1>2. Blocked(w)
    BY <1>1, BlockedFacts
  <1>3. w \notin Live /\ (w = Vm => Guest \notin Live)
    BY <1>1, <1>2 DEF RingInv, Members, Able
  <1>4. \A k \in Locks : Waiter(k) = w => ClaimedAt(w, k, pc[w])
    BY <1>1 DEF LockInv
  <1>5. \A k \in Locks \ {l} : Waiter(k) # w
    BY <1>1, <1>4, ClaimedApart
  <1>6. pc[w] \notin {"woken", "claim vm", "command", "claim emmc", "start", "handler"}
    BY <1>1, <1>4, ClaimedApart
  <1>7. gate[w] # -1
    <2>1. CASE w = Vm
      <3>1. gate[Vm] = 0
        BY <1>1, <1>6, <2>1 DEF GateInv
      <3>2. QED
        BY <2>1, <3>1
    <2>2. CASE w = Sdcard
      BY <1>1, <1>6, <2>2 DEF GateInv
    <2>3. CASE w = Ticker
      BY <1>1, <1>6, <2>3 DEF GateInv
    <2>4. QED
      BY <1>1, <2>1, <2>2, <2>3
  <1>8. Born(w)
    BY <1>1, <1>6 DEF PcInv, Born
  <1>9. QED
    BY <1>3, <1>5, <1>7, <1>8

LEMMA ReleaseShared ==
    ASSUME NEW t \in Ours, NEW to, StepInv(t, to), NEW l \in Locks, Released(l),
           Releasing(t, l, to), ReleaseRuns(lock[l]), gate' = gate
    PROVE  Shared
  <1>1. /\ SchedInv /\ WorldInv /\ runnable = t /\ runnable # Guest /\ Moves(t, to)
        /\ t = Vm => SameStage(pc[Vm], to)
        /\ partner' = partner /\ t \in Thread
        /\ pc'[Vm] = "make_partner" <=> pc[Vm] = "make_partner"
        /\ \A u \in Live : u = Guest => pc[Vm] # "make_partner"
    BY StepFacts
  <1>2. UNCHANGED guest /\ trap' = trap
    BY DEF guest, ReleaseRuns, Run
  <1>3. /\ PcInv /\ LockInv /\ RingInv /\ t \in {Vm, Sdcard, Ticker}
        /\ \A k \in Locks : Waiter(k) # t
    BY <1>1, RunningFacts DEF SchedInv, Ours
  <1>4. /\ LockInv'
        /\ \A k \in Locks \ {l} : Waiter(k)' = Waiter(k)
        /\ Waiter(l)' = NULL
        /\ Waiter(l) # NULL => /\ Waiter(l) = Head(lock[l].queue)
                               /\ Waiter(l) \in Ours \ {t}
    BY <1>1, <1>2, <1>3, LockReleased DEF Ours, Releasing
  <1>5. lock[l].queue = << >> <=> Waiter(l) = NULL
    BY <1>3, LockFacts
  <1>6. \A u \in Ours : Born(u)' <=> Born(u)
    BY <1>1, <1>3, BornStep
  <1>7. Guest \in Live => pc'[Vm] = pc[Vm]
    BY <1>1, <1>2, <1>3, RunningFacts, WantsStep
  <1>8. CASE Waiter(l) = NULL
    <2>1. UNCHANGED <<ring, runnable, world, guest>>
      BY <1>5, <1>8 DEF ReleaseRuns
    <2>2. WorldInv' /\ Mode' = Mode /\ Reg' = Reg
      BY <1>1, <2>1, WorldStays
    <2>3. \A k \in Locks : Waiter(k)' = Waiter(k)
      BY <1>4, <1>8
    <2>4. ASSUME NEW u \in Ours PROVE Able(u)' <=> Able(u)
      <3>1. u \in Thread
        BY DEF Ours
      <3>2. QED
        BY <1>3, <1>4, <1>6, <2>3, <3>1, AbleNext
    <2>5. PICK S : S = Live
      OBVIOUS
    <2>6. Runs(ring', runnable', S) /\ Members(S)
      BY <1>3, <2>1, <2>5 DEF RingInv
    <2>7. Members(S)'
      BY <1>7, <2>1, <2>4, <2>5, <2>6 DEF Members, Ours
    <2>8. RingInv' /\ Live' = S
      BY <2>6, <2>7, LiveNext
    <2>9. QED
      BY <1>2, <1>4, <2>2, <2>5, <2>8 DEF Shared
  <1>9. CASE Waiter(l) # NULL
    <2>1. PICK w \in Ours : w = Waiter(l) /\ w # t /\ w = Head(lock[l].queue)
      BY <1>4, <1>9
    <2>2. ring' = InsertBefore(ring, w, t) /\ Run(w) /\ runnable' = w
      BY <1>1, <1>5, <1>9, <2>1 DEF ReleaseRuns, Run, Enter
    <2>3. /\ w \notin Live /\ (w = Vm => Guest \notin Live)
          /\ gate[w] # -1 /\ Born(w)
          /\ \A k \in Locks \ {l} : Waiter(k) # w
      BY <1>1, <2>1, WaiterFacts
    <2>4. /\ \A k \in Locks : \A v \in Ours \ {w} : Waiter(k)' = v <=> Waiter(k) = v
          /\ \A k \in Locks : Waiter(k)' # w
          /\ \A v \in Ours \ {w} : Born(v)' <=> Born(v)
          /\ Born(w)' /\ w # Guest
      BY <1>4, <1>6, <2>1, <2>3 DEF Ours
    <2>5. RingInv' /\ Live' = Live \union {w}
      BY <1>1, <1>4, <1>7, <2>2, <2>3, <2>4, Joins DEF Ours
    <2>6. WorldInv' /\ Mode' = Mode /\ Reg' = Reg
      BY <1>1, <2>2, <2>4, WorldSwitch
    <2>7. QED
      BY <1>2, <1>4, <2>4, <2>5, <2>6 DEF Shared
  <1>10. QED
    BY <1>8, <1>9

-----------------------------------------------------------------------------
(* What they do to the rest *)

(* The step of another thread than Vm, or of the kernel: the trap stays. *)
LEMMA TrapStays ==
    ASSUME TrapInv, vm_state'.hcr = vm_state.hcr, UNCHANGED <<elr_el2, esr_el2, trap>>,
           Mode' = Mode, Reg' = Reg, pc'[Vm] = pc[Vm], Inhibited' => Inhibited,
           (Guest \in Live)' <=> Guest \in Live,
           Guest \notin Live => context' = context
    PROVE  TrapInv'
  <1>1. HcrInv'
    BY DEF TrapInv, HcrInv
  <1>2. El2Inv'
    BY DEF TrapInv, El2Inv
  <1>3. ASSUME Guest \notin Live PROVE HandlerInv'
    BY <1>3 DEF TrapInv, HandlerInv, HandlerAt
  <1>4. QED
    BY <1>1, <1>2, <1>3 DEF TrapInv

LEMMA PcStep ==
    ASSUME PcInv, NEW t \in Ours, NEW to, Moves(t, to), Born(t), DataInv',
           sdcard_thread' = sdcard_thread,
           t = Vm => /\ to \in VmAt /\ SameStage(pc[Vm], to)
                     /\ to \in NoSdcard \union {"sdcard?"} \/ sdcard_thread = Sdcard,
           t = Sdcard => to \in SdcardAt \ {"start"} /\ pc[Sdcard] # "start",
           t = Ticker => to \in TickerAt \ {"start"}
    PROVE  PcInv'
  <1>1. /\ pc' \in [Thread -> VmAt \union SdcardAt \union TickerAt] /\ pc'[t] = to
        /\ \A u \in Thread \ {t} : pc'[u] = pc[u]
    BY DEF PcInv, Moves, Ours
  <1>2. \A u \in Ours : Born(u)' <=> Born(u)
    BY BornStep DEF Ours
  <1>3. CASE t = Vm
    BY <1>1, <1>2, <1>3 DEF PcInv, Ours
  <1>4. CASE t = Sdcard
    BY <1>1, <1>2, <1>4 DEF PcInv, Ours
  <1>5. CASE t = Ticker
    BY <1>1, <1>2, <1>5 DEF PcInv, Ours
  <1>6. QED
    BY <1>3, <1>4, <1>5 DEF Ours

LEMMA DataStays ==
    ASSUME DataInv, UNCHANGED <<threads, devices, stopped>>
    PROVE  DataInv' /\ sdcard_thread' = sdcard_thread /\ (Inhibited' <=> Inhibited)
  BY DEF DataInv, threads, devices, Inhibited

LEMMA GateVm ==
    ASSUME PcInv, GateInv, NEW to, Moves(Vm, to), pc[Vm] \notin {"woken", "wake"},
           to \notin {"woken", "wake"}, UNCHANGED <<gate, sleeping>>, Inhibited' <=> Inhibited
    PROVE  GateInv'
  <1>1. pc'[Vm] = to /\ pc'[Sdcard] = pc[Sdcard] /\ pc'[Ticker] = pc[Ticker]
    BY DEF PcInv, Moves
  <1>2. QED
    BY <1>1 DEF GateInv

LEMMA GateTicker ==
    ASSUME PcInv, GateInv, NEW to, Moves(Ticker, to), gate[Ticker] # -1,
           UNCHANGED <<gate, sleeping>>, Inhibited' <=> Inhibited
    PROVE  GateInv'
  <1>1. pc'[Ticker] = to /\ pc'[Sdcard] = pc[Sdcard] /\ pc'[Vm] = pc[Vm]
    BY DEF PcInv, Moves
  <1>2. QED
    BY <1>1 DEF GateInv

LEMMA GateSdcard ==
    ASSUME PcInv, GateInv, NEW to, Moves(Sdcard, to), gate[Sdcard] = 0,
           UNCHANGED <<gate, sleeping>>, pc[Vm] = "wake" => Inhibited',
           Serves(to, 0, Inhibited' /\ pc[Vm] # "wake")
    PROVE  GateInv'
  <1>1. pc'[Sdcard] = to /\ pc'[Ticker] = pc[Ticker] /\ pc'[Vm] = pc[Vm]
    BY DEF PcInv, Moves
  <1>2. gate[Sdcard] # -1 /\ gate[Sdcard] # 1
    OBVIOUS
  <1>3. Sdcard \notin sleeping
    BY <1>2 DEF GateInv
  <1>4. QED
    BY <1>1, <1>2, <1>3 DEF GateInv

-----------------------------------------------------------------------------
(* The steps of the ticker and of the card *)

LEMMA StepIs ==
    ASSUME Inv, NEW t \in Ours, NEW from, NEW to, Step(t, from, to), partner' = partner,
           t = Vm => SameStage(from, to) /\ from # "make_partner" /\ to # "make_partner"
    PROVE  /\ StepInv(t, to) /\ pc[t] = from /\ gate[t] # -1 /\ Born(t) /\ Moves(t, to)
           /\ PcInv /\ LockInv /\ RingInv /\ GateInv /\ WorldInv /\ TrapInv /\ DataInv
  <1>1. runnable = t /\ pc[t] = from /\ Moves(t, to)
    BY DEF Step, Moves
  <1>2. gate[t] # -1 /\ Born(t)
    BY <1>1, RunningFacts DEF Inv, SchedInv
  <1>3. QED
    BY <1>1, <1>2 DEF StepInv, SameFor, Inv, PcInv

LEMMA OtherStep ==
    ASSUME NEW t \in {Sdcard, Ticker}, NEW to, StepInv(t, to), Shared, PcInv', GateInv',
           Inhibited' => Inhibited
    PROVE  Inv'
  <1>1. pc'[Vm] = pc[Vm]
    BY DEF StepInv, Inv, PcInv, Moves
  <1>2. UNCHANGED <<vm_state, context, elr_el2, esr_el2, trap>> /\ TrapInv
    BY DEF Shared, guest, StepInv, Inv
  <1>3. TrapInv'
    BY <1>1, <1>2, TrapStays DEF Shared
  <1>4. QED
    BY <1>3 DEF Shared, Inv

LEMMA TickerNext ==
    ASSUME Inv, TickerThread
    PROVE  Inv'
  <1>1. Ticker \in Ours
    BY DEF Ours
  <1>2. CASE TickerStarts
    <2>1. /\ Step(Ticker, "start", "sleep")
          /\ UNCHANGED <<lock, kernel, partner, world, guest, stopped>>
          /\ ticker_thread_running' = TRUE
          /\ UNCHANGED <<sdcard_thread, next_pc, waiting, devices>>
      BY <1>2 DEF TickerStarts, Local
    <2>2. /\ StepInv(Ticker, "sleep") /\ pc[Ticker] = "start" /\ gate[Ticker] # -1
          /\ Born(Ticker) /\ Moves(Ticker, "sleep") /\ PcInv /\ GateInv /\ DataInv
      BY <1>1, <2>1, StepIs
    <2>3. SameWants(Ticker, "sleep")
      BY <2>2 DEF SameWants, WantsAt, InIrq
    <2>4. Shared
      BY <1>1, <2>1, <2>2, <2>3, LocalShared DEF kernel
    <2>5. DataInv' /\ (Inhibited' <=> Inhibited)
      BY <2>1, <2>2 DEF DataInv, devices, Inhibited
    <2>6. PcInv'
      BY <1>1, <2>1, <2>2, <2>5, PcStep DEF TickerAt
    <2>7. GateInv'
      BY <2>1, <2>2, <2>5, GateTicker DEF kernel
    <2>8. QED
      BY <2>2, <2>4, <2>5, <2>6, <2>7, OtherStep
  <1>3. CASE TickerSleeps
    <2>1. /\ Step(Ticker, "sleep", "claim vm") /\ (Block(Ticker, TRUE) \/ Pass(Ticker))
          /\ UNCHANGED <<lock, devices, partner, stopped, threads>>
      BY <1>3 DEF TickerSleeps, Waits
    <2>2. /\ StepInv(Ticker, "claim vm") /\ pc[Ticker] = "sleep" /\ gate[Ticker] # -1
          /\ Born(Ticker) /\ Moves(Ticker, "claim vm") /\ PcInv /\ GateInv /\ DataInv
      BY <1>1, <2>1, StepIs
    <2>3. Block(Ticker, TRUE)
      <3>1. gate[Ticker] = 0
        BY <2>2 DEF GateInv
      <3>2. ~Pass(Ticker)
        BY <3>1 DEF Pass
      <3>3. QED
        BY <2>1, <3>2
    <2>4. SameWants(Ticker, "claim vm")
      BY <2>2 DEF SameWants, WantsAt, InIrq
    <2>5. Shared
      BY <1>1, <2>1, <2>2, <2>3, <2>4, BlockShared
    <2>6. DataInv' /\ (Inhibited' <=> Inhibited) /\ sdcard_thread' = sdcard_thread
      BY <2>1, <2>2, DataStays
    <2>7. PcInv'
      BY <1>1, <2>2, <2>6, PcStep DEF TickerAt
    <2>8. GateInv'
      <3>1. gate' = [gate EXCEPT ![Ticker] = -1] /\ sleeping' = sleeping \union {Ticker}
        BY <2>3 DEF Block
      <3>2. pc'[Ticker] = "claim vm" /\ pc'[Sdcard] = pc[Sdcard] /\ pc'[Vm] = pc[Vm]
        BY <2>2 DEF PcInv, Moves
      <3>3. /\ gate' \in [Thread -> -1 .. 1] /\ gate'[Ticker] = -1
            /\ \A u \in Thread \ {Ticker} : gate'[u] = gate[u]
        <4>1. gate \in [Thread -> -1 .. 1]
          BY <2>2 DEF GateInv
        <4>2. (-1) \in -1 .. 1
          OBVIOUS
        <4>3. QED
          BY <3>1, <4>1, <4>2
      <3>4. QED
        BY <2>2, <2>6, <3>1, <3>2, <3>3 DEF GateInv
    <2>9. QED
      BY <2>2, <2>5, <2>6, <2>7, <2>8, OtherStep
  <1>4. CASE TickerClaims
    <2>1. /\ Step(Ticker, "claim vm", "raise") /\ Claimed("vm", Ticker)
          /\ ClaimRuns(lock["vm"], Ticker)
          /\ UNCHANGED <<threads, devices, gate, sleeping, partner, stopped>>
      BY <1>4 DEF TickerClaims, Claims, Claimed, Becomes
    <2>2. /\ StepInv(Ticker, "raise") /\ pc[Ticker] = "claim vm" /\ gate[Ticker] # -1
          /\ Born(Ticker) /\ Moves(Ticker, "raise") /\ PcInv /\ GateInv /\ DataInv
      BY <1>1, <2>1, StepIs
    <2>3. "vm" \in Locks /\ Claiming(Ticker, "vm", "raise")
      BY <2>2 DEF Claiming, WantsAt, ClaimedAt, Locks, InIrq
    <2>4. Shared
      BY <1>1, <2>1, <2>2, <2>3, ClaimShared
    <2>5. DataInv' /\ (Inhibited' <=> Inhibited) /\ sdcard_thread' = sdcard_thread
      BY <2>1, <2>2, DataStays
    <2>6. PcInv'
      BY <1>1, <2>2, <2>5, PcStep DEF TickerAt
    <2>7. GateInv'
      BY <2>1, <2>2, <2>5, GateTicker
    <2>8. QED
      BY <2>2, <2>4, <2>5, <2>6, <2>7, OtherStep
  <1>5. CASE TickerReleases
    <2>1. /\ Step(Ticker, "release vm", "sleep") /\ Released("vm")
          /\ ReleaseRuns(lock["vm"])
          /\ UNCHANGED <<threads, devices, gate, sleeping, partner, stopped>>
      BY <1>5 DEF TickerReleases, Releases, Released, Becomes
    <2>2. /\ StepInv(Ticker, "sleep") /\ pc[Ticker] = "release vm" /\ gate[Ticker] # -1
          /\ Born(Ticker) /\ Moves(Ticker, "sleep") /\ PcInv /\ GateInv /\ DataInv
      BY <1>1, <2>1, StepIs
    <2>3. "vm" \in Locks /\ Releasing(Ticker, "vm", "sleep")
      BY <2>2 DEF Releasing, WantsAt, Locks, InIrq
    <2>4. Shared
      BY <1>1, <2>1, <2>2, <2>3, ReleaseShared
    <2>5. DataInv' /\ (Inhibited' <=> Inhibited) /\ sdcard_thread' = sdcard_thread
      BY <2>1, <2>2, DataStays
    <2>6. PcInv'
      BY <1>1, <2>2, <2>5, PcStep DEF TickerAt
    <2>7. GateInv'
      BY <2>1, <2>2, <2>5, GateTicker
    <2>8. QED
      BY <2>2, <2>4, <2>5, <2>6, <2>7, OtherStep
  <1>6. CASE RaiseVirtualInterrupt
    <2>1. /\ Step(Ticker, "raise", "release vm")
          /\ vm_state' = [vm_state EXCEPT !.hcr = Raised]
          /\ UNCHANGED <<lock, threads, devices, kernel, partner, world, context, elr_el2,
                         esr_el2, trap, stopped>>
      BY <1>6 DEF RaiseVirtualInterrupt
    <2>2. /\ StepInv(Ticker, "release vm") /\ pc[Ticker] = "raise" /\ gate[Ticker] # -1
          /\ Born(Ticker) /\ Moves(Ticker, "release vm") /\ PcInv /\ GateInv /\ DataInv
          /\ LockInv /\ RingInv /\ WorldInv /\ TrapInv
      BY <1>1, <2>1, StepIs
    <2>3. SameWants(Ticker, "release vm")
      BY <2>2 DEF SameWants, WantsAt, InIrq
    <2>4. /\ SchedInv /\ runnable = Ticker /\ runnable # Guest
          /\ pc'[Vm] = pc[Vm]
      BY <2>1, <2>2 DEF Step, SchedInv, Moves, PcInv
    <2>5. LockInv' /\ RingInv' /\ Live' = Live
      BY <1>1, <2>1, <2>2, <2>3, <2>4, Stays DEF SameWants, kernel
    <2>6. DataInv' /\ (Inhibited' <=> Inhibited) /\ sdcard_thread' = sdcard_thread
      BY <2>1, <2>2, DataStays
    <2>7. PcInv'
      BY <1>1, <2>2, <2>6, PcStep DEF TickerAt
    <2>8. GateInv'
      BY <2>1, <2>2, <2>6, GateTicker DEF kernel
    <2>9. pc[Vm] \in Outside \union {"switch"}
      <3>1. "vm" \in Locks /\ Wants(Ticker, "vm")
        BY <2>2 DEF Wants, WantsAt, Locks
      <3>2. Waiter("vm") # Ticker
        BY <1>1, <2>4, <3>1, RunningFacts
      <3>3. Vm = Owner("vm") => FALSE
        BY <2>2, <3>1, <3>2, WantsIff
      <3>4. CASE Waiter("vm") = Vm
        BY <2>2, <3>1, <3>4, WantsIff DEF ClaimedAt
      <3>5. CASE Waiter("vm") # Vm
        <4>1. ~Wants(Vm, "vm")
          BY <2>2, <3>1, <3>3, <3>5, WantsIff
        <4>2. QED
          BY <4>1 DEF Wants, WantsAt
      <3>6. QED
        BY <3>4, <3>5
    <2>10. pc[Vm] \notin Handling \union {"make_partner", "registers"}
      <3>1. Born(Ticker)
        BY <2>2
      <3>2. QED
        BY <2>9, <3>1 DEF Born, Outside, NoTicker, NoSdcard, Handling, InEmmc, InIrq
    <2>11. Guest \notin Live
      BY <2>2, <2>10 DEF RingInv, Members, Handling
    <2>12. vm_state'.hcr \in SUBSET (0 .. 63) /\ vm_state'.el1 = vm_state.el1
           /\ vm_state'.hcr \ {VI} = HCR2 \intersect Word /\ vm_state' \in [el1 : {0, 1}, hcr : SUBSET (0 .. 63)]
      <3>1. vm_state \in [el1 : {0, 1}, hcr : SUBSET (0 .. 63)] /\ vm_state.hcr \ {VI} = HCR2 \intersect Word
        BY <2>2, <2>10 DEF WorldInv, TrapInv, HcrInv
      <3>2. Raised = (HCR2 \intersect Word) \union {VI}
        <4>1. vm_state.hcr \intersect ((0 .. 63) \ {VI}) = HCR2 \intersect Word
          BY <3>1 DEF HCR2, VI, Word
        <4>2. QED
          BY <4>1 DEF Raised, Changed, HCR2, VI, Word
      <3>3. (HCR2 \intersect Word) \union {VI} \in SUBSET (0 .. 63)
        BY DEF HCR2, VI, Word
      <3>4. ((HCR2 \intersect Word) \union {VI}) \ {VI} = HCR2 \intersect Word
        BY DEF HCR2, VI, Word
      <3>5. QED
        BY <2>1, <3>1, <3>2, <3>3, <3>4
    <2>13. WorldInv' /\ Mode' = Mode /\ Reg' = Reg
      BY <2>1, <2>2, <2>4, <2>12 DEF WorldInv, Mode, Reg, world, kernel
    <2>14. TrapInv'
      <3>1. HcrInv'
        BY <2>4, <2>10, <2>12 DEF HcrInv
      <3>2. El2Inv'
        BY <2>2, <2>5, <2>6, <2>11, <2>13 DEF TrapInv, El2Inv
      <3>3. HandlerInv'
        <4>1. pc'[Vm] \notin {"handler", "ack", "cp15", "emmc", "claim emmc", "claim irq"}
                                \union InEmmc \union InIrq
          BY <2>4, <2>10 DEF Handling, InEmmc, InIrq
        <4>2. QED
          BY <4>1 DEF HandlerInv, HandlerAt, InEmmc
      <3>4. QED
        BY <3>1, <3>2, <3>3 DEF TrapInv
    <2>15. QED
      BY <2>5, <2>7, <2>8, <2>13, <2>14 DEF Inv
  <1>7. QED
    BY <1>2, <1>3, <1>4, <1>5, <1>6 DEF TickerThread

(* The machine stops, or nothing happens. *)
LEMMA StopNext ==
    ASSUME Inv, UNCHANGED <<pc, lock, threads, devices, kernel, partner, world, guest>>,
           stopped' \in {NULL, "guest", "svc"}
    PROVE  Inv'
  <1>1. /\ UNCHANGED <<pc, lock, sdcard_thread, ticker_thread_running, next_pc, waiting>>
        /\ UNCHANGED <<emmc_state, irq_details, irq_active, ring, runnable, gate, sleeping>>
        /\ UNCHANGED <<partner, ns, sys, cpu, vm_state, context, elr_el2, esr_el2, trap>>
    BY DEF threads, devices, kernel, world, guest
  <1>2. PcInv'
    BY <1>1 DEF Inv, PcInv, DataInv, Born
  <1>3. LockInv'
    BY <1>1 DEF Inv, LockInv, Owner, Waiter, Wants
  <1>4. Live' = Live
    BY <1>1 DEF Live
  <1>5. RingInv'
    BY <1>1, <1>4 DEF Inv, RingInv, Members, Able, Born, Blocked, InQueue
  <1>6. GateInv' /\ (Inhibited' <=> Inhibited)
    BY <1>1 DEF Inv, GateInv, Inhibited
  <1>7. WorldInv' /\ Mode' = Mode /\ Reg' = Reg
    BY <1>1 DEF Inv, WorldInv, Mode, Reg
  <1>8. TrapInv'
    BY <1>1, <1>4, <1>6, <1>7, TrapStays DEF Inv
  <1>9. QED
    BY <1>2, <1>3, <1>5, <1>6, <1>7, <1>8 DEF Inv

LEMMA SdcardStep ==
    ASSUME NEW to, StepInv(Sdcard, to), PcInv, Shared, Born(Sdcard), DataInv',
           sdcard_thread' = sdcard_thread, pc[Sdcard] # "start", to \in SdcardAt \ {"start"},
           GateInv', Inhibited' => Inhibited
    PROVE  Inv'
  <1>1. Moves(Sdcard, to) /\ Sdcard \in Ours
    BY DEF StepInv, Ours
  <1>2. PcInv'
    BY <1>1, PcStep
  <1>3. QED
    BY <1>2, OtherStep

(* While the card runs: a command is there unless it has served it. *)
LEMMA SdcardBusy ==
    ASSUME GateInv, gate[Sdcard] # -1
    PROVE  /\ pc[Sdcard] # "wait" => gate[Sdcard] = 0
           /\ gate[Sdcard] \in {0, 1}
           /\ pc[Sdcard] \in {"command", "sleep", "complete", "claim emmc"} =>
                 Inhibited /\ pc[Vm] # "wake"
           /\ pc[Sdcard] \in {"start", "claim irq", "release emmc"} \union InIrq =>
                 ~(Inhibited /\ pc[Vm] # "wake")
           /\ pc[Sdcard] = "wait" => (gate[Sdcard] = 1 <=> Inhibited /\ pc[Vm] # "wake")
           /\ pc[Vm] = "wake" => Inhibited
  <1>1. /\ gate[Sdcard] \in {0, 1}
        /\ gate[Sdcard] = 1 => pc[Sdcard] = "wait"
        /\ Serves(pc[Sdcard], gate[Sdcard], Inhibited /\ pc[Vm] # "wake")
        /\ pc[Vm] = "wake" => Inhibited
    <2>1. gate[Sdcard] \in -1 .. 1
      BY DEF GateInv
    <2>2. gate[Sdcard] \in {0, 1}
      BY <2>1
    <2>3. QED
      BY <2>2 DEF GateInv
  <1>2. pc[Sdcard] # "wait" => gate[Sdcard] = 0
    BY <1>1
  <1>3. CASE Inhibited /\ pc[Vm] # "wake"
    BY <1>1, <1>2, <1>3 DEF Serves, InIrq
  <1>4. CASE ~(Inhibited /\ pc[Vm] # "wake")
    <2>1. pc[Sdcard] \in {"start", "wait", "claim irq", "release emmc"} \union InIrq
      BY <1>1, <1>4 DEF Serves
    <2>2. gate[Sdcard] = 0
      BY <1>1, <1>4 DEF Serves
    <2>3. pc[Sdcard] \notin {"command", "sleep", "complete", "claim emmc"}
      BY <2>1 DEF InIrq
    <2>4. gate[Sdcard] # 1
      BY <2>2
    <2>5. QED
      BY <1>1, <1>2, <1>4, <2>2, <2>3, <2>4
  <1>5. QED
    BY <1>1, <1>2, <1>3, <1>4

(* Its steps that leave emmc_state alone. *)
LEMMA SdcardQuiet ==
    ASSUME NEW to, StepInv(Sdcard, to), PcInv, GateInv, DataInv, Shared, Born(Sdcard),
           gate[Sdcard] # -1, pc[Sdcard] # "start", to \in SdcardAt \ {"start"},
           UNCHANGED <<threads, emmc_state, stopped, gate, sleeping>>, irq_active' \in BOOLEAN,
           pc[Sdcard] # "wait",
           pc[Sdcard] \in {"command", "sleep", "complete", "claim emmc"} <=>
               to \in {"command", "sleep", "complete", "claim emmc"}
    PROVE  Inv'
  <1>1. Moves(Sdcard, to)
    BY DEF StepInv
  <1>2. DataInv' /\ sdcard_thread' = sdcard_thread /\ (Inhibited' <=> Inhibited)
    BY DEF DataInv, threads, Inhibited
  <1>3. /\ gate[Sdcard] = 0 /\ (pc[Vm] = "wake" => Inhibited)
        /\ pc[Sdcard] \in {"command", "sleep", "complete", "claim emmc"} =>
              Inhibited /\ pc[Vm] # "wake"
        /\ pc[Sdcard] \in {"start", "claim irq", "release emmc"} \union InIrq =>
              ~(Inhibited /\ pc[Vm] # "wake")
    BY SdcardBusy
  <1>4. pc[Sdcard] \in SdcardAt
    BY DEF PcInv
  <1>5. Serves(to, 0, Inhibited' /\ pc[Vm] # "wake")
    BY <1>2, <1>3, <1>4 DEF Serves, SdcardAt
  <1>6. GateInv'
    BY <1>1, <1>2, <1>3, <1>5, GateSdcard
  <1>7. QED
    BY <1>2, <1>6, SdcardStep

(* The gate of the card changes. *)
LEMMA GateOfSdcard ==
    ASSUME GateInv, gate' \in [Thread -> -1 .. 1],
           \A u \in Thread \ {Sdcard} : gate'[u] = gate[u],
           pc'[Vm] = "woken" <=> pc[Vm] = "woken", pc'[Ticker] = pc[Ticker],
           sleeping' \subseteq sleeping \union {Sdcard},
           Sdcard \in sleeping' => gate'[Sdcard] = -1 /\ pc'[Sdcard] = "claim emmc",
           gate'[Sdcard] = -1 => pc'[Sdcard] \in {"command", "claim emmc"},
           gate'[Sdcard] = 1 => pc'[Sdcard] = "wait",
           Serves(pc'[Sdcard], gate'[Sdcard], Inhibited' /\ pc'[Vm] # "wake"),
           pc'[Vm] = "wake" => Inhibited'
    PROVE  GateInv'
  <1>1. /\ gate'[Idle] = 0 /\ gate'[InterruptThread] = 0 /\ gate'[Guest] = 0
        /\ gate'[Vm] = gate[Vm] /\ gate'[Ticker] = gate[Ticker]
    BY DEF GateInv
  <1>2. gate'[Vm] = (IF pc'[Vm] = "woken" THEN -1 ELSE 0)
    BY <1>1 DEF GateInv
  <1>3. gate'[Ticker] \in {-1, 0} /\ (gate'[Ticker] = -1 => pc'[Ticker] = "claim vm")
    BY <1>1 DEF GateInv
  <1>4. sleeping' \subseteq {t \in {Sdcard, Ticker} : gate'[t] = -1}
    BY <1>1 DEF GateInv
  <1>5. QED
    BY <1>1, <1>2, <1>3, <1>4 DEF GateInv

UpdatesIrq(t, from, to) ==
    /\ Step(t, from, to) /\ irq_active' \in BOOLEAN
    /\ UNCHANGED <<lock, threads, emmc_state, kernel, partner, world, guest, stopped>>

LEMMA UpdateIs ==
    ASSUME NEW t, NEW from, NEW to, NEW details, UpdateVirtualIrq(t, from, to, details)
    PROVE  Stop(t, from, "svc") \/ UpdatesIrq(t, from, to)
  <1> DEFINE irq_now == details.pending /\ details.enabled
  <1>1. irq_now \in BOOLEAN
    BY Zenon
  <1>2. irq_now # irq_active => Stop(t, from, "svc")
    BY Zenon DEF UpdateVirtualIrq
  <1>3. irq_now = irq_active =>
           /\ Step(t, from, to) /\ irq_active' = irq_now
           /\ UNCHANGED <<lock, threads, emmc_state, kernel, partner, world, guest, stopped>>
    BY Zenon DEF UpdateVirtualIrq
  <1> HIDE DEF irq_now
  <1>4. QED
    BY <1>1, <1>2, <1>3 DEF UpdatesIrq

SdcardIs(from, to) ==
    /\ StepInv(Sdcard, to) /\ pc[Sdcard] = from /\ gate[Sdcard] # -1 /\ Born(Sdcard)
    /\ Moves(Sdcard, to) /\ PcInv /\ GateInv /\ DataInv

LEMMA SdcardNext ==
    ASSUME Inv, SdcardThread
    PROVE  Inv'
  <1>1. Sdcard \in Ours /\ Sdcard # Vm /\ Sdcard # Ticker
    BY DEF Ours
  <1>0. ASSUME NEW from, NEW to, Step(Sdcard, from, to), partner' = partner
        PROVE  SdcardIs(from, to)
    BY <1>0, <1>1, StepIs DEF SdcardIs
  <1>2. CASE SdcardStarts
    <2>1. /\ Step(Sdcard, "start", "wait")
          /\ UNCHANGED <<lock, kernel, partner, world, guest, stopped>>
          /\ sdcard_thread' = Sdcard
          /\ UNCHANGED <<ticker_thread_running, next_pc, waiting, devices>>
      BY <1>2 DEF SdcardStarts, Local
    <2>2. SdcardIs("start", "wait")
      BY <1>0, <2>1
    <2>3. SameWants(Sdcard, "wait")
      BY <1>1, <2>2 DEF SdcardIs, SameWants, WantsAt, InIrq
    <2>4. Shared
      BY <1>1, <2>1, <2>2, <2>3, LocalShared DEF kernel, SdcardIs
    <2>5. DataInv' /\ (Inhibited' <=> Inhibited)
      BY <2>1, <2>2 DEF DataInv, devices, Inhibited, SdcardIs
    <2>6. PcInv'
      <3>1. pc' \in [Thread -> VmAt \union SdcardAt \union TickerAt] /\ pc'[Sdcard] = "wait"
            /\ pc'[Vm] = pc[Vm] /\ pc'[Ticker] = pc[Ticker]
        BY <2>2 DEF SdcardIs, PcInv, Moves, SdcardAt
      <3>2. \A u \in Ours : Born(u)' <=> Born(u)
        BY <1>1, <2>2, BornStep DEF SdcardIs, Ours
      <3>3. QED
        BY <2>1, <2>2, <2>5, <3>1, <3>2 DEF SdcardIs, PcInv, Ours, SdcardAt
    <2>7. GateInv'
      <3>1. gate[Sdcard] = 0 /\ ~(Inhibited /\ pc[Vm] # "wake") /\ (pc[Vm] = "wake" => Inhibited)
        BY <2>2, SdcardBusy DEF SdcardIs
      <3>2. Serves("wait", 0, Inhibited' /\ pc[Vm] # "wake")
        BY <2>5, <3>1 DEF Serves
      <3>3. UNCHANGED <<gate, sleeping>>
        BY <2>1 DEF kernel
      <3>4. QED
        BY <2>2, <2>5, <3>1, <3>2, <3>3, GateSdcard DEF SdcardIs
    <2>8. QED
      BY <2>2, <2>4, <2>5, <2>6, <2>7, OtherStep DEF SdcardIs
  <1>3. CASE SdcardWaits
    <2>1. /\ Step(Sdcard, "wait", "command") /\ (Block(Sdcard, FALSE) \/ Pass(Sdcard))
          /\ UNCHANGED <<lock, devices, partner, stopped, threads>>
      BY <1>3 DEF SdcardWaits, Waits
    <2>2. SdcardIs("wait", "command")
      BY <1>0, <2>1
    <2>3. SameWants(Sdcard, "command")
      BY <1>1, <2>2 DEF SdcardIs, SameWants, WantsAt, InIrq
    <2>4. DataInv' /\ (Inhibited' <=> Inhibited) /\ sdcard_thread' = sdcard_thread
      BY <2>1, <2>2, DataStays DEF SdcardIs
    <2>5. /\ gate[Sdcard] = 1 <=> Inhibited /\ pc[Vm] # "wake"
          /\ pc[Vm] = "wake" => Inhibited
      BY <2>2, SdcardBusy DEF SdcardIs
    <2>6. pc'[Sdcard] = "command" /\ pc'[Ticker] = pc[Ticker] /\ pc'[Vm] = pc[Vm]
      BY <2>2 DEF SdcardIs, PcInv, Moves
    <2>7. gate \in [Thread -> -1 .. 1] /\ Sdcard \notin sleeping
      BY <2>2 DEF SdcardIs, GateInv
    <2>8. CASE Block(Sdcard, FALSE)
      <3>1. Shared
        BY <1>1, <2>1, <2>2, <2>3, <2>8, BlockShared DEF SdcardIs
      <3>2. gate[Sdcard] = 0 /\ gate' = [gate EXCEPT ![Sdcard] = -1] /\ sleeping' = sleeping
        BY <2>8 DEF Block
      <3>3. (-1) \in -1 .. 1
        OBVIOUS
      <3>4. /\ gate' \in [Thread -> -1 .. 1] /\ gate'[Sdcard] = -1
            /\ \A u \in Thread \ {Sdcard} : gate'[u] = gate[u]
        BY <2>7, <3>2, <3>3
      <3>5. ~(Inhibited /\ pc[Vm] # "wake")
        BY <2>5, <3>2
      <3>6. Serves("command", -1, Inhibited' /\ pc'[Vm] # "wake")
        BY <2>4, <2>6, <3>5 DEF Serves
      <3>7. GateInv'
        BY <2>2, <2>4, <2>5, <2>6, <2>7, <3>2, <3>4, <3>6, GateOfSdcard DEF SdcardIs
      <3>8. QED
        BY <2>2, <2>4, <3>1, <3>7, SdcardStep DEF SdcardIs, SdcardAt
    <2>9. CASE Pass(Sdcard)
      <3>1. /\ gate[Sdcard] > 0 /\ gate' = [gate EXCEPT ![Sdcard] = 0]
            /\ UNCHANGED <<ring, runnable, sleeping, world, guest>>
        BY <2>9 DEF Pass
      <3>2. gate[Sdcard] = 1
        BY <2>7, <3>1
      <3>3. /\ gate' \in [Thread -> -1 .. 1] /\ gate'[Sdcard] = 0
            /\ \A u \in Thread \ {Sdcard} : gate'[u] = gate[u]
        BY <2>7, <3>1
      <3>4. \A u \in Thread : gate'[u] = -1 <=> gate[u] = -1
        BY <3>2, <3>3
      <3>5. Shared
        BY <1>1, <2>1, <2>2, <2>3, <3>1, <3>4, LocalShared DEF SdcardIs
      <3>6. Serves("command", 0, Inhibited' /\ pc'[Vm] # "wake")
        BY <2>4, <2>5, <2>6, <3>2 DEF Serves
      <3>7. GateInv'
        BY <2>2, <2>4, <2>5, <2>6, <2>7, <3>1, <3>3, <3>6, GateOfSdcard DEF SdcardIs
      <3>8. QED
        BY <2>2, <2>4, <3>5, <3>7, SdcardStep DEF SdcardIs, SdcardAt
    <2>10. QED
      BY <2>1, <2>8, <2>9
  <1>4. CASE SdcardLooks
    <2>1. CASE emmc_state.CMDTM = "cmd7"
      <3>1. /\ Step(Sdcard, "command", "sleep")
            /\ UNCHANGED <<lock, kernel, partner, world, guest, stopped, threads, devices>>
        BY <1>4, <2>1 DEF SdcardLooks, Local
      <3>2. SdcardIs("command", "sleep")
        BY <1>0, <3>1
      <3>3. SameWants(Sdcard, "sleep")
        BY <1>1, <3>2 DEF SdcardIs, SameWants, WantsAt, InIrq
      <3>4. Shared
        BY <1>1, <3>1, <3>2, <3>3, LocalShared DEF kernel, SdcardIs
      <3>5. UNCHANGED <<emmc_state, gate, sleeping>> /\ irq_active' \in BOOLEAN
        BY <3>1, <3>2 DEF kernel, devices, SdcardIs, DataInv
      <3>6. QED
        BY <3>1, <3>2, <3>4, <3>5, SdcardQuiet DEF SdcardIs, SdcardAt
    <2>2. CASE emmc_state.CMDTM # "cmd7"
      BY <1>4, <2>2, StopNext DEF SdcardLooks, Stop
    <2>3. QED
      BY <2>1, <2>2
  <1>5. CASE SdcardSleeps
    <2>1. /\ Step(Sdcard, "sleep", "claim emmc") /\ (Block(Sdcard, TRUE) \/ Pass(Sdcard))
          /\ UNCHANGED <<lock, devices, partner, stopped, threads>>
      BY <1>5 DEF SdcardSleeps, Waits
    <2>2. SdcardIs("sleep", "claim emmc")
      BY <1>0, <2>1
    <2>3. SameWants(Sdcard, "claim emmc")
      BY <1>1, <2>2 DEF SdcardIs, SameWants, WantsAt, InIrq
    <2>4. DataInv' /\ (Inhibited' <=> Inhibited) /\ sdcard_thread' = sdcard_thread
      BY <2>1, <2>2, DataStays DEF SdcardIs
    <2>5. gate[Sdcard] = 0 /\ Inhibited /\ pc[Vm] # "wake"
      BY <2>2, SdcardBusy DEF SdcardIs
    <2>6. pc'[Sdcard] = "claim emmc" /\ pc'[Ticker] = pc[Ticker] /\ pc'[Vm] = pc[Vm]
      BY <2>2 DEF SdcardIs, PcInv, Moves
    <2>7. ~Pass(Sdcard)
      BY <2>5 DEF Pass
    <2>8. Shared
      BY <1>1, <2>1, <2>2, <2>3, <2>7, BlockShared DEF SdcardIs
    <2>9. gate' = [gate EXCEPT ![Sdcard] = -1] /\ sleeping' = sleeping \union {Sdcard}
      BY <2>1, <2>7 DEF Block
    <2>10. (-1) \in -1 .. 1 /\ gate \in [Thread -> -1 .. 1]
      <3>1. (-1) \in -1 .. 1
        OBVIOUS
      <3>2. gate \in [Thread -> -1 .. 1]
        BY <2>2 DEF SdcardIs, GateInv
      <3>3. QED
        BY <3>1, <3>2
    <2>11. /\ gate' \in [Thread -> -1 .. 1] /\ gate'[Sdcard] = -1
           /\ \A u \in Thread \ {Sdcard} : gate'[u] = gate[u]
      BY <2>9, <2>10
    <2>12. Serves("claim emmc", -1, Inhibited' /\ pc'[Vm] # "wake")
      BY <2>4, <2>5, <2>6 DEF Serves
    <2>13. GateInv'
      <3>1. gate'[Sdcard] # 1
        BY <2>11
      <3>2. QED
        BY <2>2, <2>4, <2>5, <2>6, <2>9, <2>11, <2>12, <3>1, GateOfSdcard DEF SdcardIs
    <2>14. QED
      BY <2>2, <2>4, <2>8, <2>13, SdcardStep DEF SdcardIs, SdcardAt
  <1>6. CASE SdcardClaims
    <2>1. /\ Step(Sdcard, "claim emmc", "complete") /\ Claimed("emmc", Sdcard)
          /\ ClaimRuns(lock["emmc"], Sdcard)
          /\ UNCHANGED <<threads, devices, gate, sleeping, partner, stopped>>
      BY <1>6 DEF SdcardClaims, Claims, Claimed, Becomes
    <2>2. SdcardIs("claim emmc", "complete")
      BY <1>0, <2>1
    <2>3. "emmc" \in Locks /\ Claiming(Sdcard, "emmc", "complete")
      BY <1>1, <2>2 DEF Claiming, WantsAt, ClaimedAt, Locks, InIrq, SdcardIs
    <2>4. Shared
      BY <1>1, <2>1, <2>2, <2>3, ClaimShared DEF SdcardIs
    <2>5. UNCHANGED <<emmc_state, gate, sleeping>> /\ irq_active' \in BOOLEAN
      BY <2>1, <2>2 DEF devices, SdcardIs, DataInv
    <2>6. QED
      BY <2>1, <2>2, <2>4, <2>5, SdcardQuiet DEF SdcardIs, SdcardAt
  <1>7. CASE Complete
    <2>1. PICK to \in {"claim irq", "release emmc"} :
             /\ Step(Sdcard, "complete", to)
             /\ emmc_state' = [emmc_state EXCEPT !.inhibit = FALSE, !.done = TRUE]
             /\ UNCHANGED <<lock, kernel, partner, world, guest, stopped, threads>>
             /\ UNCHANGED <<irq_details, irq_active>>
      BY <1>7 DEF Complete, Local
    <2>2. SdcardIs("complete", to)
      BY <1>0, <2>1
    <2>3. SameWants(Sdcard, to)
      BY <1>1, <2>1, <2>2 DEF SdcardIs, SameWants, WantsAt, InIrq, Locks
    <2>4. Shared
      BY <1>1, <2>1, <2>2, <2>3, LocalShared DEF kernel, SdcardIs
    <2>5. DataInv' /\ ~Inhibited' /\ sdcard_thread' = sdcard_thread
      <3>1. PICK c, i, d, m : emmc_state = [CMDTM |-> c, inhibit |-> i, done |-> d, mask |-> m]
        BY <2>2 DEF SdcardIs, DataInv
      <3>2. emmc_state' = [CMDTM |-> c, inhibit |-> FALSE, done |-> TRUE, mask |-> m]
        BY <2>1, <3>1
      <3>3. emmc_state'.inhibit = FALSE
        BY <3>2
      <3>4. ~Inhibited'
        BY <3>3 DEF Inhibited
      <3>5. QED
        BY <2>1, <2>2, <3>2, <3>4 DEF DataInv, threads, SdcardIs
    <2>6. gate[Sdcard] = 0 /\ pc[Vm] # "wake" /\ UNCHANGED <<gate, sleeping>>
      BY <2>1, <2>2, SdcardBusy DEF SdcardIs, kernel
    <2>7. Serves(to, 0, Inhibited' /\ pc[Vm] # "wake")
      BY <2>1, <2>5 DEF Serves
    <2>8. GateInv'
      BY <2>2, <2>5, <2>6, <2>7, GateSdcard DEF SdcardIs
    <2>9. QED
      BY <2>1, <2>2, <2>4, <2>5, <2>8, SdcardStep DEF SdcardIs, SdcardAt
  <1>8. CASE Claims(Sdcard, "irq", "claim irq", "irq")
    <2>1. /\ Step(Sdcard, "claim irq", "irq") /\ Claimed("irq", Sdcard)
          /\ ClaimRuns(lock["irq"], Sdcard)
          /\ UNCHANGED <<threads, devices, gate, sleeping, partner, stopped>>
      BY <1>8 DEF Claims, Claimed, Becomes
    <2>2. SdcardIs("claim irq", "irq")
      BY <1>0, <2>1
    <2>3. "irq" \in Locks /\ Claiming(Sdcard, "irq", "irq")
      BY <1>1, <2>2 DEF Claiming, WantsAt, ClaimedAt, Locks, InIrq, SdcardIs
    <2>4. Shared
      BY <1>1, <2>1, <2>2, <2>3, ClaimShared DEF SdcardIs
    <2>5. UNCHANGED <<emmc_state, gate, sleeping>> /\ irq_active' \in BOOLEAN
      BY <2>1, <2>2 DEF devices, SdcardIs, DataInv
    <2>6. QED
      BY <2>1, <2>2, <2>4, <2>5, SdcardQuiet DEF SdcardIs, SdcardAt, InIrq
  <1>9. CASE UpdateVirtualIrq(Sdcard, "irq", "release irq", [irq_details EXCEPT !.pending = TRUE])
    <2>1. PICK details : UpdateVirtualIrq(Sdcard, "irq", "release irq", details)
      BY <1>9
    <2>2. CASE Stop(Sdcard, "irq", "svc")
      BY <2>2, StopNext DEF Stop
    <2>3. CASE UpdatesIrq(Sdcard, "irq", "release irq")
      <3>1. /\ Step(Sdcard, "irq", "release irq")
            /\ irq_active' \in BOOLEAN
            /\ UNCHANGED <<lock, threads, emmc_state, kernel, partner, world, guest, stopped>>
        BY <2>3 DEF UpdatesIrq
      <3>2. SdcardIs("irq", "release irq")
        BY <1>0, <3>1
      <3>3. SameWants(Sdcard, "release irq")
        BY <1>1, <3>2 DEF SdcardIs, SameWants, WantsAt, InIrq, Locks
      <3>4. UNCHANGED <<ring, runnable, gate, sleeping>>
        BY <3>1 DEF kernel
      <3>5. Shared
        BY <1>1, <3>1, <3>2, <3>3, <3>4, LocalShared DEF SdcardIs
      <3>6. QED
        BY <3>1, <3>2, <3>4, <3>5, SdcardQuiet DEF SdcardIs, SdcardAt, InIrq
    <2>4. QED
      BY <2>1, <2>2, <2>3, UpdateIs
  <1>10. CASE Releases(Sdcard, "irq", "release irq", "release emmc")
    <2>1. /\ Step(Sdcard, "release irq", "release emmc") /\ Released("irq")
          /\ ReleaseRuns(lock["irq"])
          /\ UNCHANGED <<threads, devices, gate, sleeping, partner, stopped>>
      BY <1>10 DEF Releases, Released, Becomes
    <2>2. SdcardIs("release irq", "release emmc")
      BY <1>0, <2>1
    <2>3. "irq" \in Locks /\ Releasing(Sdcard, "irq", "release emmc")
      BY <1>1, <2>2 DEF Releasing, WantsAt, Locks, InIrq, SdcardIs
    <2>4. Shared
      BY <1>1, <2>1, <2>2, <2>3, ReleaseShared DEF SdcardIs
    <2>5. UNCHANGED <<emmc_state, gate, sleeping>> /\ irq_active' \in BOOLEAN
      BY <2>1, <2>2 DEF devices, SdcardIs, DataInv
    <2>6. QED
      BY <2>1, <2>2, <2>4, <2>5, SdcardQuiet DEF SdcardIs, SdcardAt, InIrq
  <1>11. CASE SdcardReleases
    <2>1. /\ Step(Sdcard, "release emmc", "wait") /\ Released("emmc")
          /\ ReleaseRuns(lock["emmc"])
          /\ UNCHANGED <<threads, devices, gate, sleeping, partner, stopped>>
      BY <1>11 DEF SdcardReleases, Releases, Released, Becomes
    <2>2. SdcardIs("release emmc", "wait")
      BY <1>0, <2>1
    <2>3. "emmc" \in Locks /\ Releasing(Sdcard, "emmc", "wait")
      BY <1>1, <2>2 DEF Releasing, WantsAt, Locks, InIrq, SdcardIs
    <2>4. Shared
      BY <1>1, <2>1, <2>2, <2>3, ReleaseShared DEF SdcardIs
    <2>5. UNCHANGED <<emmc_state, gate, sleeping>> /\ irq_active' \in BOOLEAN
      BY <2>1, <2>2 DEF devices, SdcardIs, DataInv
    <2>6. QED
      BY <2>1, <2>2, <2>4, <2>5, SdcardQuiet DEF SdcardIs, SdcardAt, InIrq
  <1>12. QED
    BY <1>2, <1>3, <1>4, <1>5, <1>6, <1>7, <1>8, <1>9, <1>10, <1>11
    DEF SdcardThread, TriggerIrq

-----------------------------------------------------------------------------
(* The kernel's own threads, and the guest *)

LEMMA RestStays ==
    ASSUME Inv, UNCHANGED rest, trap' = trap \/ pc[Vm] = "handler"
    PROVE  /\ PcInv' /\ LockInv' /\ pc' = pc /\ partner' = partner
           /\ Inhibited' <=> Inhibited
           /\ \A l \in Locks : Waiter(l)' = Waiter(l)
           /\ \A t \in Thread : Born(t)' <=> Born(t)
  <1>1. /\ UNCHANGED <<pc, lock, sdcard_thread, ticker_thread_running, next_pc, waiting>>
        /\ UNCHANGED <<emmc_state, irq_details, irq_active, partner, stopped>>
    BY DEF rest, threads, devices
  <1>2. PcInv' /\ (Inhibited' <=> Inhibited) /\ \A t \in Thread : Born(t)' <=> Born(t)
    BY <1>1 DEF Inv, PcInv, DataInv, Born, Inhibited
  <1>3. \A l \in Locks : Owner(l)' = Owner(l) /\ Waiter(l)' = Waiter(l)
    BY <1>1 DEF Owner, Waiter
  <1>4. ASSUME NEW l \in Locks, NEW t \in Thread PROVE Wants(t, l)' <=> Wants(t, l)
    <2>1. CASE trap' = trap
      BY <1>1, <2>1 DEF Wants
    <2>2. CASE pc[Vm] = "handler"
      BY <1>1, <2>2 DEF Wants, WantsAt, InIrq
    <2>3. QED
      BY <2>1, <2>2
  <1>5. LockInv'
    BY <1>1, <1>3, <1>4 DEF Inv, LockInv
  <1>6. QED
    BY <1>1, <1>2, <1>3, <1>5

LEMMA AbleStays ==
    ASSUME Inv, UNCHANGED rest, trap' = trap \/ pc[Vm] = "handler", gate' = gate
    PROVE  \A t \in Thread : Able(t)' <=> Able(t)
  BY RestStays, AbleNext DEF Inv

LEMMA GateStays ==
    ASSUME GateInv, UNCHANGED <<pc, gate, sleeping>>, Inhibited' <=> Inhibited
    PROVE  GateInv'
  BY DEF GateInv

LEMMA IdleNext ==
    ASSUME Inv, IdleThread
    PROVE  Inv'
  <1>1. /\ runnable = Idle /\ Run(ring.next[Idle]) /\ ring' = ring /\ UNCHANGED <<gate, sleeping>>
        /\ UNCHANGED rest /\ UNCHANGED guest /\ runnable' = ring.next[runnable]
    BY DEF IdleThread, Yield, Run, Enter
  <1>2. UNCHANGED <<vm_state, context, elr_el2, esr_el2, trap>>
    BY <1>1 DEF guest
  <1>3. /\ PcInv' /\ LockInv' /\ pc' = pc /\ partner' = partner
        /\ Inhibited' <=> Inhibited
    BY <1>1, <1>2, RestStays
  <1>4. \A t \in Thread : Able(t)' <=> Able(t)
    BY <1>1, <1>2, AbleStays
  <1>5. PICK S : S = Live
    OBVIOUS
  <1>6. Runs(ring, runnable, S) /\ Members(S)
    BY <1>5 DEF Inv, RingInv
  <1>7. Runs(ring', runnable', S) /\ runnable' \in S
    BY <1>1, <1>6, RunsYield, RunsFacts
  <1>8. Members(S)'
    BY <1>1, <1>3, <1>4, <1>6, <1>7 DEF Members
  <1>9. RingInv' /\ Live' = Live
    BY <1>5, <1>7, <1>8, LiveNext
  <1>10. PICK u : u = ring.next[Idle]
    OBVIOUS
  <1>11. Run(u) /\ (u = Guest => pc[Vm] # "make_partner")
    BY <1>1, <1>6, <1>7, <1>10 DEF Members
  <1>12. WorldInv' /\ Mode' = Mode /\ Reg' = Reg
    BY <1>1, <1>3, <1>11, WorldSwitch DEF Inv
  <1>13. GateInv'
    BY <1>1, <1>3, GateStays DEF Inv
  <1>14. TrapInv'
    BY <1>2, <1>3, <1>9, <1>12, TrapStays DEF Inv
  <1>15. QED
    BY <1>3, <1>9, <1>12, <1>13, <1>14 DEF Inv

LEMMA IrqNext ==
    ASSUME Inv, Irq
    PROVE  Inv'
  <1>1. /\ runnable # InterruptThread /\ ring' = InsertBefore(ring, InterruptThread, runnable)
        /\ runnable' = InterruptThread /\ UNCHANGED <<gate, sleeping>> /\ UNCHANGED rest
        /\ IF ns THEN Leave(cpu) /\ UNCHANGED <<elr_el2, esr_el2, trap>>
                 ELSE UNCHANGED <<world, guest>>
    BY DEF Irq, InterruptTaken
  <1>2. UNCHANGED <<elr_el2, esr_el2, trap>>
    BY <1>1 DEF guest
  <1>3. /\ PcInv' /\ LockInv' /\ pc' = pc /\ partner' = partner
        /\ Inhibited' <=> Inhibited
    BY <1>1, <1>2, RestStays
  <1>4. \A t \in Thread : Able(t)' <=> Able(t)
    BY <1>1, <1>2, AbleStays
  <1>5. PICK S, head : S = Live /\ head = runnable
    OBVIOUS
  <1>6. Runs(ring, head, S) /\ Members(S) /\ InterruptThread \in Thread \ S
    BY <1>1, <1>5 DEF Inv, RingInv, Members
  <1>7. Runs(ring', runnable', S \union {InterruptThread})
    BY <1>1, <1>5, <1>6, RunsInsertBefore
  <1>8. Members(S \union {InterruptThread})'
    BY <1>1, <1>3, <1>4, <1>6 DEF Members
  <1>9. RingInv' /\ Live' = S \union {InterruptThread}
    BY <1>7, <1>8, LiveNext
  <1>10. (Guest \in Live)' <=> Guest \in Live
    BY <1>5, <1>9
  <1>11. /\ WorldInv' /\ Mode' = Mode /\ Reg' = Reg /\ vm_state'.hcr = vm_state.hcr
         /\ Guest \notin Live => context' = context
    <2>1. CASE runnable = Guest
      <3>1. ns /\ Guest \in Live /\ pc[Vm] # "make_partner"
        BY <1>5, <1>6, <2>1, RunsFacts DEF Inv, WorldInv, Members
      <3>2. Leave(cpu) /\ runnable' # Guest
        BY <1>1, <3>1
      <3>3. QED
        BY <1>2, <1>3, <2>1, <3>1, <3>2, WorldLeft DEF Inv
    <2>2. CASE runnable # Guest
      <3>1. ns = FALSE
        BY <2>2 DEF Inv, WorldInv
      <3>2. UNCHANGED <<world, guest>> /\ runnable' # Guest
        BY <1>1, <3>1
      <3>3. QED
        BY <1>3, <2>2, <3>2, WorldStays DEF Inv, guest
    <2>3. QED
      BY <2>1, <2>2
  <1>12. GateInv'
    BY <1>1, <1>3, GateStays DEF Inv
  <1>13. TrapInv'
    BY <1>2, <1>3, <1>10, <1>11, TrapStays DEF Inv
  <1>14. QED
    BY <1>3, <1>9, <1>11, <1>12, <1>13 DEF Inv

LEMMA IrqDoneNext ==
    ASSUME Inv, IrqDone
    PROVE  Inv'
  <1>1. /\ runnable = InterruptThread /\ ring' = Remove(ring, InterruptThread)
        /\ Run(ring.next[InterruptThread]) /\ UNCHANGED <<gate, sleeping>>
        /\ UNCHANGED rest /\ UNCHANGED guest /\ runnable' = ring.next[InterruptThread]
    BY DEF IrqDone, Run, Enter
  <1>2. UNCHANGED <<vm_state, context, elr_el2, esr_el2, trap>>
    BY <1>1 DEF guest
  <1>3. /\ PcInv' /\ LockInv' /\ pc' = pc /\ partner' = partner
        /\ Inhibited' <=> Inhibited
    BY <1>1, <1>2, RestStays
  <1>4. \A t \in Thread : Able(t)' <=> Able(t)
    BY <1>1, <1>2, AbleStays
  <1>5. PICK S : S = Live
    OBVIOUS
  <1>6. Runs(ring, InterruptThread, S) /\ Members(S) /\ S # {InterruptThread}
    BY <1>1, <1>5 DEF Inv, RingInv, Members
  <1>7. Runs(ring', runnable', S \ {InterruptThread}) /\ runnable' \in S \ {InterruptThread}
    BY <1>1, <1>6, RunsRemove
  <1>8. Members(S \ {InterruptThread})'
    BY <1>1, <1>3, <1>4, <1>6, <1>7 DEF Members
  <1>9. RingInv' /\ Live' = S \ {InterruptThread}
    BY <1>7, <1>8, LiveNext
  <1>10. PICK u : u = ring.next[InterruptThread]
    OBVIOUS
  <1>11. Run(u) /\ (u = Guest => pc[Vm] # "make_partner")
    BY <1>1, <1>6, <1>7, <1>10 DEF Members
  <1>12. WorldInv' /\ Mode' = Mode /\ Reg' = Reg
    BY <1>1, <1>3, <1>11, WorldSwitch DEF Inv
  <1>13. GateInv'
    BY <1>1, <1>3, GateStays DEF Inv
  <1>14. TrapInv'
    BY <1>2, <1>3, <1>5, <1>9, <1>12, TrapStays DEF Inv
  <1>15. QED
    BY <1>3, <1>9, <1>12, <1>13, <1>14 DEF Inv

(* A thread that waits at its gate waits for no lock. *)
LEMMA AtGate ==
    ASSUME Inv, NEW u \in {Sdcard, Ticker}, gate[u] = -1
    PROVE  /\ u \notin Live /\ Born(u)
           /\ \A l \in Locks : Waiter(l) # u
  <1>1. u \in Thread /\ LockInv /\ PcInv /\ GateInv /\ RingInv
    BY DEF Inv
  <1>2. u \notin Live
    BY <1>1, BlockedFacts DEF RingInv, Members, Able
  <1>3. pc[u] \in {"command", "claim emmc", "claim vm"}
    BY <1>1 DEF GateInv
  <1>4. Born(u)
    BY <1>1, <1>3 DEF PcInv
  <1>5. \A l \in Locks : Waiter(l) # u
    BY <1>1, <1>3, WantsIff DEF ClaimedAt, Locks
  <1>6. QED
    BY <1>2, <1>4, <1>5

LEMMA ExpireNext ==
    ASSUME Inv, NEW u \in Thread, Expire(u)
    PROVE  Inv'
  <1>1. /\ runnable = InterruptThread /\ u \in sleeping
        /\ ring' = InsertAfter(ring, u, InterruptThread)
        /\ gate' = [gate EXCEPT ![u] = 0] /\ sleeping' = sleeping \ {u}
        /\ UNCHANGED <<runnable, world, guest>> /\ UNCHANGED rest
    BY DEF Expire, Expired
  <1>2. UNCHANGED <<vm_state, context, elr_el2, esr_el2, trap>>
    BY <1>1 DEF guest
  <1>3. /\ PcInv' /\ LockInv' /\ pc' = pc /\ partner' = partner
        /\ Inhibited' <=> Inhibited
        /\ \A l \in Locks : Waiter(l)' = Waiter(l)
        /\ \A t \in Thread : Born(t)' <=> Born(t)
    BY <1>1, <1>2, RestStays
  <1>4. u \in {Sdcard, Ticker} /\ gate[u] = -1
    BY <1>1 DEF Inv, GateInv
  <1>5. /\ u \notin Live /\ Born(u)
        /\ \A l \in Locks : Waiter(l) # u
    BY <1>4, AtGate
  <1>6. gate \in [Thread -> -1 .. 1]
    BY DEF Inv, GateInv
  <1>7. /\ gate' \in [Thread -> -1 .. 1] /\ gate'[u] = 0
        /\ \A t \in Thread \ {u} : gate'[t] = gate[t]
    BY <1>1, <1>6
  <1>8. gate'[u] # -1
    BY <1>7
  <1>9. RingInv' /\ Live' = Live \union {u}
    <2>1. SchedInv /\ InterruptThread \in Ours \union {InterruptThread} /\ u \in Ours /\ u # Vm
      BY <1>4 DEF SchedInv, Inv, Ours
    <2>2. \A v \in Ours : v \in Thread
      BY DEF Ours
    <2>3. QED
      BY <1>1, <1>3, <1>5, <1>7, <1>8, <2>1, <2>2, Joins
  <1>10. (Guest \in Live)' <=> Guest \in Live
    BY <1>4, <1>9
  <1>11. WorldInv' /\ Mode' = Mode /\ Reg' = Reg
    BY <1>1, <1>3, WorldStays DEF Inv
  <1>12. GateInv'
    <2>1. CASE u = Sdcard
      <3>1. /\ Serves(pc[Sdcard], gate[Sdcard], Inhibited /\ pc[Vm] # "wake")
            /\ pc[Sdcard] = "claim emmc" /\ (pc[Vm] = "wake" => Inhibited) /\ GateInv
        BY <1>1, <2>1 DEF Inv, GateInv
      <3>2. Serves("claim emmc", 0, Inhibited' /\ pc'[Vm] # "wake")
        BY <1>3, <3>1 DEF Serves, InIrq
      <3>3. gate'[Sdcard] = 0 /\ gate'[Sdcard] # -1 /\ gate'[Sdcard] # 1
        BY <1>7, <2>1
      <3>4. Sdcard \notin sleeping' /\ sleeping' \subseteq sleeping \union {Sdcard}
        BY <1>1, <2>1
      <3>5. QED
        BY <1>3, <1>7, <2>1, <3>1, <3>2, <3>3, <3>4, GateOfSdcard
    <2>2. CASE u = Ticker
      <3>1. /\ gate'[Idle] = 0 /\ gate'[InterruptThread] = 0 /\ gate'[Guest] = 0
            /\ gate'[Vm] = gate[Vm] /\ gate'[Sdcard] = gate[Sdcard] /\ gate'[Ticker] = 0
            /\ sleeping' \subseteq sleeping \ {Ticker}
        BY <1>1, <1>7, <2>2 DEF Inv, GateInv
      <3>2. gate'[Ticker] \in {-1, 0} /\ gate'[Ticker] # -1
        BY <3>1
      <3>3. sleeping' \subseteq {t \in {Sdcard, Ticker} : gate'[t] = -1}
        BY <3>1 DEF Inv, GateInv
      <3>4. QED
        BY <1>3, <1>7, <3>1, <3>2, <3>3 DEF Inv, GateInv
    <2>3. QED
      BY <1>4, <2>1, <2>2
  <1>13. TrapInv'
    BY <1>2, <1>3, <1>10, <1>11, TrapStays DEF Inv
  <1>14. QED
    BY <1>3, <1>9, <1>11, <1>12, <1>13 DEF Inv

(* What the steps of the guest leave alone. *)
LEMMA GuestStep ==
    ASSUME Inv, runnable = Guest, UNCHANGED kernel, UNCHANGED rest
    PROVE  /\ PcInv' /\ LockInv' /\ RingInv' /\ GateInv' /\ Live' = Live /\ Guest \in Live
           /\ pc[Vm] = "handler" /\ pc' = pc /\ partner' = partner /\ ns /\ runnable' = Guest
           /\ Inhibited' <=> Inhibited
  <1>1. UNCHANGED <<ring, runnable, gate, sleeping>>
    BY DEF kernel
  <1>2. Guest \in Live /\ pc[Vm] = "handler" /\ ns
    <2>1. Guest \in Live
      BY RunsFacts DEF Inv, RingInv
    <2>2. QED
      BY <2>1 DEF Inv, RingInv, Members, WorldInv
  <1>3. /\ PcInv' /\ LockInv' /\ pc' = pc /\ partner' = partner
        /\ Inhibited' <=> Inhibited
    BY <1>2, RestStays
  <1>4. \A t \in Thread : Able(t)' <=> Able(t)
    BY <1>1, <1>2, AbleStays
  <1>5. Live' = Live
    BY <1>1 DEF Live
  <1>6. RingInv'
    BY <1>1, <1>3, <1>4, <1>5 DEF Inv, RingInv, Members
  <1>7. GateInv'
    BY <1>1, <1>3, GateStays DEF Inv
  <1>8. QED
    BY <1>1, <1>2, <1>3, <1>5, <1>6, <1>7

LEMMA ComputeNext ==
    ASSUME Inv, Compute
    PROVE  Inv'
  <1>1. PICK v \in Value :
           \/ cpu' = [cpu EXCEPT !.reg = v] /\ UNCHANGED sys
           \/ sys' = [sys EXCEPT !.el1 = v] /\ UNCHANGED cpu
    BY DEF Compute
  <1>2. /\ runnable = Guest /\ cpu.mode = "guest" /\ UNCHANGED <<kernel, ns, guest, rest>>
    BY DEF Compute, GuestRuns
  <1>3. UNCHANGED <<vm_state, context, elr_el2, esr_el2, trap>>
    BY <1>2 DEF guest
  <1>4. /\ PcInv' /\ LockInv' /\ RingInv' /\ GateInv' /\ Live' = Live /\ Guest \in Live
        /\ pc[Vm] = "handler" /\ pc' = pc /\ partner' = partner /\ ns /\ runnable' = Guest
        /\ Inhibited' <=> Inhibited
    BY <1>2, GuestStep
  <1>5. /\ cpu \in [mode : Modes, pc : {0, 1}, reg : 0 .. 3]
        /\ sys \in [el1 : {0, 1}, hcr : SUBSET (0 .. 63)] /\ sys.hcr = vm_state.hcr
        /\ v \in {0, 1} /\ v \in 0 .. 3
    BY <1>4 DEF Inv, WorldInv
  <1>6. /\ cpu' \in [mode : Modes, pc : {0, 1}, reg : 0 .. 3] /\ cpu'.mode = cpu.mode
        /\ cpu'.reg \in {cpu.reg, 0, 1}
        /\ sys' \in [el1 : {0, 1}, hcr : SUBSET (0 .. 63)] /\ sys'.hcr = sys.hcr
    BY <1>1, <1>5
  <1>7. WorldInv' /\ Mode' = "guest" /\ Reg' \in {Reg, 0, 1}
    BY <1>2, <1>3, <1>4, <1>5, <1>6 DEF Inv, WorldInv, Mode, Reg
  <1>8. TrapInv'
    <2>1. HcrInv'
      BY <1>3, <1>4 DEF Inv, TrapInv, HcrInv
    <2>2. Reg' = StatusIdle => ~Inhibited'
      <3>1. Reg = StatusIdle => ~Inhibited
        BY DEF Inv, TrapInv, El2Inv
      <3>2. 0 # StatusIdle /\ 1 # StatusIdle
        BY DEF StatusIdle
      <3>3. QED
        BY <1>4, <1>7, <3>1, <3>2
    <2>3. QED
      BY <1>4, <1>7, <2>1, <2>2 DEF TrapInv, El2Inv
  <1>9. QED
    BY <1>4, <1>7, <1>8 DEF Inv

LEMMA GuestTrapsNext ==
    ASSUME Inv, GuestTraps
    PROVE  Inv'
  <1>1. PICK why \in Traps \intersect Uses :
           TrapToEL2(why, IF why \in {"cmd7", "cmd"} THEN 0 ELSE cpu.reg)
    BY DEF GuestTraps
  <1>2. /\ runnable = Guest /\ cpu.mode = "guest"
        /\ UNCHANGED <<kernel, ns, sys, vm_state, context, trap, rest>>
    BY DEF GuestTraps, GuestRuns
  <1>3. /\ PcInv' /\ LockInv' /\ RingInv' /\ GateInv' /\ Live' = Live /\ Guest \in Live
        /\ pc[Vm] = "handler" /\ pc' = pc /\ partner' = partner /\ ns /\ runnable' = Guest
        /\ Inhibited' <=> Inhibited
    BY <1>2, GuestStep
  <1>4. /\ cpu \in [mode : Modes, pc : {0, 1}, reg : 0 .. 3]
        /\ sys.hcr = vm_state.hcr
    BY <1>3 DEF Inv, WorldInv
  <1>5. PICK v : v = (IF why \in {"cmd7", "cmd"} THEN 0 ELSE cpu.reg)
    OBVIOUS
  <1>6. /\ elr_el2' = cpu.pc /\ esr_el2' = why /\ cpu' = [cpu EXCEPT !.mode = "el2", !.reg = v]
        /\ v \in 0 .. 3
    BY <1>1, <1>4, <1>5 DEF TrapToEL2
  <1>7. /\ cpu' \in [mode : Modes, pc : {0, 1}, reg : 0 .. 3] /\ cpu'.mode = "el2"
        /\ cpu'.reg = v /\ elr_el2' \in {0, 1}
    BY <1>4, <1>6 DEF Modes
  <1>8. /\ why \in Why
        /\ why = "early ack" => VI \notin vm_state.hcr
        /\ why = "cp15 write" => cpu.reg \in {0, 1}
        /\ why \in {"cmd7", "cmd"} => cpu.reg = StatusIdle
    BY <1>1, <1>4 DEF Traps, Why, Emulated, EmmcAccess, IrqAccess, OtherDevice, Cp15
  <1>9. WorldInv' /\ Mode' = "el2" /\ Reg' = v /\ Reg = cpu.reg
    BY <1>2, <1>3, <1>6, <1>7, <1>8 DEF Inv, WorldInv, Mode, Reg
  <1>10. TrapInv'
    <2>1. HcrInv'
      BY <1>2, <1>3 DEF Inv, TrapInv, HcrInv
    <2>2. cpu.reg = StatusIdle => ~Inhibited
      BY <1>9 DEF Inv, TrapInv, El2Inv
    <2>3. CASE why \in {"cmd7", "cmd"}
      <3>1. v = 0 /\ ~Inhibited' /\ v # StatusIdle
        <4>1. v = 0 /\ ~Inhibited'
          BY <1>3, <1>5, <1>8, <2>2, <2>3
        <4>2. 0 # StatusIdle
          BY DEF StatusIdle
        <4>3. QED
          BY <4>1, <4>2
      <3>2. why \notin {"early ack", "cp15 write"}
        BY <2>3
      <3>3. QED
        BY <1>2, <1>3, <1>6, <1>8, <1>9, <2>1, <3>1, <3>2 DEF TrapInv, El2Inv
    <2>4. CASE why \notin {"cmd7", "cmd"}
      BY <1>2, <1>3, <1>5, <1>6, <1>8, <1>9, <2>1, <2>2, <2>4 DEF TrapInv, El2Inv
    <2>5. QED
      BY <2>3, <2>4
  <1>11. QED
    BY <1>3, <1>9, <1>10 DEF Inv

LEMMA StoreTrapNext ==
    ASSUME Inv, runnable = Guest, StoreTrap, UNCHANGED rest, UNCHANGED <<gate, sleeping>>,
           UNCHANGED <<ring, runnable, ns, sys, vm_state, context, elr_el2, esr_el2>>
    PROVE  Inv'
  <1>1. UNCHANGED kernel
    BY DEF kernel
  <1>2. /\ PcInv' /\ LockInv' /\ RingInv' /\ GateInv' /\ Live' = Live /\ Guest \in Live
        /\ pc[Vm] = "handler" /\ pc' = pc /\ partner' = partner /\ ns /\ runnable' = Guest
        /\ Inhibited' <=> Inhibited
    BY <1>1, GuestStep
  <1>3. cpu \in [mode : Modes, pc : {0, 1}, reg : 0 .. 3]
    BY <1>2 DEF Inv, WorldInv
  <1>4. /\ cpu.mode = "el2" /\ trap' = [pc |-> elr_el2, esr |-> esr_el2]
        /\ cpu' = [cpu EXCEPT !.mode = "el2 stored"]
    BY DEF StoreTrap
  <1>5. /\ cpu' \in [mode : Modes, pc : {0, 1}, reg : 0 .. 3] /\ cpu'.mode = "el2 stored"
        /\ cpu'.reg = cpu.reg
    BY <1>3, <1>4 DEF Modes
  <1>6. trap' \in [pc : {0, 1}, esr : Why \union {"none"}]
    BY <1>4 DEF Inv, WorldInv
  <1>7. WorldInv' /\ Mode' = "el2 stored" /\ Reg' = Reg /\ Mode = "el2"
    BY <1>2, <1>4, <1>5, <1>6 DEF Inv, WorldInv, Mode, Reg
  <1>8. TrapInv'
    <2>1. HcrInv'
      BY <1>2 DEF Inv, TrapInv, HcrInv
    <2>2. El2Inv'
      BY <1>2, <1>4, <1>7 DEF Inv, TrapInv, El2Inv
    <2>3. QED
      BY <1>2, <2>1, <2>2 DEF TrapInv
  <1>9. QED
    BY <1>2, <1>7, <1>8 DEF Inv

LEMMA SwitchToSecureNext ==
    ASSUME Inv, runnable = Guest, SwitchToSecure, UNCHANGED rest, UNCHANGED <<gate, sleeping>>
    PROVE  Inv'
  <1>1. Guest \in Live /\ pc[Vm] = "handler" /\ ns /\ Vm \notin Live
    <2>1. Guest \in Live
      BY RunsFacts DEF Inv, RingInv
    <2>2. QED
      BY <2>1 DEF Inv, RingInv, Members, WorldInv
  <1>2. /\ PcInv' /\ LockInv' /\ pc' = pc /\ partner' = partner
        /\ Inhibited' <=> Inhibited
    BY <1>1, RestStays
  <1>3. \A t \in Thread : Able(t)' <=> Able(t)
    BY <1>1, AbleStays
  <1>4. /\ cpu.mode = "el2 stored" /\ ring' = Exchanged(ring, Guest, Vm) /\ runnable' = Vm
        /\ UNCHANGED <<elr_el2, esr_el2, trap>>
        /\ context' = [cpu EXCEPT !.mode = "guest", !.pc = elr_el2]
        /\ ns' = ~ns /\ vm_state' = sys /\ sys' = SecureRegs /\ cpu' = NoCpu
    BY DEF SwitchToSecure, Leave
  <1>5. PICK S : S = Live
    OBVIOUS
  <1>6. Runs(ring, Guest, S) /\ Members(S) /\ S # {Guest} /\ Vm \in Thread \ S
    BY <1>1, <1>5 DEF Inv, RingInv, Members
  <1>7. Runs(ring', runnable', (S \ {Guest}) \union {Vm})
    BY <1>4, <1>6, RunsExchanged
  <1>8. Members((S \ {Guest}) \union {Vm})'
    <2>1. /\ Idle \in (S \ {Guest}) \union {Vm}
          /\ InterruptThread \notin (S \ {Guest}) \union {Vm}
          /\ runnable' # InterruptThread
      BY <1>4, <1>6 DEF Members
    <2>2. \A t \in {Sdcard, Ticker} : t \in (S \ {Guest}) \union {Vm} <=> Able(t)'
      BY <1>3, <1>6 DEF Members
    <2>3. Able(Vm)'
      BY <1>1, <1>3, <1>5, <1>6 DEF Members
    <2>4. QED
      BY <2>1, <2>2, <2>3 DEF Members
  <1>9. RingInv' /\ Live' = (S \ {Guest}) \union {Vm}
    BY <1>7, <1>8, LiveNext
  <1>10. /\ cpu \in [mode : Modes, pc : {0, 1}, reg : 0 .. 3]
         /\ sys \in [el1 : {0, 1}, hcr : SUBSET (0 .. 63)] /\ sys.hcr = vm_state.hcr
         /\ elr_el2 \in {0, 1}
    BY <1>1 DEF Inv, WorldInv
  <1>11. /\ context' \in [mode : Modes \union {"none"}, pc : {0, 1}, reg : 0 .. 3]
         /\ context'.mode = "guest" /\ context'.pc = elr_el2 /\ context'.reg = cpu.reg
    BY <1>4, <1>10 DEF Modes
  <1>12. ns' = FALSE
    BY <1>1, <1>4
  <1>13. WorldInv' /\ Mode' = "guest" /\ Reg' = Reg /\ Mode = "el2 stored"
    BY <1>1, <1>2, <1>4, <1>10, <1>11, <1>12 DEF Inv, WorldInv, Mode, Reg
  <1>14. GateInv'
    BY <1>2, GateStays DEF Inv
  <1>15. vm_state'.hcr = vm_state.hcr
    BY <1>4, <1>10
  <1>16. HcrInv'
    BY <1>2, <1>15 DEF Inv, TrapInv, HcrInv
  <1>17. El2Inv'
    BY <1>2, <1>13 DEF Inv, TrapInv, El2Inv
  <1>18. HandlerInv'
    <2>1. /\ esr_el2 \in Why
          /\ esr_el2 = "early ack" => VI \notin vm_state.hcr
          /\ esr_el2 = "cp15 write" => Reg \in {0, 1}
          /\ esr_el2 \in {"cmd7", "cmd"} => ~Inhibited /\ Reg # StatusIdle
          /\ trap = [pc |-> elr_el2, esr |-> esr_el2]
      BY <1>13 DEF Inv, TrapInv, El2Inv
    <2>2. trap.esr = esr_el2
      BY <2>1
    <2>3. pc'[Vm] = "handler"
      BY <1>1, <1>2
    <2>4. QED
      BY <1>2, <1>4, <1>11, <1>13, <1>15, <2>1, <2>2, <2>3 DEF HandlerInv, HandlerAt, InEmmc, InIrq
  <1>19. TrapInv'
    BY <1>16, <1>17, <1>18 DEF TrapInv
  <1>20. QED
    BY <1>2, <1>9, <1>13, <1>14, <1>19 DEF Inv

LEMMA EL2Next ==
    ASSUME Inv, EL2
    PROVE  Inv'
  BY StoreTrapNext, SwitchToSecureNext DEF EL2

-----------------------------------------------------------------------------
(* The steps of Vm *)

VmIs(from, to) ==
    /\ StepInv(Vm, to) /\ pc[Vm] = from /\ gate[Vm] # -1 /\ Moves(Vm, to)
    /\ PcInv /\ LockInv /\ RingInv /\ GateInv /\ WorldInv /\ DataInv
    /\ HcrInv /\ El2Inv /\ HandlerInv
    /\ pc'[Vm] = to /\ runnable = Vm /\ ns = FALSE /\ Guest \notin Live
    /\ Mode = context.mode /\ Reg = context.reg /\ Mode \notin {"el2", "el2 stored"}

SameSide(from, to) ==
    SameStage(from, to) /\ from # "make_partner" /\ to # "make_partner"

LEMMA VmStepIs ==
    ASSUME Inv, NEW from, NEW to, Step(Vm, from, to), partner' = partner, SameSide(from, to)
    PROVE  VmIs(from, to)
  <1>1. Vm \in Ours
    BY DEF Ours
  <1>2. /\ StepInv(Vm, to) /\ pc[Vm] = from /\ gate[Vm] # -1 /\ Moves(Vm, to)
        /\ PcInv /\ LockInv /\ RingInv /\ GateInv /\ WorldInv /\ TrapInv /\ DataInv
    BY <1>1, StepIs DEF SameSide
  <1>3. runnable = Vm /\ SchedInv
    BY <1>2 DEF StepInv, SchedInv
  <1>4. Guest \notin Live
    BY <1>1, <1>3, RunningFacts
  <1>5. HcrInv /\ El2Inv /\ HandlerInv
    BY <1>2, <1>4 DEF TrapInv
  <1>6. ns = FALSE /\ Mode = context.mode /\ Reg = context.reg
    BY <1>2, <1>3 DEF WorldInv, Mode, Reg
  <1>7. Mode \notin {"el2", "el2 stored"}
    BY <1>4, <1>5 DEF El2Inv
  <1>8. pc'[Vm] = to
    BY <1>2 DEF PcInv, Moves
  <1>9. QED
    BY <1>2, <1>3, <1>4, <1>5, <1>6, <1>7, <1>8 DEF VmIs

(* After a trap is handled, or before. *)
LEMMA HandlerDone ==
    ASSUME pc'[Vm] \notin {"handler", "ack", "cp15", "claim emmc", "claim irq"}
                          \union InEmmc \union InIrq
    PROVE  HandlerInv'
  BY DEF HandlerInv, HandlerAt, InEmmc

LEMMA VmStep ==
    ASSUME NEW from, NEW to, VmIs(from, to), Shared, from # "registers", to # "registers",
           PcInv', GateInv', HandlerInv', Reg = StatusIdle => ~Inhibited'
    PROVE  Inv'
  <1>1. UNCHANGED <<vm_state, context, elr_el2, esr_el2, trap>>
    BY DEF Shared, guest
  <1>2. HcrInv'
    BY <1>1 DEF VmIs, HcrInv, StepInv, SameFor
  <1>3. El2Inv'
    BY DEF VmIs, El2Inv, Shared
  <1>4. QED
    BY <1>2, <1>3 DEF Shared, TrapInv, Inv

(* Its steps that leave emmc_state and its gate alone. *)
LEMMA VmQuiet ==
    ASSUME NEW from, NEW to, VmIs(from, to), Shared, HandlerInv', DataInv',
           UNCHANGED <<sdcard_thread, emmc_state, gate, sleeping>>,
           from \notin {"registers", "wake", "woken"}, to \notin {"registers", "wake", "woken"},
           to \in VmAt, to \in NoSdcard \union {"sdcard?"} \/ sdcard_thread = Sdcard
    PROVE  Inv'
  <1>1. Inhibited' <=> Inhibited
    BY DEF Inhibited
  <1>2. GateInv'
    BY <1>1, GateVm DEF VmIs
  <1>3. PcInv'
    <2>1. Vm \in Ours /\ Born(Vm) /\ SameStage(pc[Vm], to) /\ Vm # Sdcard /\ Vm # Ticker
      BY DEF Ours, Born, VmIs, StepInv, SameFor
    <2>2. QED
      BY <2>1, PcStep DEF VmIs
  <1>4. Reg = StatusIdle => ~Inhibited'
    BY <1>1 DEF VmIs, El2Inv
  <1>5. QED
    BY <1>2, <1>3, <1>4, VmStep

(* From its loop on there is a card. *)
LEMMA CardThere ==
    ASSUME PcInv, pc[Vm] \notin NoSdcard \union {"sdcard?"}
    PROVE  sdcard_thread = Sdcard
  BY DEF PcInv

LEMMA LoopPlaces ==
    /\ {"switch", "release vm", "waiting?", "claim vm", "woken"} \subseteq VmAt \ (NoTicker \union Handling)
    /\ Handling \subseteq VmAt \ Outside
    /\ NoSdcard \subseteq NoTicker /\ NoTicker \subseteq Outside /\ "sdcard?" \in NoTicker
    /\ "make_partner" \in NoSdcard /\ "registers" \in NoSdcard
  BY DEF VmAt, Outside, NoTicker, NoSdcard, Handling, InIrq, InEmmc

LEMMA LoopStage ==
    ASSUME NEW from \in VmAt \ NoTicker, NEW to \in VmAt \ NoTicker
    PROVE  SameSide(from, to) /\ from \notin NoSdcard \union {"sdcard?", "registers"}
           /\ to \notin NoSdcard \union {"sdcard?", "registers"}
  BY LoopPlaces DEF SameSide, SameStage

(* The same, of the loop and of vm_handler. *)
LEMMA LoopQuiet ==
    ASSUME NEW from \in VmAt \ NoTicker, NEW to \in VmAt \ NoTicker, VmIs(from, to), Shared,
           HandlerInv', UNCHANGED <<threads, devices, stopped, gate, sleeping>>,
           from \notin {"wake", "woken"}, to \notin {"wake", "woken"}
    PROVE  Inv'
  <1>1. /\ from \notin NoSdcard \union {"sdcard?", "registers"}
        /\ to \notin NoSdcard \union {"sdcard?", "registers"}
    BY LoopStage
  <1>2. sdcard_thread = Sdcard
    BY <1>1, CardThere DEF VmIs
  <1>3. DataInv' /\ UNCHANGED <<sdcard_thread, emmc_state, gate, sleeping>>
    BY DataStays DEF threads, devices, VmIs
  <1>4. QED
    BY <1>1, <1>2, <1>3, VmQuiet

LEMMA HandlerMoves ==
    ASSUME NEW from, NEW to, VmIs(from, to), Shared, Inhibited' <=> Inhibited, HandlerAt(to)
    PROVE  HandlerInv'
  <1>1. UNCHANGED <<vm_state, context, elr_el2, esr_el2, trap>> /\ Reg' = Reg /\ pc'[Vm] = to
    BY DEF Shared, guest, VmIs
  <1>2. QED
    BY <1>1 DEF HandlerInv, HandlerAt

(* A step of the loop, or of vm_handler. *)
InLoop(from, to) ==
    /\ from \in VmAt \ NoTicker /\ to \in VmAt \ NoTicker
    /\ from \notin {"wake", "woken"} /\ to \notin {"wake", "woken"}

LEMMA VmLocal ==
    ASSUME Inv, NEW from, NEW to, InLoop(from, to), Local(Vm, from, to),
           UNCHANGED <<threads, devices>>, SameWants(Vm, to), HandlerAt(to)
    PROVE  Inv'
  <1>1. Step(Vm, from, to) /\ UNCHANGED <<lock, kernel, partner, world, guest, stopped>>
    BY DEF Local
  <1>2. VmIs(from, to)
    BY <1>1, VmStepIs, LoopStage DEF InLoop
  <1>3. UNCHANGED <<ring, runnable, gate, sleeping, world, guest>> /\ Vm \in Ours
    BY <1>1 DEF kernel, Ours
  <1>4. Shared
    BY <1>1, <1>2, <1>3, LocalShared DEF VmIs
  <1>5. HandlerInv'
    BY <1>1, <1>2, <1>4, HandlerMoves, DataStays DEF VmIs
  <1>6. QED
    BY <1>1, <1>2, <1>3, <1>4, <1>5, LoopQuiet DEF InLoop

LEMMA VmYields ==
    ASSUME Inv, NEW from, NEW to, InLoop(from, to), Yields(Vm, from, to),
           SameWants(Vm, to), HandlerAt(to)
    PROVE  Inv'
  <1>1. /\ Step(Vm, from, to) /\ Yield(Vm)
        /\ UNCHANGED <<lock, threads, devices, gate, sleeping, partner, stopped>>
    BY DEF Yields
  <1>2. VmIs(from, to)
    BY <1>1, VmStepIs, LoopStage DEF InLoop
  <1>3. Vm \in Ours
    BY DEF Ours
  <1>4. Shared
    BY <1>1, <1>2, <1>3, YieldShared DEF VmIs
  <1>5. HandlerInv'
    BY <1>1, <1>2, <1>4, HandlerMoves, DataStays DEF VmIs
  <1>6. QED
    BY <1>1, <1>2, <1>4, <1>5, LoopQuiet DEF InLoop

LEMMA VmClaims ==
    ASSUME Inv, NEW from, NEW to, InLoop(from, to), NEW l \in Locks, Claims(Vm, l, from, to),
           Claiming(Vm, l, to), HandlerAt(to)
    PROVE  Inv'
  <1>1. /\ Step(Vm, from, to) /\ Claimed(l, Vm) /\ ClaimRuns(lock[l], Vm)
        /\ UNCHANGED <<threads, devices, gate, sleeping, partner, stopped>>
    BY DEF Claims, Claimed, Becomes
  <1>2. VmIs(from, to)
    BY <1>1, VmStepIs, LoopStage DEF InLoop
  <1>3. Vm \in Ours
    BY DEF Ours
  <1>4. Shared
    BY <1>1, <1>2, <1>3, ClaimShared DEF VmIs
  <1>5. HandlerInv'
    BY <1>1, <1>2, <1>4, HandlerMoves, DataStays DEF VmIs
  <1>6. QED
    BY <1>1, <1>2, <1>4, <1>5, LoopQuiet DEF InLoop

LEMMA VmReleases ==
    ASSUME Inv, NEW from, NEW to, InLoop(from, to), NEW l \in Locks, Releases(Vm, l, from, to),
           Releasing(Vm, l, to), HandlerAt(to)
    PROVE  Inv'
  <1>1. /\ Step(Vm, from, to) /\ Released(l) /\ ReleaseRuns(lock[l])
        /\ UNCHANGED <<threads, devices, gate, sleeping, partner, stopped>>
    BY DEF Releases, Released, Becomes
  <1>2. VmIs(from, to)
    BY <1>1, VmStepIs, LoopStage DEF InLoop
  <1>3. Vm \in Ours
    BY DEF Ours
  <1>4. Shared
    BY <1>1, <1>2, <1>3, ReleaseShared DEF VmIs
  <1>5. HandlerInv'
    BY <1>1, <1>2, <1>4, HandlerMoves, DataStays DEF VmIs
  <1>6. QED
    BY <1>1, <1>2, <1>4, <1>5, LoopQuiet DEF InLoop

(* A system call about the partner, in the middle of vm_handler. *)
LEMMA VmCalls ==
    ASSUME Inv, NEW from, NEW to, SameSide(from, to), Calls(from, to),
           UNCHANGED <<threads, devices>>, SameWants(Vm, to), to # "registers",
           from \notin {"wake", "woken"}, to \in VmAt \ {"wake", "woken"},
           to \in NoSdcard \union {"sdcard?"} \/ sdcard_thread = Sdcard,
           context' \in [mode : Modes \union {"none"}, pc : {0, 1}, reg : 0 .. 3],
           context'.mode = context.mode, context'.reg = StatusIdle => ~Inhibited,
           vm_state' \in [el1 : {0, 1}, hcr : SUBSET (0 .. 63)],
           vm_state'.hcr \ {VI} = HCR2 \intersect Word, HandlerInv'
    PROVE  Inv'
  <1>1. /\ Step(Vm, from, to) /\ trap' = trap
        /\ UNCHANGED <<lock, kernel, partner, world, elr_el2, esr_el2, stopped>>
    BY DEF Calls
  <1>2. VmIs(from, to)
    BY <1>1, VmStepIs
  <1>3. UNCHANGED <<ring, runnable, gate, sleeping, ns, sys, cpu>> /\ Vm \in Ours /\ SchedInv
    BY <1>1, <1>2 DEF kernel, world, Ours, SchedInv, VmIs
  <1>4. DataInv' /\ sdcard_thread' = sdcard_thread /\ (Inhibited' <=> Inhibited)
    BY <1>1, <1>2, DataStays DEF VmIs
  <1>5. LockInv' /\ RingInv' /\ Live' = Live
    BY <1>1, <1>2, <1>3, Stays DEF VmIs, SameWants, SameSide
  <1>6. PcInv'
    <2>1. Born(Vm) /\ SameStage(pc[Vm], to) /\ Vm # Sdcard /\ Vm # Ticker
      BY <1>2 DEF Born, VmIs, SameSide
    <2>2. QED
      BY <1>2, <1>3, <1>4, <2>1, PcStep DEF VmIs
  <1>7. GateInv'
    BY <1>2, <1>3, <1>4, GateVm DEF VmIs
  <1>8. WorldInv' /\ Mode' = Mode /\ Reg' = context'.reg
    BY <1>1, <1>2, <1>3 DEF WorldInv, VmIs, Mode, Reg, SameSide
  <1>9. HcrInv'
    BY <1>2 DEF HcrInv, VmIs, SameSide
  <1>10. El2Inv'
    BY <1>2, <1>4, <1>5, <1>8 DEF El2Inv, VmIs
  <1>11. QED
    BY <1>5, <1>6, <1>7, <1>8, <1>9, <1>10 DEF Inv, TrapInv

LEMMA InLoopFacts ==
    ASSUME NEW from \in (Handling \ {"wake"}) \union {"switch", "release vm", "ticker?", "claim vm", "waiting?"},
           NEW to \in (Handling \ {"wake"}) \union {"switch", "release vm", "ticker?", "claim vm", "waiting?"}
    PROVE  InLoop(from, to) /\ SameSide(from, to)
  <1>1. "ticker?" \in VmAt \ NoTicker /\ "woken" \notin Handling
    BY DEF VmAt, Outside, NoTicker, NoSdcard, Handling, InIrq, InEmmc
  <1>2. from \in VmAt \ NoTicker /\ to \in VmAt \ NoTicker
    BY <1>1, LoopPlaces
  <1>3. from \notin {"wake", "woken"} /\ to \notin {"wake", "woken"}
    BY <1>1
  <1>4. InLoop(from, to)
    BY <1>2, <1>3 DEF InLoop
  <1>5. QED
    BY <1>4, LoopStage DEF InLoop

(* The invariants, while Vm runs in vm_handler. *)
LEMMA VmFacts ==
    ASSUME Inv, runnable = Vm
    PROVE  /\ PcInv /\ LockInv /\ RingInv /\ GateInv /\ WorldInv /\ DataInv
           /\ HcrInv /\ El2Inv /\ HandlerAt(pc[Vm]) /\ HandlerInv
           /\ Reg = context.reg /\ Mode = context.mode /\ ns = FALSE
           /\ Guest \notin Live /\ (\A l \in Locks : Waiter(l) # Vm)
  <1>1. Vm \in Ours /\ SchedInv
    BY DEF Ours, Inv, SchedInv
  <1>2. Guest \notin Live /\ \A l \in Locks : Waiter(l) # Vm
    BY <1>1, RunningFacts
  <1>3. HandlerInv
    BY <1>2 DEF Inv, TrapInv
  <1>4. QED
    BY <1>2, <1>3 DEF Inv, TrapInv, PcInv, HandlerInv, WorldInv, Reg, Mode

(* Calls in vm_handler: a new value for the guest's register. *)
LEMMA VmSetsReg ==
    ASSUME Inv, NEW from \in Handling \ {"wake"}, NEW to \in {"release vm", "release emmc", "release irq"},
           Calls(from, to), UNCHANGED <<threads, devices, vm_state>>, SameWants(Vm, to),
           HandlerAt(to), NEW v \in 0 .. 3, SetPartnerReg(v), v = StatusIdle => ~Inhibited
    PROVE  Inv'
  <1>1. pc[Vm] = from /\ runnable = Vm /\ Step(Vm, from, to) /\ UNCHANGED <<partner, trap, elr_el2, esr_el2>>
    BY DEF Calls, Step
  <1>2. to \in Handling \ {"wake"} \/ to = "release vm"
    BY DEF Handling, InEmmc, InIrq
  <1>3. SameSide(from, to) /\ InLoop(from, to)
    BY <1>2, InLoopFacts
  <1>4. /\ PcInv /\ WorldInv /\ HcrInv
        /\ context \in [mode : Modes \union {"none"}, pc : {0, 1}, reg : 0 .. 3]
        /\ vm_state \in [el1 : {0, 1}, hcr : SUBSET (0 .. 63)]
    BY <1>1, VmFacts DEF WorldInv
  <1>5. /\ from \notin NoSdcard \union {"sdcard?", "registers"}
        /\ to \notin NoSdcard \union {"sdcard?", "registers"}
    BY <1>3, LoopStage DEF InLoop
  <1>6. sdcard_thread = Sdcard /\ vm_state'.hcr \ {VI} = HCR2 \intersect Word
    BY <1>1, <1>3, <1>4, <1>5, CardThere DEF HcrInv, SameSide
  <1>7. /\ context' \in [mode : Modes \union {"none"}, pc : {0, 1}, reg : 0 .. 3]
        /\ context'.mode = context.mode /\ context'.reg = v
    BY <1>4 DEF SetPartnerReg
  <1>8. HandlerInv'
    <2>1. pc'[Vm] = to
      BY <1>1, <1>4 DEF Step, PcInv
    <2>2. CASE to = "release vm"
      BY <2>1, <2>2, HandlerDone DEF InEmmc, InIrq
    <2>3. CASE to # "release vm"
      BY <1>1, <2>1, <2>3 DEF HandlerInv, HandlerAt
    <2>4. QED
      BY <2>2, <2>3
  <1>9. QED
    BY <1>3, <1>4, <1>5, <1>6, <1>7, <1>8, VmCalls DEF InLoop

LEMMA ValueFacts == \A v \in Value : v \in 0 .. 3 /\ v # StatusIdle
  BY DEF StatusIdle

LEMMA ReturnsNext ==
    ASSUME Inv, NEW from \in {"mailbox", "timer", "bsc"}, Returns(from, "release vm")
    PROVE  Inv'
  <1>1. PICK v \in Value : SetPartnerReg(v)
    BY DEF Returns
  <1>2. Calls(from, "release vm") /\ UNCHANGED <<threads, devices, vm_state>>
    BY DEF Returns
  <1>3. v \in 0 .. 3
    BY <1>1, ValueFacts
  <1>4. v # StatusIdle
    BY <1>1, ValueFacts
  <1>5. pc[Vm] = from
    BY <1>2 DEF Calls, Step
  <1>6. SameWants(Vm, "release vm")
    BY <1>5 DEF SameWants, WantsAt, Outside, NoTicker, NoSdcard, InIrq, InEmmc
  <1>7. from \in Handling \ {"wake"} /\ HandlerAt("release vm")
    BY DEF Handling, HandlerAt, InIrq, InEmmc
  <1>8. QED
    BY <1>1, <1>2, <1>3, <1>4, <1>6, <1>7, VmSetsReg

LEMMA HandleNext ==
    ASSUME Inv, Handle
    PROVE  Inv'
  <1> DEFINE To == CASE trap.esr \in Cp15 -> "cp15"
                     [] trap.esr \in {"ack", "early ack"} -> "ack"
                     [] trap.esr \in {"wfi", "hvc"} -> "release vm"
                     [] trap.esr = "bad" -> "bad"
                     [] OTHER -> Device(trap.esr)
  <1>1. /\ next_pc' = NextPc /\ waiting' = (waiting \/ trap.esr = "wfi")
        /\ Local(Vm, "handler", To)
        /\ UNCHANGED <<sdcard_thread, ticker_thread_running, devices>>
    BY DEF Handle
  <1> HIDE DEF To
  <1>2. PICK to : to = To
    OBVIOUS
  <1>3. /\ Step(Vm, "handler", to)
        /\ UNCHANGED <<lock, kernel, partner, world, guest, stopped>>
    BY <1>1, <1>2 DEF Local
  <1>4. pc[Vm] = "handler" /\ runnable = Vm
    BY <1>3 DEF Step
  <1>5. HandlerAt("handler") /\ PcInv /\ DataInv /\ WorldInv
    BY <1>4, VmFacts
  <1>6. trap.esr \in Why
    BY <1>5 DEF HandlerAt
  <1>7. /\ to \in {"cp15", "ack", "release vm", "bad", "claim emmc", "claim irq", "mailbox", "timer", "bsc"}
        /\ to = "ack" => trap.esr \in {"ack", "early ack"}
        /\ to = "claim emmc" => trap.esr \in EmmcAccess
        /\ to = "claim irq" => trap.esr \in IrqAccess
    BY <1>2 DEF To, Device
  <1>8. to \in (Handling \ {"wake"}) \union {"release vm"} /\ "handler" \in Handling \ {"wake"}
    BY <1>7 DEF Handling
  <1>9. InLoop("handler", to) /\ SameSide("handler", to)
    BY <1>8, InLoopFacts
  <1>10. VmIs("handler", to)
    BY <1>3, <1>9, VmStepIs
  <1>11. SameWants(Vm, to)
    <2>1. to = "claim irq" => trap.esr \notin EmmcAccess
      BY <1>7 DEF IrqAccess, EmmcAccess
    <2>2. \A l : WantsAt(Vm, l, "handler", trap.esr) <=> l = "vm"
      BY DEF WantsAt, Outside, NoTicker, NoSdcard, InIrq, InEmmc
    <2>3. \A l : WantsAt(Vm, l, to, trap.esr) <=> l = "vm"
      BY <1>7, <2>1 DEF WantsAt, Outside, NoTicker, NoSdcard, InIrq, InEmmc
    <2>4. QED
      BY <1>4, <2>2, <2>3 DEF SameWants
  <1>12. UNCHANGED <<ring, runnable, gate, sleeping, world, guest>> /\ Vm \in Ours
    BY <1>3 DEF kernel, Ours
  <1>13. Shared
    BY <1>3, <1>10, <1>11, <1>12, LocalShared DEF VmIs
  <1>14. HandlerAt(to)
    BY <1>5, <1>7 DEF HandlerAt, InEmmc, InIrq
  <1>15. Inhibited' <=> Inhibited
    BY <1>1 DEF Inhibited, devices
  <1>16. HandlerInv'
    BY <1>10, <1>13, <1>14, <1>15, HandlerMoves
  <1>17. DataInv'
    <2>1. next_pc' \in {0, 1}
      <3>1. trap.pc \in {0, 1}
        BY <1>5 DEF WorldInv
      <3>2. QED
        BY <1>1, <3>1 DEF NextPc
    <2>2. waiting' \in BOOLEAN
      BY <1>1, Zenon
    <2>3. QED
      BY <1>1, <1>3, <1>5, <2>1, <2>2 DEF DataInv, devices
  <1>18. sdcard_thread = Sdcard
    BY <1>4, <1>5, CardThere DEF NoSdcard
  <1>19. UNCHANGED <<sdcard_thread, emmc_state, gate, sleeping>>
    BY <1>1, <1>12 DEF devices
  <1>20. QED
    BY <1>9, <1>10, <1>13, <1>16, <1>17, <1>18, <1>19, VmQuiet, LoopStage DEF InLoop

LEMMA StopIs ==
    ASSUME Inv, NEW t, NEW from, NEW why \in {"guest", "svc"}, Stop(t, from, why)
    PROVE  Inv'
  BY StopNext DEF Stop

LEMMA AcknowledgeNext ==
    ASSUME Inv, Acknowledge
    PROVE  Inv'
  <1>1. /\ Calls("ack", "release vm") /\ ChangeHcr({}, (0 .. 63) \ {VI})
        /\ UNCHANGED <<threads, devices, context>>
    BY DEF Acknowledge
  <1>2. Step(Vm, "ack", "release vm") /\ pc[Vm] = "ack" /\ runnable = Vm
    BY <1>1 DEF Calls, Step
  <1>3. PcInv /\ WorldInv /\ HcrInv /\ El2Inv /\ Reg = context.reg
    BY <1>2, VmFacts
  <1>4. InLoop("ack", "release vm") /\ SameSide("ack", "release vm")
    BY InLoopFacts DEF Handling
  <1>5. SameWants(Vm, "release vm")
    BY <1>2 DEF SameWants, WantsAt, Outside, NoTicker, NoSdcard, InIrq, InEmmc
  <1>6. /\ vm_state \in [el1 : {0, 1}, hcr : SUBSET (0 .. 63)]
        /\ vm_state.hcr \ {VI} = HCR2 \intersect Word
        /\ context \in [mode : Modes \union {"none"}, pc : {0, 1}, reg : 0 .. 3]
        /\ context.reg = StatusIdle => ~Inhibited
    BY <1>2, <1>3 DEF WorldInv, HcrInv, El2Inv
  <1>7. Changed({}, (0 .. 63) \ {VI}) = HCR2 \intersect Word
    <2>1. vm_state.hcr \intersect ((0 .. 63) \ {VI}) = HCR2 \intersect Word
      BY <1>6 DEF HCR2, VI, Word
    <2>2. QED
      BY <2>1 DEF Changed, HCR2, VI, Word
  <1>8. vm_state' = [vm_state EXCEPT !.hcr = HCR2 \intersect Word]
    BY <1>1, <1>7 DEF ChangeHcr
  <1>9. HCR2 \intersect Word \in SUBSET (0 .. 63) /\ (HCR2 \intersect Word) \ {VI} = HCR2 \intersect Word
    BY DEF HCR2, VI, Word
  <1>10. /\ vm_state' \in [el1 : {0, 1}, hcr : SUBSET (0 .. 63)]
         /\ vm_state'.hcr \ {VI} = HCR2 \intersect Word
    BY <1>6, <1>8, <1>9
  <1>11. HandlerInv'
    <2>1. pc'[Vm] = "release vm"
      BY <1>2, <1>3 DEF Step, PcInv
    <2>2. QED
      BY <2>1, HandlerDone DEF InIrq, InEmmc
  <1>12. sdcard_thread = Sdcard
    BY <1>2, <1>3, CardThere DEF NoSdcard
  <1>13. context' = context
    BY <1>1
  <1>14. QED
    BY <1>1, <1>4, <1>5, <1>6, <1>10, <1>11, <1>12, <1>13, VmCalls, LoopStage DEF InLoop

LEMMA Cp15Next ==
    ASSUME Inv, Cp15Access
    PROVE  Inv'
  <1>1. /\ Calls("cp15", "release vm") /\ UNCHANGED <<threads, devices>>
        /\ IF trap.esr = "cp15 write"
             THEN vm_state' = [vm_state EXCEPT !.el1 = PartnerReg] /\ UNCHANGED context
             ELSE SetPartnerReg(vm_state.el1) /\ UNCHANGED vm_state
    BY DEF Cp15Access
  <1>2. Step(Vm, "cp15", "release vm") /\ pc[Vm] = "cp15" /\ runnable = Vm
    BY <1>1 DEF Calls, Step
  <1>3. PcInv /\ WorldInv /\ HcrInv /\ El2Inv /\ HandlerAt("cp15") /\ Reg = context.reg
    BY <1>2, VmFacts
  <1>4. InLoop("cp15", "release vm") /\ SameSide("cp15", "release vm")
    BY InLoopFacts DEF Handling
  <1>5. SameWants(Vm, "release vm")
    BY <1>2 DEF SameWants, WantsAt, Outside, NoTicker, NoSdcard, InIrq, InEmmc
  <1>6. /\ vm_state \in [el1 : {0, 1}, hcr : SUBSET (0 .. 63)]
        /\ vm_state.hcr \ {VI} = HCR2 \intersect Word
        /\ context \in [mode : Modes \union {"none"}, pc : {0, 1}, reg : 0 .. 3]
        /\ context.reg = StatusIdle => ~Inhibited
    BY <1>2, <1>3 DEF WorldInv, HcrInv, El2Inv
  <1>7. CASE trap.esr = "cp15 write"
    <2>1. PartnerReg \in {0, 1}
      BY <1>3, <1>7 DEF HandlerAt, PartnerReg
    <2>2. vm_state' = [vm_state EXCEPT !.el1 = PartnerReg] /\ context' = context
      BY <1>1, <1>7
    <2>3. /\ vm_state' \in [el1 : {0, 1}, hcr : SUBSET (0 .. 63)]
          /\ vm_state'.hcr = vm_state.hcr
      BY <1>6, <2>1, <2>2
    <2>4. HandlerInv'
      <3>1. pc'[Vm] = "release vm"
        BY <1>2, <1>3 DEF Step, PcInv
      <3>2. QED
        BY <3>1, HandlerDone DEF InIrq, InEmmc
    <2>5. sdcard_thread = Sdcard
      BY <1>2, <1>3, CardThere DEF NoSdcard
    <2>6. QED
      BY <1>1, <1>4, <1>5, <1>6, <2>2, <2>3, <2>4, <2>5, VmCalls, LoopStage DEF InLoop
  <1>8. CASE trap.esr # "cp15 write"
    <2>1. PICK v \in {0, 1} : v = vm_state.el1
      BY <1>6
    <2>2. SetPartnerReg(v) /\ UNCHANGED vm_state
      BY <1>1, <1>8, <2>1
    <2>3. v \in 0 .. 3
      BY <2>1
    <2>4. v # StatusIdle
      BY <2>1 DEF StatusIdle
    <2>5. "cp15" \in Handling \ {"wake"} /\ HandlerAt("release vm")
      BY DEF Handling, HandlerAt, InIrq, InEmmc
    <2>6. QED
      BY <1>1, <1>5, <2>2, <2>3, <2>4, <2>5, VmSetsReg
  <1>9. QED
    BY <1>7, <1>8

LEMMA ReadEmmcNext ==
    ASSUME Inv, ReadEmmc
    PROVE  Inv'
  <1>1. Calls("emmc", "release emmc") /\ UNCHANGED <<threads, devices, vm_state>>
    BY DEF ReadEmmc, Returns
  <1>2. pc[Vm] = "emmc" /\ runnable = Vm
    BY <1>1 DEF Calls, Step
  <1>3. HandlerAt("emmc")
    BY <1>2, VmFacts
  <1>4. SameWants(Vm, "release emmc")
    BY <1>2 DEF SameWants, WantsAt, Outside, NoTicker, NoSdcard, InIrq, InEmmc
  <1>5. HandlerAt("release emmc") /\ "emmc" \in Handling \ {"wake"}
    BY <1>3 DEF HandlerAt, Handling, InEmmc, InIrq
  <1>6. PICK v \in 0 .. 3 : SetPartnerReg(v) /\ (v = StatusIdle => ~Inhibited)
    <2>1. CASE trap.esr = "read" /\ Returns("emmc", "release emmc")
      <3>1. PICK v \in Value : SetPartnerReg(v)
        BY <2>1 DEF Returns
      <3>2. v \in 0 .. 3
        BY <3>1
      <3>3. v # StatusIdle
        BY <3>1 DEF StatusIdle
      <3>4. QED
        BY <3>1, <3>2, <3>3
    <2>2. CASE SetPartnerReg(IF emmc_state.inhibit THEN StatusBusy ELSE StatusIdle)
      <3>1. StatusBusy \in 0 .. 3 /\ StatusIdle \in 0 .. 3
        BY DEF StatusBusy, StatusIdle
      <3>2. StatusBusy # StatusIdle
        BY DEF StatusBusy, StatusIdle
      <3>3. CASE Inhibited
        <4>1. SetPartnerReg(StatusBusy)
          BY <2>2, <3>3 DEF Inhibited
        <4>2. QED
          BY <3>1, <3>2, <4>1
      <3>4. CASE ~Inhibited
        <4>1. SetPartnerReg(StatusIdle) \/ SetPartnerReg(StatusBusy)
          BY <2>2
        <4>2. QED
          BY <3>1, <3>2, <3>4, <4>1
      <3>5. QED
        BY <3>3, <3>4
    <2>3. QED
      BY <2>1, <2>2 DEF ReadEmmc
  <1>7. QED
    BY <1>1, <1>4, <1>5, <1>6, VmSetsReg

LEMMA ReadIrqNext ==
    ASSUME Inv, ReadIrq
    PROVE  Inv'
  <1>1. Calls("irq", "release irq") /\ UNCHANGED <<threads, devices, vm_state>>
    BY DEF ReadIrq
  <1>2. pc[Vm] = "irq" /\ runnable = Vm
    BY <1>1 DEF Calls, Step
  <1>3. HandlerAt("irq")
    BY <1>2, VmFacts
  <1>4. SameWants(Vm, "release irq")
    BY <1>2 DEF SameWants, WantsAt, Outside, NoTicker, NoSdcard, InIrq, InEmmc
  <1>5. HandlerAt("release irq") /\ "irq" \in Handling \ {"wake"}
    BY <1>3 DEF HandlerAt, Handling, InEmmc, InIrq
  <1>6. PICK v \in {0, 1} : SetPartnerReg(v)
    BY DEF ReadIrq
  <1>7. v \in 0 .. 3
    BY <1>6
  <1>8. v # StatusIdle
    BY <1>6 DEF StatusIdle
  <1>9. QED
    BY <1>1, <1>4, <1>5, <1>6, <1>7, <1>8, VmSetsReg

LEMMA WriteIrqNext ==
    ASSUME Inv, WriteIrq
    PROVE  Inv'
  <1>1. PICK details : UpdateVirtualIrq(Vm, "irq", "release irq", details)
    BY DEF WriteIrq
  <1>2. CASE Stop(Vm, "irq", "svc")
    BY <1>2, StopIs
  <1>3. CASE UpdatesIrq(Vm, "irq", "release irq")
    <2>1. /\ Step(Vm, "irq", "release irq") /\ irq_active' \in BOOLEAN
          /\ UNCHANGED <<lock, threads, emmc_state, kernel, partner, world, guest, stopped>>
      BY <1>3 DEF UpdatesIrq
    <2>2. pc[Vm] = "irq" /\ runnable = Vm
      BY <2>1 DEF Step
    <2>3. HandlerAt("irq") /\ PcInv /\ DataInv
      BY <2>2, VmFacts
    <2>4. InLoop("irq", "release irq") /\ SameSide("irq", "release irq")
      <3>1. "irq" \in Handling \ {"wake"} /\ "release irq" \in Handling \ {"wake"}
        BY DEF Handling, InIrq
      <3>2. QED
        BY <3>1, InLoopFacts
    <2>5. VmIs("irq", "release irq")
      BY <2>1, <2>4, VmStepIs
    <2>6. SameWants(Vm, "release irq")
      BY <2>2 DEF SameWants, WantsAt, Outside, NoTicker, NoSdcard, InIrq, InEmmc
    <2>7. UNCHANGED <<ring, runnable, gate, sleeping, world, guest>> /\ Vm \in Ours
      BY <2>1 DEF kernel, Ours
    <2>8. Shared
      BY <2>1, <2>5, <2>6, <2>7, LocalShared DEF VmIs
    <2>9. HandlerAt("release irq")
      BY <2>3 DEF HandlerAt, InIrq, InEmmc
    <2>10. (Inhibited' <=> Inhibited) /\ DataInv' /\ UNCHANGED <<sdcard_thread, emmc_state>>
      BY <2>1, <2>3 DEF Inhibited, DataInv, threads
    <2>11. HandlerInv'
      BY <2>5, <2>8, <2>9, <2>10, HandlerMoves
    <2>12. sdcard_thread = Sdcard
      BY <2>2, <2>3, CardThere DEF NoSdcard
    <2>13. QED
      BY <2>4, <2>5, <2>7, <2>8, <2>10, <2>11, <2>12, VmQuiet, LoopStage DEF InLoop
  <1>4. QED
    BY <1>1, <1>2, <1>3, UpdateIs

LEMMA WriteEmmcNext ==
    ASSUME Inv, WriteEmmc
    PROVE  Inv'
  <1>1. PICK to :
           /\ Local(Vm, "emmc", to)
           /\ to = CASE trap.esr \in {"cmd7", "cmd"} -> "wake"
                     [] trap.esr = "clear" /\ ~Pending(emmc_state') -> "claim irq"
                     [] trap.esr = "mask" /\ Pending(emmc_state') -> "claim irq"
                     [] OTHER -> "release emmc"
    BY DEF WriteEmmc
  <1>2. /\ Step(Vm, "emmc", to)
        /\ UNCHANGED <<lock, kernel, partner, world, guest, stopped>>
        /\ UNCHANGED <<threads, irq_details, irq_active>>
    BY <1>1 DEF Local, WriteEmmc
  <1>3. pc[Vm] = "emmc" /\ runnable = Vm
    BY <1>2 DEF Step
  <1>4. HandlerAt("emmc") /\ PcInv /\ DataInv /\ El2Inv /\ GateInv
    BY <1>3, VmFacts
  <1>5. trap.esr \in EmmcAccess \ {"read", "status"}
    BY DEF WriteEmmc
  <1>6. PICK c, i, d, m : emmc_state = [CMDTM |-> c, inhibit |-> i, done |-> d, mask |-> m]
    BY <1>4 DEF DataInv
  <1>7. /\ \E c2, i2, d2, m2 : emmc_state' = [CMDTM |-> c2, inhibit |-> i2, done |-> d2, mask |-> m2]
        /\ trap.esr \in {"cmd7", "cmd"} => emmc_state'.inhibit = TRUE
        /\ trap.esr \notin {"cmd7", "cmd"} => emmc_state'.inhibit = emmc_state.inhibit
    <2>1. CASE trap.esr \in {"cmd7", "cmd"}
      <3>1. emmc_state' = [emmc_state EXCEPT !.CMDTM = trap.esr, !.inhibit = TRUE]
        BY <2>1 DEF WriteEmmc, Started
      <3>2. QED
        BY <1>6, <2>1, <3>1
    <2>2. CASE trap.esr = "write"
      <3>1. emmc_state' = emmc_state
        BY <2>2 DEF WriteEmmc
      <3>2. QED
        BY <1>6, <2>2, <3>1
    <2>3. CASE trap.esr = "clear"
      <3>1. emmc_state' = [emmc_state EXCEPT !.done = emmc_state.done /\ PartnerReg = 0]
        BY <2>3 DEF WriteEmmc
      <3>2. PICK b : b = (emmc_state.done /\ PartnerReg = 0)
        OBVIOUS
      <3>3. emmc_state' = [CMDTM |-> c, inhibit |-> i, done |-> b, mask |-> m]
        BY <1>6, <3>1, <3>2
      <3>4. QED
        BY <1>6, <2>3, <3>3
    <2>4. CASE trap.esr = "mask"
      <3>1. emmc_state' = [emmc_state EXCEPT !.mask = PartnerReg]
        BY <2>4 DEF WriteEmmc
      <3>2. QED
        BY <1>6, <2>4, <3>1
    <2>5. QED
      BY <1>5, <2>1, <2>2, <2>3, <2>4 DEF EmmcAccess
  <1>8. /\ to \in {"wake", "claim irq", "release emmc"}
        /\ to = "wake" <=> trap.esr \in {"cmd7", "cmd"}
        /\ to = "claim irq" => trap.esr \in {"clear", "mask"}
    BY <1>1
  <1>9. SameSide("emmc", to) /\ to \in VmAt \ NoTicker
    BY <1>8 DEF SameSide, SameStage, NoSdcard, NoTicker, VmAt, Handling, InEmmc
  <1>10. VmIs("emmc", to)
    BY <1>2, <1>9, VmStepIs
  <1>11. SameWants(Vm, to)
    <2>1. \A l : WantsAt(Vm, l, "emmc", trap.esr) <=> l \in {"vm", "emmc"}
      BY DEF WantsAt, Outside, NoTicker, NoSdcard, InIrq, InEmmc
    <2>2. \A l : WantsAt(Vm, l, to, trap.esr) <=> l \in {"vm", "emmc"}
      BY <1>5, <1>8 DEF WantsAt, Outside, NoTicker, NoSdcard, InIrq, InEmmc
    <2>3. QED
      BY <1>3, <2>1, <2>2 DEF SameWants
  <1>12. UNCHANGED <<ring, runnable, gate, sleeping, world, guest>> /\ Vm \in Ours
    BY <1>2 DEF kernel, Ours
  <1>13. Shared
    BY <1>2, <1>10, <1>11, <1>12, LocalShared DEF VmIs
  <1>14. DataInv' /\ sdcard_thread' = sdcard_thread /\ sdcard_thread = Sdcard
    BY <1>2, <1>3, <1>4, <1>7, CardThere DEF DataInv, threads, NoSdcard
  <1>15. PcInv'
    <2>1. Born(Vm) /\ SameStage(pc[Vm], to) /\ Vm # Sdcard /\ Vm # Ticker
      BY <1>3, <1>9 DEF Born, SameSide
    <2>2. QED
      BY <1>9, <1>10, <1>12, <1>14, <2>1, PcStep DEF VmIs
  <1>16. /\ to = "wake" => Inhibited' /\ ~Inhibited /\ Reg # StatusIdle
         /\ to # "wake" => (Inhibited' <=> Inhibited)
    BY <1>4, <1>7, <1>8 DEF Inhibited, HandlerAt
  <1>17. HandlerInv'
    <2>1. UNCHANGED <<vm_state, context, elr_el2, esr_el2, trap>> /\ pc'[Vm] = to
      BY <1>2, <1>10 DEF guest, VmIs
    <2>2. CASE to = "wake"
      BY <1>5, <1>8, <2>1, <2>2 DEF HandlerInv, HandlerAt, InEmmc, InIrq
    <2>3. CASE to = "claim irq"
      BY <1>5, <1>8, <2>1, <2>3 DEF HandlerInv, HandlerAt, InEmmc, InIrq
    <2>4. CASE to = "release emmc"
      BY <1>5, <1>8, <2>1, <2>4 DEF HandlerInv, HandlerAt, InEmmc, InIrq
    <2>5. QED
      BY <1>8, <2>2, <2>3, <2>4
  <1>18. GateInv'
    <2>1. CASE to # "wake"
      <3>1. to # "woken"
        BY <1>8
      <3>2. QED
        BY <1>3, <1>10, <1>12, <1>16, <2>1, <3>1, GateVm DEF VmIs
    <2>2. CASE to = "wake"
      <3>1. /\ pc'[Vm] = to /\ pc'[Sdcard] = pc[Sdcard] /\ pc'[Ticker] = pc[Ticker]
            /\ Inhibited' /\ ~Inhibited
        BY <1>10, <1>16, <2>2 DEF VmIs, PcInv, Moves
      <3>2. Serves(pc'[Sdcard], gate'[Sdcard], Inhibited' /\ pc'[Vm] # "wake")
        BY <1>4, <1>12, <2>2, <3>1 DEF GateInv, Serves
      <3>3. gate'[Vm] = (IF pc'[Vm] = "woken" THEN -1 ELSE 0)
        BY <1>3, <1>4, <1>12, <2>2, <3>1 DEF GateInv
      <3>4. QED
        BY <1>4, <1>12, <3>1, <3>2, <3>3 DEF GateInv
    <2>3. QED
      BY <2>1, <2>2
  <1>19. Reg = StatusIdle => ~Inhibited'
    BY <1>4, <1>16 DEF El2Inv
  <1>20. to # "registers"
    BY <1>8
  <1>21. QED
    BY <1>10, <1>13, <1>15, <1>17, <1>18, <1>19, <1>20, VmStep

LEMMA WakeSdcardNext ==
    ASSUME Inv, WakeSdcard
    PROVE  Inv'
  <1>1. /\ Step(Vm, "wake", "yield") /\ Wake(sdcard_thread, Vm)
        /\ UNCHANGED <<lock, threads, devices, runnable, partner, world, guest, stopped>>
    BY DEF WakeSdcard
  <1>2. pc[Vm] = "wake" /\ runnable = Vm
    BY <1>1 DEF Step
  <1>3. /\ HandlerAt("wake") /\ PcInv /\ DataInv /\ El2Inv /\ GateInv /\ LockInv
        /\ \A l \in Locks : Waiter(l) # Vm
    BY <1>2, VmFacts
  <1>4. sdcard_thread = Sdcard
    BY <1>2, <1>3, CardThere DEF NoSdcard
  <1>5. SameSide("wake", "yield") /\ "yield" \in VmAt \ NoTicker
    BY DEF SameSide, SameStage, NoSdcard, NoTicker, VmAt, Handling, InEmmc
  <1>6. VmIs("wake", "yield")
    BY <1>1, <1>5, VmStepIs
  <1>7. SameWants(Vm, "yield")
    BY <1>2 DEF SameWants, WantsAt, Outside, NoTicker, NoSdcard, InIrq, InEmmc
  <1>8. /\ Inhibited /\ (Inhibited' <=> Inhibited) /\ DataInv' /\ sdcard_thread' = sdcard_thread
    BY <1>1, <1>2, <1>3, DataStays DEF GateInv
  <1>9. pc'[Vm] = "yield" /\ pc'[Sdcard] = pc[Sdcard] /\ pc'[Ticker] = pc[Ticker]
    BY <1>6 DEF VmIs, PcInv, Moves
  <1>10. gate \in [Thread -> -1 .. 1]
    BY <1>3 DEF GateInv
  <1>11. \/ pc[Sdcard] = "wait" /\ gate[Sdcard] = 0
         \/ pc[Sdcard] = "command" /\ gate[Sdcard] = -1
    <2>1. Serves(pc[Sdcard], gate[Sdcard], FALSE)
      BY <1>2, <1>3 DEF GateInv, Serves
    <2>2. pc[Sdcard] # "start"
      BY <1>3, <1>4 DEF PcInv
    <2>3. pc[Sdcard] \notin InIrq \union {"claim irq", "release emmc"}
      <3>1. "emmc" \in Locks /\ Wants(Vm, "emmc")
        BY <1>2 DEF Locks, Wants, WantsAt, InEmmc
      <3>2. Owner("emmc") = Vm
        BY <1>3, <3>1, WantsIff
      <3>3. Wants(Sdcard, "emmc") => pc[Sdcard] = "complete"
        BY <1>3, <3>1, <3>2, WantsIff DEF ClaimedAt
      <3>4. pc[Sdcard] \in InIrq \union {"claim irq", "release emmc"} => Wants(Sdcard, "emmc")
        BY DEF Wants, WantsAt
      <3>5. QED
        BY <3>3, <3>4 DEF InIrq
    <2>4. \/ pc[Sdcard] \in {"start", "wait", "claim irq", "release emmc"} \union InIrq /\ gate[Sdcard] = 0
          \/ pc[Sdcard] = "command" /\ gate[Sdcard] = -1
      BY <2>1 DEF Serves
    <2>5. pc[Sdcard] \in {"start", "wait", "claim irq", "release emmc"} \union InIrq => pc[Sdcard] = "wait"
      BY <2>2, <2>3
    <2>6. QED
      BY <2>4, <2>5
  <1>12. UNCHANGED <<vm_state, context, elr_el2, esr_el2, trap>>
    BY <1>1 DEF guest
  <1>13. Shared /\ GateInv'
    <2>1. CASE pc[Sdcard] = "wait" /\ gate[Sdcard] = 0
      <3>1. gate[Sdcard] # -1
        BY <2>1
      <3>2. gate' = [gate EXCEPT ![Sdcard] = gate[Sdcard] + 1] /\ UNCHANGED <<ring, sleeping>>
        BY <1>1, <1>4, <3>1 DEF Wake
      <3>3. gate' = [gate EXCEPT ![Sdcard] = 1]
        BY <2>1, <3>2
      <3>4. /\ gate' \in [Thread -> -1 .. 1] /\ gate'[Sdcard] = 1
            /\ \A u \in Thread \ {Sdcard} : gate'[u] = gate[u]
        BY <1>10, <3>3
      <3>5. \A u \in Thread : gate'[u] = -1 <=> gate[u] = -1
        BY <2>1, <3>4
      <3>6. Vm \in Ours
        BY DEF Ours
      <3>7. Shared
        BY <1>1, <1>6, <1>7, <3>2, <3>5, <3>6, LocalShared DEF VmIs
      <3>8. Serves("wait", 1, Inhibited' /\ pc'[Vm] # "wake")
        BY <1>8, <1>9 DEF Serves
      <3>9. gate'[Sdcard] # -1
        BY <3>4
      <3>10. Sdcard \notin sleeping
        BY <1>3, <2>1 DEF GateInv
      <3>11. GateInv'
        BY <1>2, <1>3, <1>8, <1>9, <2>1, <3>2, <3>4, <3>8, <3>9, <3>10, GateOfSdcard
      <3>12. QED
        BY <3>7, <3>11
    <2>2. CASE pc[Sdcard] = "command" /\ gate[Sdcard] = -1
      <3>1. /\ ring' = InsertAfter(ring, Sdcard, Vm) /\ gate' = [gate EXCEPT ![Sdcard] = 0]
            /\ sleeping' = sleeping \ {Sdcard}
        BY <1>1, <1>4, <2>2 DEF Wake
      <3>2. /\ gate' \in [Thread -> -1 .. 1] /\ gate'[Sdcard] = 0
            /\ \A u \in Thread \ {Sdcard} : gate'[u] = gate[u]
        BY <1>10, <3>1
      <3>3. gate'[Sdcard] # -1 /\ gate'[Sdcard] # 1
        BY <3>2
      <3>4. Serves("command", 0, Inhibited' /\ pc'[Vm] # "wake")
        BY <1>8, <1>9 DEF Serves
      <3>5. Sdcard \notin sleeping' /\ sleeping' \subseteq sleeping \union {Sdcard}
        BY <3>1
      <3>6. GateInv'
        BY <1>2, <1>3, <1>8, <1>9, <2>2, <3>2, <3>3, <3>4, <3>5, GateOfSdcard
      <3>7. LockInv' /\ \A l \in Locks : Waiter(l)' = Waiter(l)
        BY <1>1, <1>3, <1>6, <1>7, <1>12, LocksStay DEF VmIs, SameWants
      <3>8. /\ Sdcard \notin Live /\ Born(Sdcard)
            /\ \A l \in Locks : Waiter(l) # Sdcard
        BY <2>2, AtGate
      <3>9. \A v \in Ours : Born(v)' <=> Born(v)
        BY <1>3, <1>5, <1>6, BornStep DEF VmIs, SameSide
      <3>10. /\ SchedInv /\ Vm \in Ours \union {InterruptThread} /\ Sdcard \in Ours /\ Sdcard # Vm
             /\ Guest \notin Live /\ \A v \in Ours : v \in Thread
        BY <1>6 DEF SchedInv, VmIs, Ours
      <3>11. RingInv' /\ Live' = Live \union {Sdcard}
        BY <1>1, <1>2, <3>1, <3>2, <3>3, <3>7, <3>8, <3>9, <3>10, Joins
      <3>12. WorldInv' /\ Mode' = Mode /\ Reg' = Reg
        BY <1>1, <1>2, <1>6, <1>9, WorldStays DEF VmIs
      <3>13. QED
        BY <1>1, <3>6, <3>7, <3>11, <3>12 DEF Shared
    <2>3. QED
      BY <1>11, <2>1, <2>2
  <1>14. HandlerInv'
    BY <1>3, <1>9, <1>12 DEF HandlerInv, HandlerAt, InIrq, InEmmc
  <1>15. PcInv'
    <2>1. Born(Vm) /\ SameStage(pc[Vm], "yield") /\ Vm # Sdcard /\ Vm # Ticker /\ Vm \in Ours
      BY <1>2, <1>5 DEF Born, SameSide, Ours
    <2>2. QED
      BY <1>4, <1>5, <1>6, <1>8, <2>1, PcStep DEF VmIs
  <1>16. Reg = StatusIdle => ~Inhibited'
    BY <1>3, <1>8 DEF El2Inv
  <1>17. QED
    BY <1>6, <1>13, <1>14, <1>15, <1>16, VmStep


(* Steps of vm_handler that only move on. *)
LEMMA HandlerMovesOn ==
    ASSUME Inv, NEW from \in {"mailbox", "tags", "timer"}, NEW to \in {"tags", "release vm", "for ever"},
           Local(Vm, from, to), UNCHANGED <<threads, devices>>
    PROVE  Inv'
  <1>1. pc[Vm] = from
    BY DEF Local, Step
  <1>2. InLoop(from, to)
    BY InLoopFacts DEF Handling
  <1>3. \A l : WantsAt(Vm, l, from, trap.esr) <=> l = "vm"
    BY DEF WantsAt, Outside, NoTicker, NoSdcard, InIrq, InEmmc
  <1>4. \A l : WantsAt(Vm, l, to, trap.esr) <=> l = "vm"
    BY DEF WantsAt, Outside, NoTicker, NoSdcard, InIrq, InEmmc
  <1>5. SameWants(Vm, to)
    BY <1>1, <1>3, <1>4 DEF SameWants
  <1>6. HandlerAt(to)
    BY DEF HandlerAt, InIrq, InEmmc
  <1>7. QED
    BY <1>2, <1>5, <1>6, VmLocal

LEMMA OtherDevicesNext ==
    ASSUME Inv, Mailbox \/ RespondToTagRequest \/ SystemTimer \/ Bsc \/ Bad
    PROVE  Inv'
  <1>1. CASE Mailbox
    BY <1>1, ReturnsNext, HandlerMovesOn DEF Mailbox
  <1>2. CASE RespondToTagRequest
    BY <1>2, StopIs, HandlerMovesOn DEF RespondToTagRequest
  <1>3. CASE SystemTimer
    BY <1>3, ReturnsNext, HandlerMovesOn DEF SystemTimer
  <1>4. CASE Bsc
    BY <1>4, ReturnsNext DEF Bsc
  <1>5. CASE Bad
    BY <1>5, StopIs DEF Bad
  <1>6. QED
    BY <1>1, <1>2, <1>3, <1>4, <1>5

LEMMA ClaimEmmcNext ==
    ASSUME Inv, ClaimEmmc
    PROVE  Inv'
  <1>1. Claims(Vm, "emmc", "claim emmc", "emmc") /\ pc[Vm] = "claim emmc" /\ runnable = Vm
    BY DEF ClaimEmmc, Claims, Step
  <1>2. HandlerAt("claim emmc")
    BY <1>1, VmFacts
  <1>3. InLoop("claim emmc", "emmc") /\ "emmc" \in Locks
    <2>1. "claim emmc" \in Handling \ {"wake"} /\ "emmc" \in Handling \ {"wake"}
      BY DEF Handling, InEmmc
    <2>2. QED
      BY <2>1, InLoopFacts DEF Locks
  <1>4. Claiming(Vm, "emmc", "emmc")
    <2>1. \A l : WantsAt(Vm, l, "claim emmc", trap.esr) <=> l = "vm"
      BY DEF WantsAt, Outside, NoTicker, NoSdcard, InIrq, InEmmc
    <2>2. \A l : WantsAt(Vm, l, "emmc", trap.esr) <=> (l = "vm" \/ l = "emmc")
      BY DEF WantsAt, Outside, NoTicker, NoSdcard, InIrq, InEmmc
    <2>3. ClaimedAt(Vm, "emmc", "emmc")
      BY DEF ClaimedAt
    <2>4. QED
      BY <1>1, <2>1, <2>2, <2>3 DEF Claiming
  <1>5. HandlerAt("emmc")
    BY <1>2 DEF HandlerAt, InIrq, InEmmc
  <1>6. QED
    BY <1>1, <1>3, <1>4, <1>5, VmClaims

LEMMA YieldToSdcardNext ==
    ASSUME Inv, YieldToSdcard
    PROVE  Inv'
  <1>1. Yields(Vm, "yield", "release emmc") /\ pc[Vm] = "yield" /\ runnable = Vm
    BY DEF YieldToSdcard, Yields, Step
  <1>2. HandlerAt("yield")
    BY <1>1, VmFacts
  <1>3. InLoop("yield", "release emmc")
    <2>1. "yield" \in Handling \ {"wake"} /\ "release emmc" \in Handling \ {"wake"}
      BY DEF Handling, InEmmc
    <2>2. QED
      BY <2>1, InLoopFacts
  <1>4. SameWants(Vm, "release emmc")
    BY <1>1 DEF SameWants, WantsAt, Outside, NoTicker, NoSdcard, InIrq, InEmmc
  <1>5. HandlerAt("release emmc")
    BY <1>2 DEF HandlerAt, InIrq, InEmmc
  <1>6. QED
    BY <1>1, <1>3, <1>4, <1>5, VmYields

LEMMA ReleaseEmmcNext ==
    ASSUME Inv, ReleaseEmmc
    PROVE  Inv'
  <1>1. Releases(Vm, "emmc", "release emmc", "release vm") /\ pc[Vm] = "release emmc"
    BY DEF ReleaseEmmc, Releases, Step
  <1>2. InLoop("release emmc", "release vm") /\ "emmc" \in Locks
    <2>1. "release emmc" \in Handling \ {"wake"}
      BY DEF Handling, InEmmc
    <2>2. QED
      BY <2>1, InLoopFacts DEF Locks
  <1>3. Releasing(Vm, "emmc", "release vm")
    <2>1. \A l : WantsAt(Vm, l, "release emmc", trap.esr) <=> l \in {"vm", "emmc"}
      BY DEF WantsAt, Outside, NoTicker, NoSdcard, InIrq, InEmmc
    <2>2. \A l : WantsAt(Vm, l, "release vm", trap.esr) <=> l = "vm"
      BY DEF WantsAt, Outside, NoTicker, NoSdcard, InIrq, InEmmc
    <2>3. QED
      BY <1>1, <2>1, <2>2 DEF Releasing
  <1>4. HandlerAt("release vm")
    BY DEF HandlerAt, InIrq, InEmmc
  <1>5. QED
    BY <1>1, <1>2, <1>3, <1>4, VmReleases

LEMMA ClaimIrqNext ==
    ASSUME Inv, ClaimIrq
    PROVE  Inv'
  <1>1. Claims(Vm, "irq", "claim irq", "irq") /\ pc[Vm] = "claim irq" /\ runnable = Vm
    BY DEF ClaimIrq, Claims, Step
  <1>2. HandlerAt("claim irq")
    BY <1>1, VmFacts
  <1>3. InLoop("claim irq", "irq") /\ "irq" \in Locks
    <2>1. "claim irq" \in Handling \ {"wake"} /\ "irq" \in Handling \ {"wake"}
      BY DEF Handling, InIrq
    <2>2. QED
      BY <2>1, InLoopFacts DEF Locks
  <1>4. Claiming(Vm, "irq", "irq")
    <2>1. \A l : WantsAt(Vm, l, "claim irq", trap.esr)
                 <=> (l = "vm" \/ (l = "emmc" /\ trap.esr \in EmmcAccess))
      BY DEF WantsAt, Outside, NoTicker, NoSdcard, InIrq, InEmmc
    <2>2. \A l : WantsAt(Vm, l, "irq", trap.esr)
                 <=> (l \in {"vm", "irq"} \/ (l = "emmc" /\ trap.esr \in EmmcAccess))
      BY DEF WantsAt, Outside, NoTicker, NoSdcard, InIrq, InEmmc
    <2>3. ClaimedAt(Vm, "irq", "irq")
      BY DEF ClaimedAt
    <2>4. QED
      BY <1>1, <2>1, <2>2, <2>3 DEF Claiming
  <1>5. HandlerAt("irq")
    BY <1>2 DEF HandlerAt, InIrq, InEmmc
  <1>6. QED
    BY <1>1, <1>3, <1>4, <1>5, VmClaims

LEMMA ReleaseIrqNext ==
    ASSUME Inv, ReleaseIrq
    PROVE  Inv'
  <1>1. PICK to : /\ to = (IF trap.esr \in EmmcAccess THEN "release emmc" ELSE "release vm")
                  /\ Releases(Vm, "irq", "release irq", to)
    BY DEF ReleaseIrq
  <1>2. pc[Vm] = "release irq" /\ runnable = Vm
    BY <1>1 DEF Releases, Step
  <1>3. to \in {"release emmc", "release vm"} /\ (to = "release emmc" <=> trap.esr \in EmmcAccess)
    BY <1>1
  <1>4. InLoop("release irq", to) /\ "irq" \in Locks
    <2>1. /\ "release irq" \in Handling \ {"wake"}
          /\ to \in (Handling \ {"wake"}) \union {"release vm"}
      BY <1>3 DEF Handling, InEmmc, InIrq
    <2>2. QED
      BY <2>1, InLoopFacts DEF Locks
  <1>5. Releasing(Vm, "irq", to)
    <2>1. \A l : WantsAt(Vm, l, "release irq", trap.esr)
                 <=> (l \in {"vm", "irq"} \/ (l = "emmc" /\ trap.esr \in EmmcAccess))
      BY DEF WantsAt, Outside, NoTicker, NoSdcard, InIrq, InEmmc
    <2>2. \A l : WantsAt(Vm, l, to, trap.esr) <=> (l = "vm" \/ (l = "emmc" /\ to = "release emmc"))
      BY <1>3 DEF WantsAt, Outside, NoTicker, NoSdcard, InIrq, InEmmc
    <2>3. QED
      BY <1>2, <1>3, <2>1, <2>2 DEF Releasing
  <1>6. HandlerAt(to)
    BY <1>3 DEF HandlerAt, InIrq, InEmmc
  <1>7. QED
    BY <1>1, <1>4, <1>5, <1>6, VmReleases

LEMMA VmHandlerNext ==
    ASSUME Inv, VmHandler
    PROVE  Inv'
  BY HandleNext, OtherDevicesNext, AcknowledgeNext, Cp15Next, ClaimEmmcNext, ReadEmmcNext,
     WriteEmmcNext, WakeSdcardNext, YieldToSdcardNext, ReleaseEmmcNext, ClaimIrqNext,
     ReadIrqNext, WriteIrqNext, ReleaseIrqNext
     DEF VmHandler


-----------------------------------------------------------------------------
(* The steps of entry *)

LEMMA EntryPlaces ==
    /\ SameStage("make_partner", "registers") /\ SameSide("registers", "create_sdcard")
    /\ SameSide("sdcard?", "sdcard?") /\ SameSide("sdcard?", "create_ticker")
    /\ {"registers", "create_sdcard", "sdcard?", "create_ticker", "ticker?"}
         \subseteq VmAt \ {"wake", "woken"}
  BY DEF SameSide, SameStage, NoTicker, NoSdcard, VmAt, Outside

(* Nobody wants a lock before the loop. *)
LEMMA EntryWants ==
    ASSUME NEW from \in NoTicker \union {"ticker?"}, NEW to \in NoTicker \union {"ticker?"},
           pc[Vm] = from
    PROVE  SameWants(Vm, to)
  <1>1. \A l : ~WantsAt(Vm, l, from, trap.esr)
    BY DEF WantsAt, Outside, NoTicker, NoSdcard, InIrq, InEmmc
  <1>2. \A l : ~WantsAt(Vm, l, to, trap.esr)
    BY DEF WantsAt, Outside, NoTicker, NoSdcard, InIrq, InEmmc
  <1>3. QED
    BY <1>1, <1>2 DEF SameWants

LEMMA EntryHandler ==
    ASSUME NEW to \in NoTicker \union {"ticker?"}
    PROVE  HandlerAt(to) /\ (pc'[Vm] = to => HandlerInv')
  BY HandlerDone DEF HandlerAt, NoTicker, NoSdcard, InIrq, InEmmc

LEMMA MakePartnerNext ==
    ASSUME Inv, MakePartnerThread
    PROVE  Inv'
  <1>1. /\ Step(Vm, "make_partner", "registers") /\ MakePartner
        /\ UNCHANGED <<lock, threads, devices, kernel, world, elr_el2, esr_el2, trap, stopped>>
    BY DEF MakePartnerThread
  <1>2. pc[Vm] = "make_partner" /\ runnable = Vm /\ Moves(Vm, "registers")
    BY <1>1 DEF Step, Moves
  <1>3. /\ PcInv /\ LockInv /\ RingInv /\ GateInv /\ WorldInv /\ DataInv /\ ns = FALSE
        /\ SchedInv /\ Vm \in Ours /\ Born(Vm)
    BY <1>2, VmFacts DEF SchedInv, Ours, Born
  <1>4. UNCHANGED <<ring, runnable, gate, sleeping, ns, sys, cpu>>
    BY <1>1 DEF kernel, world
  <1>5. SameWants(Vm, "registers") /\ pc'[Vm] = "registers"
    BY <1>2, <1>3, EntryWants DEF NoTicker, NoSdcard, Moves, PcInv
  <1>6. LockInv' /\ RingInv' /\ Live' = Live
    BY <1>1, <1>2, <1>3, <1>4, <1>5, EntryPlaces, Stays DEF SameWants
  <1>7. DataInv' /\ sdcard_thread' = sdcard_thread /\ (Inhibited' <=> Inhibited)
    BY <1>1, <1>3, DataStays
  <1>8. PcInv'
    <2>1. "registers" \in NoSdcard /\ Vm # Sdcard /\ Vm # Ticker
      BY DEF NoSdcard
    <2>2. QED
      BY <1>2, <1>3, <1>7, <2>1, EntryPlaces, PcStep
  <1>9. GateInv'
    BY <1>2, <1>3, <1>4, <1>7, GateVm
  <1>10. /\ partner' = Guest /\ vm_state' = [el1 |-> 0, hcr |-> {}]
         /\ context' = [mode |-> "guest", pc |-> 0, reg |-> 0]
    BY <1>1 DEF MakePartner
  <1>11. context' \in [mode : Modes \union {"none"}, pc : {0, 1}, reg : 0 .. 3]
    <2>1. "guest" \in Modes \union {"none"} /\ 0 \in {0, 1}
      BY DEF Modes
    <2>2. 0 \in 0 .. 3
      OBVIOUS
    <2>3. QED
      BY <1>10, <2>1, <2>2
  <1>12. vm_state' \in [el1 : {0, 1}, hcr : SUBSET (0 .. 63)]
    BY <1>10
  <1>13. WorldInv'
    BY <1>1, <1>3, <1>4, <1>5, <1>10, <1>11, <1>12 DEF WorldInv
  <1>14. Mode' = "guest" /\ Reg' = 0
    BY <1>3, <1>4, <1>10 DEF Mode, Reg
  <1>15. HcrInv'
    BY <1>5, <1>10 DEF HcrInv
  <1>16. El2Inv'
    <2>1. Reg' # StatusIdle
      BY <1>14 DEF StatusIdle
    <2>2. QED
      BY <1>14, <2>1 DEF El2Inv
  <1>17. HandlerInv'
    BY <1>5, HandlerDone DEF InEmmc, InIrq
  <1>18. QED
    BY <1>6, <1>8, <1>9, <1>13, <1>15, <1>16, <1>17 DEF Inv, TrapInv

LEMMA SetRegistersNext ==
    ASSUME Inv, SetRegisters
    PROVE  Inv'
  <1>1. /\ Calls("registers", "create_sdcard") /\ ChangeHcr(HCR2, {})
        /\ UNCHANGED <<threads, devices, context>>
    BY DEF SetRegisters
  <1>2. Step(Vm, "registers", "create_sdcard") /\ pc[Vm] = "registers" /\ runnable = Vm
    BY <1>1 DEF Calls, Step
  <1>3. PcInv /\ WorldInv /\ El2Inv /\ Reg = context.reg
    BY <1>2, VmFacts
  <1>4. /\ context \in [mode : Modes \union {"none"}, pc : {0, 1}, reg : 0 .. 3]
        /\ vm_state \in [el1 : {0, 1}, hcr : SUBSET (0 .. 63)]
    BY <1>3 DEF WorldInv
  <1>5. vm_state' = [vm_state EXCEPT !.hcr = HCR2 \intersect Word]
    BY <1>1 DEF ChangeHcr, Changed
  <1>6. HCR2 \intersect Word \subseteq 0 .. 63 /\ (HCR2 \intersect Word) \ {VI} = HCR2 \intersect Word
    BY DEF HCR2, Word, VI
  <1>7. /\ vm_state' \in [el1 : {0, 1}, hcr : SUBSET (0 .. 63)]
        /\ vm_state'.hcr \ {VI} = HCR2 \intersect Word
    <2>1. PICK h : h = HCR2 \intersect Word
      OBVIOUS
    <2>2. h \in SUBSET (0 .. 63) /\ h \ {VI} = h
      BY <1>6, <2>1
    <2>3. vm_state' \in [el1 : {0, 1}, hcr : SUBSET (0 .. 63)] /\ vm_state'.hcr = h
      BY <1>4, <1>5, <2>1, <2>2
    <2>4. QED
      BY <2>1, <2>2, <2>3
  <1>8. context'.reg = StatusIdle => ~Inhibited
    BY <1>1, <1>3 DEF El2Inv
  <1>9. SameWants(Vm, "create_sdcard") /\ "create_sdcard" \in NoSdcard
    BY <1>2, EntryWants DEF NoTicker, NoSdcard
  <1>10. pc'[Vm] = "create_sdcard"
    BY <1>2, <1>3 DEF Step, PcInv
  <1>11. HandlerInv'
    BY <1>10, HandlerDone DEF InEmmc, InIrq
  <1>12. QED
    BY <1>1, <1>4, <1>7, <1>8, <1>9, <1>11, EntryPlaces, VmCalls

(* A thread that is not born yet has no part in anything. *)
LEMMA Unborn ==
    ASSUME Inv, NEW u \in {Sdcard, Ticker}, ~Born(u)
    PROVE  /\ u \notin Live /\ pc[u] = "start" /\ gate[u] # -1
           /\ \A l \in Locks : Waiter(l) # u
  <1>1. u \in Thread /\ LockInv /\ PcInv /\ GateInv /\ RingInv
    BY DEF Inv
  <1>2. u \notin Live
    BY <1>1 DEF RingInv, Members, Able
  <1>3. pc[u] = "start"
    BY <1>1 DEF PcInv
  <1>4. gate[u] # -1
    BY <1>1, <1>3 DEF GateInv
  <1>5. \A l \in Locks : Waiter(l) # u
    BY <1>1, <1>3, WantsIff DEF ClaimedAt, Locks
  <1>6. QED
    BY <1>2, <1>3, <1>4, <1>5

LEMMA CreatesNext ==
    ASSUME Inv, NEW u \in {Sdcard, Ticker}, NEW from, NEW to, Creates(u, from, to),
           \/ u = Sdcard /\ from = "create_sdcard" /\ to = "sdcard?"
           \/ u = Ticker /\ from = "create_ticker" /\ to = "ticker?"
    PROVE  Inv'
  <1>1. /\ Step(Vm, from, to) /\ CreateThread(u)
        /\ UNCHANGED <<lock, threads, devices, gate, sleeping, partner, stopped>>
    BY DEF Creates
  <1>2. pc[Vm] = from /\ runnable = Vm /\ Moves(Vm, to)
    BY <1>1 DEF Step, Moves
  <1>3. /\ PcInv /\ LockInv /\ RingInv /\ GateInv /\ WorldInv /\ DataInv /\ ns = FALSE
        /\ HcrInv /\ El2Inv /\ Guest \notin Live
        /\ \A l \in Locks : Waiter(l) # Vm
        /\ SchedInv /\ Vm \in Ours /\ u \in Ours /\ u # Vm
    BY <1>2, VmFacts DEF SchedInv, Ours
  <1>4. /\ ring' = InsertBefore(ring, u, Vm) /\ runnable' = u /\ Run(u)
        /\ UNCHANGED guest /\ UNCHANGED <<vm_state, context, elr_el2, esr_el2, trap>>
    BY <1>1, <1>2 DEF CreateThread, Run, Enter, guest
  <1>5. SameWants(Vm, to) /\ pc'[Vm] = to /\ pc'[Sdcard] = pc[Sdcard] /\ pc'[Ticker] = pc[Ticker]
    <2>1. from \in NoTicker \union {"ticker?"} /\ to \in NoTicker \union {"ticker?"}
      BY DEF NoTicker, NoSdcard
    <2>2. QED
      BY <1>2, <1>3, <2>1, EntryWants DEF Moves, PcInv
  <1>6. LockInv' /\ \A l \in Locks : Waiter(l)' = Waiter(l)
    BY <1>1, <1>2, <1>3, <1>4, <1>5, LocksStay DEF SameWants
  <1>7. ~Born(u) /\ Born(u)' /\ \A v \in Ours \ {u} : Born(v)' <=> Born(v)
    BY <1>2, <1>5 DEF Born, Ours, NoTicker, NoSdcard
  <1>8. u \notin Live /\ pc[u] = "start" /\ gate[u] # -1 /\ \A l \in Locks : Waiter(l) # u
    BY <1>7, Unborn
  <1>9. RingInv' /\ Live' = Live \union {u}
    BY <1>1, <1>2, <1>3, <1>4, <1>6, <1>7, <1>8, Joins DEF Ours
  <1>10. WorldInv' /\ Mode' = Mode /\ Reg' = Reg
    <2>1. /\ pc'[Vm] = "make_partner" <=> pc[Vm] = "make_partner"
          /\ runnable # Guest /\ u # Guest
      BY <1>2, <1>5
    <2>2. QED
      BY <1>1, <1>3, <1>4, <2>1, WorldSwitch
  <1>11. DataInv' /\ sdcard_thread' = sdcard_thread /\ (Inhibited' <=> Inhibited)
    BY <1>1, <1>3, DataStays
  <1>12. GateInv'
    <2>1. pc[Vm] \notin {"woken", "wake"} /\ to \notin {"woken", "wake"}
      BY <1>2
    <2>2. QED
      BY <1>1, <1>2, <1>3, <1>11, <2>1, GateVm
  <1>13. PcInv'
    <2>1. /\ pc' \in [Thread -> VmAt \union SdcardAt \union TickerAt]
          /\ pc'[Vm] \in VmAt
      BY <1>2, <1>3, <1>5, EntryPlaces DEF PcInv, Moves
    <2>2. /\ ~Born(Sdcard)' => pc'[Sdcard] = "start"
          /\ ~Born(Ticker)' => pc'[Ticker] = "start"
      BY <1>3, <1>5, <1>7 DEF PcInv, Ours
    <2>3. pc'[Vm] \notin NoSdcard \union {"sdcard?"} => sdcard_thread = Sdcard
      BY <1>2, <1>3, <1>5 DEF PcInv, NoSdcard
    <2>4. QED
      BY <1>3, <1>5, <1>11, <2>1, <2>2, <2>3 DEF PcInv
  <1>14. HcrInv'
    BY <1>2, <1>3, <1>4, <1>5 DEF HcrInv
  <1>15. El2Inv'
    <2>1. Mode \notin {"el2", "el2 stored"}
      BY <1>3 DEF El2Inv
    <2>2. QED
      BY <1>3, <1>10, <1>11, <2>1 DEF El2Inv
  <1>16. HandlerInv'
    BY <1>5, HandlerDone DEF InEmmc, InIrq
  <1>17. QED
    BY <1>6, <1>9, <1>10, <1>12, <1>13, <1>14, <1>15, <1>16 DEF Inv, TrapInv


LEMMA AwaitSdcardNext ==
    ASSUME Inv, AwaitSdcard
    PROVE  Inv'
  <1>1. PICK to \in {"sdcard?", "create_ticker"} :
           /\ Step(Vm, "sdcard?", to)
           /\ to = "create_ticker" => sdcard_thread # NULL
           /\ Yield(Vm) \/ UNCHANGED <<ring, runnable, world, guest>>
           /\ UNCHANGED <<lock, threads, devices, gate, sleeping, partner, stopped>>
    BY DEF AwaitSdcard, Yields, Local, kernel
  <1>2. VmIs("sdcard?", to)
    BY <1>1, EntryPlaces, VmStepIs
  <1>3. SameWants(Vm, to) /\ Vm \in Ours /\ HandlerInv'
    BY <1>1, <1>2, EntryWants, EntryHandler DEF VmIs, NoTicker, Ours
  <1>4. Shared
    BY <1>1, <1>2, <1>3, LocalShared, YieldShared DEF VmIs
  <1>5. DataInv' /\ UNCHANGED <<sdcard_thread, emmc_state>>
    BY <1>1, <1>2, DataStays DEF VmIs, threads, devices
  <1>6. to \in NoSdcard \union {"sdcard?"} \/ sdcard_thread = Sdcard
    BY <1>1, <1>2 DEF VmIs, PcInv
  <1>7. to \in VmAt /\ to \notin {"registers", "wake", "woken"}
    BY EntryPlaces
  <1>8. QED
    BY <1>1, <1>2, <1>3, <1>4, <1>5, <1>6, <1>7, VmQuiet

LEMMA AwaitTickerNext ==
    ASSUME Inv, AwaitTicker
    PROVE  Inv'
  <1>1. pc[Vm] = "ticker?"
    BY DEF AwaitTicker, Yields, Local, Step
  <1>2. InLoop("ticker?", "ticker?") /\ InLoop("ticker?", "claim vm")
    BY InLoopFacts
  <1>3. SameWants(Vm, "ticker?") /\ SameWants(Vm, "claim vm")
    BY <1>1 DEF SameWants, WantsAt, Outside, NoTicker, NoSdcard, InIrq, InEmmc
  <1>4. HandlerAt("ticker?") /\ HandlerAt("claim vm")
    BY DEF HandlerAt, InIrq, InEmmc
  <1>5. QED
    BY <1>2, <1>3, <1>4, VmYields, VmLocal DEF AwaitTicker

LEMMA ClaimVmNext ==
    ASSUME Inv, ClaimVm
    PROVE  Inv'
  <1>1. Claims(Vm, "vm", "claim vm", "switch") /\ pc[Vm] = "claim vm"
    BY DEF ClaimVm, Claims, Step
  <1>2. InLoop("claim vm", "switch") /\ "vm" \in Locks
    BY InLoopFacts DEF Locks
  <1>3. Claiming(Vm, "vm", "switch")
    <2>1. \A l : ~WantsAt(Vm, l, "claim vm", trap.esr)
      BY DEF WantsAt, Outside, NoTicker, NoSdcard, InIrq, InEmmc
    <2>2. \A l : WantsAt(Vm, l, "switch", trap.esr) <=> l = "vm"
      BY DEF WantsAt, Outside, NoTicker, NoSdcard, InIrq, InEmmc
    <2>3. ClaimedAt(Vm, "vm", "switch")
      BY DEF ClaimedAt
    <2>4. QED
      BY <1>1, <2>1, <2>2, <2>3 DEF Claiming
  <1>4. HandlerAt("switch")
    BY DEF HandlerAt, InIrq, InEmmc
  <1>5. QED
    BY <1>1, <1>2, <1>3, <1>4, VmClaims

LEMMA ReleaseVmNext ==
    ASSUME Inv, ReleaseVm
    PROVE  Inv'
  <1>1. Releases(Vm, "vm", "release vm", "waiting?") /\ pc[Vm] = "release vm"
    BY DEF ReleaseVm, Releases, Step
  <1>2. InLoop("release vm", "waiting?") /\ "vm" \in Locks
    BY InLoopFacts DEF Locks
  <1>3. Releasing(Vm, "vm", "waiting?")
    <2>1. \A l : WantsAt(Vm, l, "release vm", trap.esr) <=> l = "vm"
      BY DEF WantsAt, Outside, NoTicker, NoSdcard, InIrq, InEmmc
    <2>2. \A l : ~WantsAt(Vm, l, "waiting?", trap.esr)
      BY DEF WantsAt, Outside, NoTicker, NoSdcard, InIrq, InEmmc
    <2>3. QED
      BY <1>1, <2>1, <2>2 DEF Releasing
  <1>4. HandlerAt("waiting?")
    BY DEF HandlerAt, InIrq, InEmmc
  <1>5. QED
    BY <1>1, <1>2, <1>3, <1>4, VmReleases

LEMMA WaitForEventNext ==
    ASSUME Inv, WaitForEvent
    PROVE  Inv'
  <1>1. CASE ~waiting
    <2>1. Yields(Vm, "waiting?", "claim vm") /\ pc[Vm] = "waiting?"
      BY <1>1 DEF WaitForEvent, Yields, Step
    <2>2. InLoop("waiting?", "claim vm") /\ HandlerAt("claim vm")
      BY InLoopFacts DEF HandlerAt, InIrq, InEmmc
    <2>3. SameWants(Vm, "claim vm")
      BY <2>1 DEF SameWants, WantsAt, Outside, NoTicker, NoSdcard, InIrq, InEmmc
    <2>4. QED
      BY <2>1, <2>2, <2>3, VmYields
  <1>2. CASE waiting
    <2>1. /\ Step(Vm, "waiting?", "woken") /\ (Block(Vm, FALSE) \/ Pass(Vm))
          /\ UNCHANGED <<lock, devices, partner, stopped, threads>>
      BY <1>2 DEF WaitForEvent, Waits
    <2>2. pc[Vm] = "waiting?" /\ runnable = Vm
      BY <2>1 DEF Step
    <2>3. GateInv /\ gate[Vm] = 0
      BY <2>2, VmFacts DEF GateInv
    <2>4. Block(Vm, FALSE)
      <3>1. gate[Vm] = 0
        BY <2>3
      <3>2. ~Pass(Vm)
        BY <3>1 DEF Pass
      <3>3. QED
        BY <2>1, <3>2
    <2>5. SameSide("waiting?", "woken") /\ "woken" \in VmAt
      BY LoopPlaces, LoopStage
    <2>6. VmIs("waiting?", "woken")
      BY <2>1, <2>5, VmStepIs
    <2>7. SameWants(Vm, "woken") /\ Vm \in Ours
      BY <2>2 DEF SameWants, WantsAt, Outside, NoTicker, NoSdcard, InIrq, InEmmc, Ours
    <2>8. Shared
      BY <2>1, <2>4, <2>6, <2>7, BlockShared DEF VmIs
    <2>9. DataInv' /\ sdcard_thread' = sdcard_thread /\ (Inhibited' <=> Inhibited)
      BY <2>1, <2>6, DataStays DEF VmIs
    <2>10. sdcard_thread = Sdcard
      BY <2>2, <2>6, CardThere DEF NoSdcard, VmIs
    <2>11. PcInv'
      <3>1. Born(Vm) /\ SameStage(pc[Vm], "woken") /\ Vm # Sdcard /\ Vm # Ticker
        BY <2>2, <2>5 DEF Born, SameSide
      <3>2. QED
        BY <2>5, <2>6, <2>7, <2>9, <2>10, <3>1, PcStep DEF VmIs
    <2>12. /\ pc'[Vm] = "woken" /\ pc'[Sdcard] = pc[Sdcard] /\ pc'[Ticker] = pc[Ticker]
      BY <2>6 DEF VmIs, PcInv, Moves
    <2>13. HandlerInv'
      BY <2>12, HandlerDone DEF InEmmc, InIrq
    <2>14. GateInv'
      <3>1. gate' = [gate EXCEPT ![Vm] = -1] /\ sleeping' = sleeping
        BY <2>4 DEF Block
      <3>2. gate \in [Thread -> -1 .. 1]
        BY <2>3 DEF GateInv
      <3> (-1) \in -1 .. 1
        OBVIOUS
      <3>3. /\ gate' \in [Thread -> -1 .. 1] /\ gate'[Vm] = -1
            /\ \A u \in Thread \ {Vm} : gate'[u] = gate[u]
        BY <3>1, <3>2
      <3>4. gate'[Vm] = (IF pc'[Vm] = "woken" THEN -1 ELSE 0)
        BY <2>12, <3>3
      <3>5. /\ gate'[Idle] = 0 /\ gate'[InterruptThread] = 0 /\ gate'[Guest] = 0
            /\ gate'[Sdcard] = gate[Sdcard] /\ gate'[Ticker] = gate[Ticker]
        BY <2>3, <3>3 DEF GateInv
      <3>6. pc'[Vm] # "wake" /\ pc[Vm] # "wake"
        BY <2>2, <2>12
      <3>7. QED
        BY <2>3, <2>9, <2>12, <3>1, <3>3, <3>4, <3>5, <3>6 DEF GateInv
    <2>15. Reg = StatusIdle => ~Inhibited'
      BY <2>6, <2>9 DEF VmIs, El2Inv
    <2>16. QED
      BY <2>6, <2>8, <2>11, <2>13, <2>14, <2>15, VmStep
  <1>3. QED
    BY <1>1, <1>2

LEMMA RunGuestNext ==
    ASSUME Inv, RunGuest
    PROVE  Inv'
  <1>1. /\ Step(Vm, "switch", "handler") /\ SwitchToGuest(next_pc) /\ next_pc' = 0
        /\ UNCHANGED <<lock, sdcard_thread, ticker_thread_running, waiting, devices, gate,
                       sleeping, partner, stopped>>
    BY DEF RunGuest
  <1>2. pc[Vm] = "switch" /\ runnable = Vm
    BY <1>1 DEF Step
  <1>3. SameSide("switch", "handler") /\ "handler" \in VmAt
    BY InLoopFacts, LoopPlaces DEF Handling
  <1>4. VmIs("switch", "handler") /\ partner = Guest /\ context.mode \in Modes \ {"el2", "el2 stored"}
    <2>1. VmIs("switch", "handler")
      BY <1>1, <1>3, VmStepIs
    <2>2. partner = Guest /\ context.mode \in Modes
      BY <1>2, <2>1 DEF VmIs, WorldInv
    <2>3. QED
      BY <2>1, <2>2 DEF VmIs
  <1>5. /\ ring' = Exchanged(ring, Vm, Guest) /\ context' = [context EXCEPT !.pc = next_pc]
        /\ elr_el2' = 0 /\ esr_el2' = "none" /\ trap' = NoTrap /\ vm_state' = vm_state
        /\ Enter(Guest)
    BY <1>1, <1>4 DEF SwitchToGuest
  <1>6. /\ pc'[Vm] = "handler" /\ \A u \in Thread \ {Vm} : pc'[u] = pc[u]
    BY <1>4 DEF VmIs, PcInv, Moves
  <1>7. LockInv' /\ \A l \in Locks : Waiter(l)' = Waiter(l)
    <2>1. \A l \in Locks : Owner(l)' = Owner(l) /\ Waiter(l)' = Waiter(l)
      BY <1>1 DEF Owner, Waiter
    <2>2. \A l : Wants(Vm, l) <=> l = "vm"
      BY <1>2 DEF Wants, WantsAt, Outside, NoTicker, NoSdcard, InIrq, InEmmc
    <2>3. \A l : Wants(Vm, l)' <=> l = "vm"
      BY <1>6 DEF Wants, WantsAt, Outside, NoTicker, NoSdcard, InIrq, InEmmc
    <2>4. ASSUME NEW l, NEW u \in Thread \ {Vm} PROVE Wants(u, l)' <=> Wants(u, l)
      BY <1>6 DEF Wants, WantsAt
    <2>5. ASSUME NEW l \in Locks, Waiter(l) # NULL
          PROVE  /\ Owner(l) # NULL /\ Owner(l) # Waiter(l)
                 /\ ClaimedAt(Waiter(l), l, pc'[Waiter(l)])
      <3>1. Waiter(l) \in Thread \ {Vm}
        BY <1>2, <2>5, VmFacts, LockFacts DEF Perhaps
      <3>2. pc'[Waiter(l)] = pc[Waiter(l)]
        BY <1>6, <3>1
      <3>3. LockInv
        BY <1>4 DEF VmIs
      <3>4. QED
        BY <2>5, <3>2, <3>3 DEF LockInv
    <2>6. ASSUME NEW l \in Locks, NEW u \in Thread PROVE Wants(u, l)' <=> Wants(u, l)
      BY <2>2, <2>3, <2>4
    <2>7. LockInv
      BY <1>4 DEF VmIs
    <2>8. LockInv'
      BY <1>1, <2>1, <2>5, <2>6, <2>7 DEF LockInv
    <2>9. QED
      BY <2>1, <2>8
  <1>8. \A u \in Ours : Able(u)' <=> Able(u)
    <2>1. \A u \in Ours : Born(u)' <=> Born(u)
      BY <1>3, <1>4, BornStep DEF VmIs, SameSide
    <2>2. LockInv /\ Ours \subseteq Thread
      BY <1>4 DEF VmIs, Ours
    <2>3. QED
      BY <1>1, <1>7, <2>1, <2>2, AbleNext
  <1>9. PICK S : S = Live
    OBVIOUS
  <1>10. /\ Runs(ring, Vm, S) /\ Members(S) /\ Idle \in S /\ Vm \in S /\ Guest \in Thread \ S
    <2>1. RingInv /\ Guest \notin Live /\ runnable = Vm
      BY <1>4 DEF VmIs
    <2>2. Runs(ring, Vm, S) /\ Members(S)
      BY <1>9, <2>1 DEF RingInv
    <2>3. QED
      BY <1>9, <2>1, <2>2, RunsFacts DEF Members
  <1>11. Runs(ring', runnable', (S \ {Vm}) \union {Guest})
    <2>1. S # {Vm} /\ runnable' = Guest
      BY <1>5, <1>10 DEF Enter
    <2>2. QED
      BY <1>5, <1>10, <2>1, RunsExchanged
  <1>12. Members((S \ {Vm}) \union {Guest})'
    <2>1. runnable' = Guest /\ InterruptThread \notin S
      BY <1>2, <1>5, <1>10 DEF Enter, Members
    <2>2. Able(Vm)' /\ \A t \in {Sdcard, Ticker} : t \in S <=> Able(t)'
      BY <1>8, <1>10 DEF Members, Ours
    <2>3. QED
      BY <1>6, <1>10, <2>1, <2>2 DEF Members
  <1>13. RingInv' /\ Live' = (S \ {Vm}) \union {Guest}
    BY <1>11, <1>12, LiveNext
  <1>14. /\ context' \in [mode : Modes, pc : {0, 1}, reg : 0 .. 3]
         /\ context'.mode = context.mode /\ context'.reg = context.reg
    <2>1. context \in [mode : Modes \union {"none"}, pc : {0, 1}, reg : 0 .. 3] /\ next_pc \in {0, 1}
      BY <1>4 DEF VmIs, WorldInv, DataInv
    <2>2. QED
      BY <1>4, <1>5, <2>1
  <1>15. /\ runnable' = Guest /\ ns' = TRUE /\ sys' = vm_state /\ cpu' = context'
    <2>1. IsNonSecure(context') /\ ns = FALSE
      BY <1>4, <1>14 DEF IsNonSecure, Modes, VmIs
    <2>2. QED
      BY <1>5, <2>1 DEF Enter
  <1>16. WorldInv' /\ Mode' = Mode /\ Reg' = Reg
    <2>1. trap' \in [pc : {0, 1}, esr : Why \union {"none"}]
      BY <1>5 DEF NoTrap
    <2>2. context'.mode \in Modes /\ "none" \notin Modes
      BY <1>14 DEF Modes
    <2>3. WorldInv'
      BY <1>1, <1>4, <1>5, <1>6, <1>14, <1>15, <2>1, <2>2 DEF VmIs, WorldInv
    <2>4. QED
      BY <1>4, <1>14, <1>15, <2>3 DEF Mode, Reg, VmIs
  <1>17. DataInv' /\ sdcard_thread' = sdcard_thread /\ (Inhibited' <=> Inhibited)
    BY <1>1, <1>4 DEF VmIs, DataInv, devices, Inhibited
  <1>18. PcInv'
    <2>1. Vm \in Ours /\ Born(Vm) /\ SameStage(pc[Vm], "handler") /\ Vm # Sdcard /\ Vm # Ticker
      BY <1>2, <1>3 DEF Born, SameSide, Ours
    <2>2. sdcard_thread = Sdcard
      BY <1>2, <1>4, CardThere DEF NoSdcard, VmIs
    <2>3. QED
      BY <1>3, <1>4, <1>17, <2>1, <2>2, PcStep DEF VmIs
  <1>19. GateInv'
    BY <1>1, <1>2, <1>4, <1>17, GateVm DEF VmIs
  <1>20. HcrInv'
    BY <1>2, <1>4, <1>5, <1>6 DEF VmIs, HcrInv
  <1>21. El2Inv'
    BY <1>4, <1>16, <1>17 DEF VmIs, El2Inv
  <1>22. QED
    BY <1>7, <1>13, <1>16, <1>18, <1>19, <1>20, <1>21 DEF Inv, TrapInv

LEMMA EntryNext ==
    ASSUME Inv, Entry
    PROVE  Inv'
  <1>1. ASSUME CreateSdcard \/ CreateTicker PROVE Inv'
    BY <1>1, CreatesNext DEF CreateSdcard, CreateTicker
  <1>2. QED
    BY <1>1, MakePartnerNext, SetRegistersNext, AwaitSdcardNext, AwaitTickerNext, ClaimVmNext,
       RunGuestNext, ReleaseVmNext, WaitForEventNext DEF Entry


-----------------------------------------------------------------------------
(* Every behaviour *)

LEMMA InitInv ==
    ASSUME Init
    PROVE  Inv
  <1>1. /\ ring = InsertBefore(SelfLinked, Vm, Idle) /\ runnable = Vm
        /\ gate = [t \in Thread |-> 0] /\ sleeping = {} /\ partner = NULL
        /\ ns = FALSE /\ sys = SecureRegs /\ vm_state = [el1 |-> 0, hcr |-> {}]
        /\ cpu = NoCpu /\ context = NoCpu /\ elr_el2 = 0 /\ esr_el2 = "none" /\ trap = NoTrap
        /\ stopped = NULL
    BY DEF Init, PartnersInit
  <1>2. /\ pc = [t \in Thread |-> IF t = Vm THEN "make_partner" ELSE "start"]
        /\ lock = [l \in Locks |-> Unlocked]
        /\ sdcard_thread = NULL /\ ticker_thread_running = FALSE /\ next_pc = 0
        /\ emmc_state = [CMDTM |-> "none", inhibit |-> FALSE, done |-> FALSE, mask |-> 0]
        /\ irq_active = FALSE /\ waiting = FALSE
    BY DEF Init, Locks
  <1>3. /\ pc[Vm] = "make_partner" /\ \A t \in Thread \ {Vm} : pc[t] = "start"
        /\ pc \in [Thread -> VmAt \union SdcardAt \union TickerAt]
    BY <1>2 DEF VmAt, Outside, NoTicker, NoSdcard, SdcardAt, TickerAt
  <1>4. PcInv
    <2>1. DataInv
      <3>1. ticker_thread_running \in BOOLEAN /\ waiting \in BOOLEAN /\ irq_active \in BOOLEAN
        BY <1>2, Zenon
      <3>2. \E c, i, d, m : emmc_state = [CMDTM |-> c, inhibit |-> i, done |-> d, mask |-> m]
        BY <1>2, Zenon
      <3>3. QED
        BY <1>1, <1>2, <3>1, <3>2 DEF DataInv
    <2>2. "make_partner" \in VmAt /\ "make_partner" \in NoSdcard /\ "start" \in SdcardAt \intersect TickerAt
      BY DEF VmAt, Outside, NoTicker, NoSdcard, SdcardAt, TickerAt
    <2>3. QED
      BY <1>2, <1>3, <2>1, <2>2 DEF PcInv
  <1>5. \A l \in Locks : lock[l] = Shape(NULL, NULL) /\ Owner(l) = NULL /\ Waiter(l) = NULL
    BY <1>2 DEF Unlocked, Shape, Owner, Waiter
  <1>6. LockInv
    <2>1. lock \in [Locks -> {Shape(o, w) : o \in Thread \union {NULL}, w \in Thread \union {NULL}}]
      BY <1>2, <1>5
    <2>2. ASSUME NEW l \in Locks, NEW t \in Thread PROVE ~Wants(t, l)
      <3>1. CASE t = Vm
        BY <1>3, <3>1 DEF Wants, WantsAt, Outside, NoTicker, NoSdcard, InIrq, InEmmc
      <3>2. CASE t # Vm
        BY <1>3, <3>2 DEF Wants, WantsAt, InIrq
      <3>3. QED
        BY <3>1, <3>2
    <2>3. QED
      BY <1>5, <2>1, <2>2 DEF LockInv
  <1>7. Runs(ring, runnable, {Vm, Idle})
    <2>1. SelfLinked \in Ring /\ WellLinked(SelfLinked) /\ \A t \in Thread : Alone(SelfLinked, t)
      BY DEF SelfLinked, Ring, WellLinked, Alone
    <2>2. RingOf(SelfLinked, Idle) = {Idle}
      BY <2>1, AloneRing
    <2>3. Runs(SelfLinked, Idle, {Idle}) /\ Vm \in Thread \ {Idle}
      BY <2>1, <2>2 DEF Runs
    <2>4. Runs(InsertBefore(SelfLinked, Vm, Idle), Vm, {Idle} \union {Vm})
      BY <2>3, RunsInsertBefore
    <2>5. {Idle} \union {Vm} = {Vm, Idle}
      OBVIOUS
    <2>6. QED
      BY <1>1, <2>4, <2>5
  <1>8. \A t \in Thread : gate[t] = 0 /\ gate[t] # -1 /\ gate[t] # 1
    BY <1>1
  <1>9. RingInv
    <2>1. Live = {Vm, Idle}
      BY <1>7 DEF Live, Runs
    <2>2. ~Able(Sdcard) /\ ~Able(Ticker)
      BY <1>3 DEF Able, Born, NoTicker, NoSdcard
    <2>3. Able(Vm)
      BY <1>5, <1>6, <1>8, BlockedFacts DEF Able, Born, Perhaps
    <2>4. QED
      BY <1>1, <1>7, <2>1, <2>2, <2>3 DEF RingInv, Members
  <1>10. ~Inhibited
    BY <1>2 DEF Inhibited
  <1>11. GateInv
    <2>1. gate \in [Thread -> -1 .. 1]
      <3>1. 0 \in -1 .. 1
        OBVIOUS
      <3>2. QED
        BY <1>1, <3>1
    <2>2. Serves("start", 0, FALSE)
      BY DEF Serves
    <2>3. pc[Sdcard] = "start" /\ gate[Sdcard] = 0
      BY <1>3, <1>8
    <2>4. Serves(pc[Sdcard], gate[Sdcard], Inhibited /\ pc[Vm] # "wake")
      BY <1>10, <2>2, <2>3
    <2>5. gate[Ticker] \in {-1, 0}
      BY <1>8
    <2>6. QED
      BY <1>1, <1>3, <1>8, <2>1, <2>4, <2>5 DEF GateInv
  <1>12. context \in [mode : Modes \union {"none"}, pc : {0, 1}, reg : 0 .. 3] /\ context.reg = 0
         /\ context.mode = "none"
    BY <1>1 DEF NoCpu
  <1>13. WorldInv
    <2>1. vm_state \in [el1 : {0, 1}, hcr : SUBSET (0 .. 63)]
      BY <1>1
    <2>2. trap \in [pc : {0, 1}, esr : Why \union {"none"}]
      BY <1>1 DEF NoTrap
    <2>3. QED
      BY <1>1, <1>3, <1>12, <2>1, <2>2 DEF WorldInv
  <1>14. TrapInv
    <2>1. HcrInv
      BY <1>1, <1>3 DEF HcrInv
    <2>2. Mode = "none"
      BY <1>1, <1>12 DEF Mode
    <2>3. El2Inv
      BY <1>10, <2>2 DEF El2Inv
    <2>4. HandlerInv
      BY <1>3 DEF HandlerInv, HandlerAt, InEmmc, InIrq
    <2>5. QED
      BY <2>1, <2>3, <2>4 DEF TrapInv
  <1>15. QED
    BY <1>4, <1>6, <1>9, <1>11, <1>13, <1>14 DEF Inv

LEMMA NextInv ==
    ASSUME Inv, [Next]_vars
    PROVE  Inv'
  <1>1. CASE UNCHANGED vars
    <2>1. UNCHANGED <<pc, lock, threads, devices, kernel, partner, world, guest>> /\ stopped' = stopped
      BY <1>1 DEF vars
    <2>2. stopped' \in {NULL, "guest", "svc"}
      BY <2>1 DEF Inv, PcInv, DataInv
    <2>3. QED
      BY <2>1, <2>2, StopNext
  <1>2. CASE Next
    BY <1>1, <1>2, EntryNext, VmHandlerNext, SdcardNext, TickerNext, IdleNext, IrqNext,
       IrqDoneNext, ExpireNext, ComputeNext, GuestTrapsNext, EL2Next DEF Next, Halted
  <1>3. QED
    BY <1>1, <1>2

(* The inductive invariant of the driver, the kernel's threads and the     *)
(* guest, for any set of traps that the guest uses.                        *)
THEOREM RiscOSInvariant == Spec => []Inv
  <1>1. Init => Inv
    BY InitInv
  <1>2. Inv /\ [Next]_vars => Inv'
    BY NextInv
  <1>3. QED
    BY <1>1, <1>2, PTL DEF Spec


-----------------------------------------------------------------------------
(* What the invariant says of the ring and of the types *)

LEMMA InvTypes ==
    ASSUME Inv
    PROVE  TypeOK
  <1>1. PcInv /\ LockInv /\ RingInv /\ GateInv /\ WorldInv
    BY DEF Inv
  <1>2. ring \in Ring /\ runnable \in Thread
    BY <1>1 DEF RingInv, Runs
  <1>3. partner \in {NULL, Guest}
    BY <1>1 DEF WorldInv
  <1>4. gate \in [Thread -> -1 .. 1] /\ sleeping \subseteq {t \in Thread : gate[t] = -1}
    BY <1>1 DEF GateInv
  <1>5. ASSUME NEW l \in Locks
        PROVE  lock[l].owner \in {NULL, Vm, Sdcard, Ticker} /\ Len(lock[l].queue) <= 1
    <2>1. lock[l] = Shape(Owner(l), Waiter(l)) /\ Owner(l) \in Perhaps
      BY <1>1, LockFacts
    <2>2. Owner(l) \in {NULL, Vm, Sdcard, Ticker}
      <3>1. CASE Owner(l) \in Thread
        <4>1. Wants(Owner(l), l)
          BY <1>1, <3>1, WantsIff
        <4>2. QED
          BY <4>1, WhoWants DEF Wants
      <3>2. QED
        BY <2>1, <3>1 DEF Perhaps
    <2>3. lock[l].owner = Owner(l)
      BY DEF Owner
    <2>4. lock[l].queue = << >> \/ lock[l].queue = <<Waiter(l)>>
      BY <2>1 DEF Shape
    <2>5. Len(lock[l].queue) <= 1
      <3>1. CASE lock[l].queue = << >>
        BY <3>1
      <3>2. CASE lock[l].queue = <<Waiter(l)>>
        <4>1. PICK w : w = Waiter(l)
          OBVIOUS
        <4>2. Len(<<w>>) = 1
          OBVIOUS
        <4>3. QED
          BY <3>2, <4>1, <4>2
      <3>3. QED
        BY <2>4, <3>1, <3>2
    <2>6. QED
      BY <2>2, <2>3, <2>5
  <1>6. vm_state.hcr \subseteq 0 .. 63 /\ vm_state.el1 \in 0 .. 3
    <2>1. vm_state \in [el1 : {0, 1}, hcr : SUBSET (0 .. 63)]
      BY <1>1 DEF WorldInv
    <2>2. vm_state.el1 \in {0, 1} /\ vm_state.hcr \in SUBSET (0 .. 63)
      BY <2>1
    <2>3. vm_state.el1 \in 0 .. 3
      BY <2>2
    <2>4. QED
      BY <2>2, <2>3
  <1>7. ns \in BOOLEAN /\ irq_active \in BOOLEAN /\ waiting \in BOOLEAN
    BY <1>1, Zenon DEF PcInv, DataInv, WorldInv
  <1>8. {context.pc, elr_el2, trap.pc, next_pc} \subseteq {0, 1}
    BY <1>1 DEF PcInv, DataInv, WorldInv
  <1>9. stopped \in {NULL, "guest", "svc"}
    BY <1>1 DEF PcInv, DataInv
  <1>10. QED
    BY <1>2, <1>3, <1>4, <1>5, <1>6, <1>7, <1>8, <1>9 DEF TypeOK

(* The ring of the running thread has the threads that are linked to any. *)
LEMMA LiveIs ==
    ASSUME Inv
    PROVE  /\ Live = {runnable} \union {t \in Thread : ~Alone(ring, t)}
           /\ runnable \in Live /\ Live \subseteq Thread /\ WellLinked(ring) /\ ring \in Ring
           /\ \A t \in Thread : t \notin Live => Alone(ring, t)
           /\ Alone(ring, Guest) <=> Guest \notin Live
           /\ \A Q \in SUBSET Live : Q # {} /\ Closed(ring, Q) => Q = Live
  <1>1. PICK S : S = Live
    OBVIOUS
  <1>2. Runs(ring, runnable, S) /\ Idle \in S
    BY <1>1 DEF Inv, RingInv, Members
  <1>3. /\ runnable \in S /\ S \subseteq Thread /\ WellLinked(ring) /\ ring \in Ring
        /\ \A t \in Thread \ S : Alone(ring, t)
        /\ RingOf(ring, runnable) = S /\ runnable \in Thread
    BY <1>2, RunsFacts DEF Runs
  <1>4. ASSUME NEW t \in S, t # runnable PROVE ~Alone(ring, t)
    BY <1>2, <1>3, <1>4, RunsNotAlone
  <1>5. S = {runnable} \union {t \in Thread : ~Alone(ring, t)}
    BY <1>3, <1>4
  <1>6. ASSUME Guest \in S PROVE ~Alone(ring, Guest)
    BY <1>2, <1>6, RunsNotAlone
  <1>7. ASSUME NEW Q \in SUBSET S, Q # {}, Closed(ring, Q) PROVE Q = S
    BY <1>3, <1>7, OnePiece
  <1>8. QED
    BY <1>1, <1>3, <1>5, <1>6, <1>7

LEMMA InvRing ==
    ASSUME Inv
    PROVE  RingRight
  <1> DEFINE r    == {runnable} \union {t \in Thread : ~Alone(ring, t)}
             born == {Sdcard, Ticker} \ {t \in Thread : pc[t] = "start" /\ Alone(ring, t)}
  <1>1. TypeOK
    BY InvTypes
  <1>2. /\ r = Live /\ WellLinked(ring)
        /\ \A t \in Thread : t \notin Live => Alone(ring, t)
        /\ \A Q \in SUBSET Live : Q # {} /\ Closed(ring, Q) => Q = Live
    BY LiveIs
  <1>3. Members(Live)
    BY DEF Inv, RingInv
  <1>4. ASSUME NEW t \in born PROVE t \in Live <=> ~Blocked(t)
    <2>1. t \in {Sdcard, Ticker} /\ (t \in Live <=> Able(t))
      BY <1>3 DEF Members
    <2>2. CASE Born(t)
      BY <2>1, <2>2 DEF Able
    <2>3. CASE ~Born(t)
      <3>1. pc[t] = "start" /\ t \notin Live
        BY <2>1, <2>3, Unborn
      <3>2. QED
        BY <1>2, <3>1
    <2>4. QED
      BY <2>2, <2>3
  <1>5. Able(Vm) <=> ~Blocked(Vm)
    BY DEF Able, Born
  <1> HIDE DEF r, born
  <1>6. /\ TypeOK /\ WellLinked(ring)
        /\ \A Q \in SUBSET r : Q # {} /\ Closed(ring, Q) => Q = r
        /\ Idle \in r
        /\ \A t \in born : t \in r <=> ~Blocked(t)
        /\ InterruptThread \in r <=> runnable = InterruptThread
        /\ Vm \in r \/ Guest \in r <=> ~Blocked(Vm)
        /\ ~(Vm \in r /\ Guest \in r)
    BY <1>1, <1>2, <1>3, <1>4, <1>5 DEF Members
  <1>7. QED
    BY <1>6 DEF RingRight, r, born

(* The ring of threads that can run is in one piece and has exactly those  *)
(* that are not blocked, whatever SWITCH_TO_PARTNER, the locks, the gates  *)
(* and interrupts do to its links; every variable has its type.            *)
THEOREM RiscOSRing == Spec => []RingRight
  BY RiscOSInvariant, InvRing, PTL

(* The core is in the non-secure world exactly while the guest, or EL2 for *)
(* it, runs: el1_enter_thread and the interrupts toggle it in step.        *)
THEOREM RiscOSWorld == Spec => []WorldRight
  <1>1. Inv => WorldRight
    <2>1. SUFFICES ASSUME Inv PROVE WorldRight
      OBVIOUS
    <2>2. WorldInv
      BY <2>1 DEF Inv
    <2>3. CASE ns
      <3>1. /\ cpu.mode \in Modes /\ sys.el1 \in {0, 1} /\ runnable = Guest
        BY <2>2, <2>3 DEF WorldInv
      <3>2. sys # SecureRegs
        BY <3>1 DEF SecureRegs
      <3>3. cpu.mode # "none"
        BY <3>1 DEF Modes
      <3>4. QED
        BY <2>3, <3>1, <3>2, <3>3 DEF WorldRight
    <2>4. CASE ~ns
      BY <2>2, <2>4 DEF WorldInv, WorldRight, NoCpu
    <2>5. QED
      BY <2>3, <2>4
  <1>2. QED
    BY <1>1, RiscOSInvariant, PTL

(* vm_handler is called with the trap that ended this run of the guest,    *)
(* and with the guest's registers in its context, wherever EL2 was         *)
(* interrupted.                                                            *)
THEOREM RiscOSTrap == Spec => []HandlerSeesTrap
  <1>1. Inv => HandlerSeesTrap
    <2>1. SUFFICES ASSUME Inv, pc[Vm] = "handler", Alone(ring, Guest)
                   PROVE  /\ trap = [pc |-> context.pc, esr |-> esr_el2]
                          /\ context.mode = "guest"
                          /\ lock["vm"].owner = Vm
      BY DEF HandlerSeesTrap
    <2>2. Guest \notin Live /\ runnable \in Live
      BY <2>1, LiveIs
    <2>3. HandlerAt("handler") /\ El2Inv
      BY <2>1, <2>2 DEF Inv, TrapInv, HandlerInv
    <2>4. trap = [pc |-> context.pc, esr |-> esr_el2]
      BY <2>3 DEF HandlerAt
    <2>5. context.mode = "guest"
      <3>1. WorldInv /\ ns = FALSE
        BY <2>1, <2>2 DEF Inv, WorldInv
      <3>2. context.mode \in Modes /\ Mode = context.mode
        BY <2>1, <3>1 DEF WorldInv, Mode
      <3>3. QED
        BY <2>2, <2>3, <3>2 DEF El2Inv, Modes
    <2>6. Owner("vm") = Vm
      <3>1. LockInv /\ "vm" \in Locks /\ Wants(Vm, "vm") /\ ~ClaimedAt(Vm, "vm", pc[Vm])
        BY <2>1 DEF Inv, Locks, Wants, WantsAt, ClaimedAt, Outside, NoTicker, NoSdcard
      <3>2. QED
        BY <3>1, WantsIff
    <2>7. QED
      BY <2>4, <2>5, <2>6 DEF Owner
  <1>2. QED
    BY <1>1, RiscOSInvariant, PTL

-----------------------------------------------------------------------------
(* What a step may never do to the guest *)

(* What a secure thread does to the guest's state when it only runs another *)
(* thread, or none.                                                         *)
Kept == UNCHANGED guest /\ (UNCHANGED world \/ \E u : Run(u))

LEMMA StepKeeps ==
    ASSUME NEW t, NEW from, NEW to, NEW l, NEW timed, NEW why, NEW details,
           \/ Local(t, from, to) \/ Yields(t, from, to) \/ Waits(t, from, timed, to)
           \/ Claims(t, l, from, to) \/ Releases(t, l, from, to) \/ Creates(t, from, to)
           \/ Stop(t, from, why) \/ UpdateVirtualIrq(t, from, to, details)
    PROVE  Kept
  <1>1. CASE Local(t, from, to)
    BY <1>1 DEF Local, Kept
  <1>2. CASE Yields(t, from, to)
    BY <1>2 DEF Yields, Yield, Run, Kept
  <1>3. CASE Waits(t, from, timed, to)
    BY <1>3 DEF Waits, Block, Pass, Run, Kept
  <1>4. CASE Claims(t, l, from, to)
    BY <1>4 DEF Claims, ClaimRuns, Run, Kept
  <1>5. CASE Releases(t, l, from, to)
    BY <1>5 DEF Releases, ReleaseRuns, Run, Kept
  <1>6. CASE Creates(t, from, to)
    BY <1>6 DEF Creates, CreateThread, Run, Kept
  <1>7. CASE Stop(t, from, why)
    BY <1>7 DEF Stop, Kept
  <1>8. CASE UpdateVirtualIrq(t, from, to, details)
    BY <1>7, <1>8 DEF UpdateVirtualIrq, Stop, Kept
  <1>9. QED
    BY <1>1, <1>2, <1>3, <1>4, <1>5, <1>6, <1>7, <1>8

LEMMA SdcardKeeps ==
    ASSUME SdcardThread
    PROVE  Kept
  BY StepKeeps DEF SdcardThread, SdcardStarts, SdcardWaits, SdcardLooks, SdcardSleeps, SdcardClaims,
     Complete, TriggerIrq, SdcardReleases

LEMMA TickerKeeps ==
    ASSUME TickerThread
    PROVE  Kept \/ RaiseVirtualInterrupt
  BY StepKeeps DEF TickerThread, TickerStarts, TickerSleeps, TickerClaims, TickerReleases

(* Vm sets the guest up once. *)
SetUp == {"make_partner", "registers"}

LEMMA SetUpOnce ==
    ASSUME Inv, [Next]_vars, pc[Vm] \notin SetUp
    PROVE  pc'[Vm] \notin SetUp
  <1>1. Vm \in Thread /\ Sdcard # Vm /\ Ticker # Vm /\ pc = [t \in Thread |-> pc[t]]
    BY RiscOSAssumption DEF Inv, PcInv
  <1>2. ASSUME NEW t, NEW from, NEW to, Step(t, from, to), t # Vm \/ to \notin SetUp
        PROVE  pc'[Vm] \notin SetUp
    BY <1>1, <1>2 DEF Step
  <1>3. ASSUME NEW t, NEW from, NEW to, NEW l, NEW timed, NEW why, NEW details,
               t # Vm \/ to \notin SetUp,
               \/ Local(t, from, to) \/ Yields(t, from, to) \/ Waits(t, from, timed, to)
               \/ Claims(t, l, from, to) \/ Releases(t, l, from, to) \/ Stop(t, from, why)
               \/ UpdateVirtualIrq(t, from, to, details)
        PROVE  pc'[Vm] \notin SetUp
    <2>1. CASE Step(t, from, to)
      BY <1>2, <1>3, <2>1
    <2>2. CASE pc' = pc
      BY <2>2
    <2> QED
      BY <1>3, <2>1, <2>2
      DEF Local, Yields, Waits, Claims, Releases, Stop, UpdateVirtualIrq
  <1>4. CASE \/ UNCHANGED vars \/ IdleThread \/ Irq \/ IrqDone \/ \E t \in Thread : Expire(t)
             \/ Compute \/ GuestTraps \/ EL2
    BY <1>4 DEF vars, IdleThread, Irq, IrqDone, Expire, Compute, GuestTraps, EL2, rest
  <1>5. CASE SdcardThread
    BY <1>1, <1>3, <1>5 DEF SdcardThread, SdcardStarts, SdcardWaits, SdcardLooks, SdcardSleeps,
       SdcardClaims, Complete, TriggerIrq, SdcardReleases
  <1>6. CASE TickerThread
    BY <1>1, <1>2, <1>3, <1>6 DEF TickerThread, TickerStarts, TickerSleeps, TickerClaims,
       RaiseVirtualInterrupt, TickerReleases
  <1>7. /\ \A from, to : (Step(Vm, from, to) \/ Local(Vm, from, to) \/ Yields(Vm, from, to))
                          /\ to \notin SetUp => pc'[Vm] \notin SetUp
        /\ \A from, to, timed : Waits(Vm, from, timed, to) /\ to \notin SetUp => pc'[Vm] \notin SetUp
        /\ \A from, to, l : (Claims(Vm, l, from, to) \/ Releases(Vm, l, from, to))
                             /\ to \notin SetUp => pc'[Vm] \notin SetUp
        /\ \A from, why : Stop(Vm, from, why) => pc'[Vm] \notin SetUp
        /\ \A from, to, d : UpdateVirtualIrq(Vm, from, to, d)
                             /\ to \notin SetUp => pc'[Vm] \notin SetUp
    BY <1>2 DEF Local, Yields, Waits, Claims, Releases, Stop, UpdateVirtualIrq
  <1>8. /\ "sdcard?" \notin SetUp /\ "create_ticker" \notin SetUp /\ "ticker?" \notin SetUp
         /\ "claim vm" \notin SetUp /\ "switch" \notin SetUp /\ "handler" \notin SetUp
         /\ "release vm" \notin SetUp /\ "waiting?" \notin SetUp /\ "woken" \notin SetUp
         /\ "cp15" \notin SetUp /\ "ack" \notin SetUp /\ "bad" \notin SetUp
         /\ "claim emmc" \notin SetUp /\ "claim irq" \notin SetUp /\ "mailbox" \notin SetUp
         /\ "timer" \notin SetUp /\ "bsc" \notin SetUp /\ "tags" \notin SetUp
         /\ "for ever" \notin SetUp /\ "emmc" \notin SetUp /\ "release emmc" \notin SetUp
         /\ "wake" \notin SetUp /\ "yield" \notin SetUp /\ "irq" \notin SetUp
         /\ "release irq" \notin SetUp
    BY DEF SetUp
  <1>9. CASE Entry
    <2>1. CASE MakePartnerThread \/ SetRegisters
      BY <2>1 DEF MakePartnerThread, SetRegisters, Calls, Step, SetUp
    <2>2. CASE CreateSdcard \/ AwaitSdcard \/ CreateTicker \/ AwaitTicker
      BY <1>7, <1>8, <2>2 DEF CreateSdcard, AwaitSdcard, CreateTicker, AwaitTicker, Creates
    <2>3. CASE ClaimVm \/ RunGuest \/ ReleaseVm \/ WaitForEvent
      BY <1>7, <1>8, <2>3 DEF ClaimVm, RunGuest, ReleaseVm, WaitForEvent
    <2> QED
      BY <1>9, <2>1, <2>2, <2>3 DEF Entry
  <1>10. CASE VmHandler
    <2>1. CASE Handle
      <3>1. \E to : Local(Vm, "handler", to) /\ to \notin SetUp
        BY <1>8, <2>1 DEF Handle, Device
      <3> QED
        BY <1>7, <1>8, <3>1
    <2>2. CASE Bad \/ Acknowledge \/ Cp15Access \/ Mailbox \/ RespondToTagRequest
      BY <1>7, <1>8, <2>2
      DEF Bad, Acknowledge, Cp15Access, Mailbox, RespondToTagRequest, Returns, Calls
    <2>3. CASE SystemTimer \/ Bsc \/ ClaimEmmc \/ ReadEmmc \/ WakeSdcard \/ YieldToSdcard
      BY <1>7, <1>8, <2>3
      DEF SystemTimer, Bsc, Returns, Calls, ClaimEmmc, ReadEmmc, WakeSdcard, YieldToSdcard
    <2>4. CASE WriteEmmc
      <3>1. \E to : Local(Vm, "emmc", to) /\ to \notin SetUp
        BY <1>8, <2>4 DEF WriteEmmc
      <3> QED
        BY <1>7, <1>8, <3>1
    <2>5. CASE ReleaseEmmc \/ ClaimIrq \/ ReadIrq \/ WriteIrq
      BY <1>7, <1>8, <2>5 DEF ReleaseEmmc, ClaimIrq, ReadIrq, WriteIrq, Calls
    <2>6. CASE ReleaseIrq
      <3>1. \E to : Releases(Vm, "irq", "release irq", to) /\ to \notin SetUp
        BY <1>8, <2>6 DEF ReleaseIrq
      <3> QED
        BY <1>7, <1>8, <3>1
    <2> QED
      BY <1>10, <2>1, <2>2, <2>3, <2>4, <2>5, <2>6 DEF VmHandler
  <1> QED
    BY <1>4, <1>5, <1>6, <1>9, <1>10 DEF Next, Halted

LEMMA HcrKept ==
    ASSUME Inv
    PROVE  pc[Vm] \notin SetUp => GuestHcr = HCR2 \intersect Word
  <1>1. HcrInv /\ (ns => sys.hcr = vm_state.hcr)
    BY DEF Inv, TrapInv, WorldInv
  <1> QED
    BY <1>1 DEF HcrInv, GuestHcr, SetUp

(* The guest runs with the traps that entry's call has left in HCR_EL2,    *)
(* whatever the ticker and hvc32 do to that register: the invariant even   *)
(* says which, those of riscos.c:1402 that a uint32_t holds.               *)
THEOREM RiscOSTraps == Spec => TrapsKept
  <1>1. Inv /\ [Next]_vars => [pc[Vm] \notin {"make_partner", "registers"}
                              => GuestHcr' = GuestHcr]_vars
    <2>1. SUFFICES ASSUME Inv, [Next]_vars, pc[Vm] \notin SetUp
                   PROVE  GuestHcr' = GuestHcr
      BY DEF SetUp
    <2>2. GuestHcr = HCR2 \intersect Word
      BY <2>1, HcrKept
    <2>3. Inv' /\ pc'[Vm] \notin SetUp
      BY <2>1, NextInv, SetUpOnce
    <2>4. HcrInv' /\ (ns' => sys'.hcr = vm_state'.hcr)
      BY <2>3 DEF Inv, TrapInv, WorldInv
    <2>5. GuestHcr' = HCR2 \intersect Word
      BY <2>3, <2>4 DEF HcrInv, GuestHcr, SetUp
    <2>6. QED
      BY <2>2, <2>5
  <1>2. QED
    BY <1>1, RiscOSInvariant, PTL DEF Spec, TrapsKept

LEMMA GuestStateStays ==
    ASSUME WorldInv, runnable # Guest, Kept
    PROVE  GuestState' = GuestState
  <1>1. UNCHANGED <<vm_state, context, elr_el2, esr_el2, trap>> /\ ns = FALSE
    BY DEF Kept, guest, WorldInv
  <1>2. CASE UNCHANGED world
    BY <1>1, <1>2 DEF world, GuestState
  <1>3. ASSUME NEW u, Run(u) PROVE GuestState' = GuestState
    <2>1. CASE u = Guest /\ IsNonSecure(context')
      <3>1. ns' = TRUE /\ sys' = vm_state' /\ cpu' = context'
        BY <1>1, <1>3, <2>1 DEF Run, Enter
      <3>2. QED
        BY <1>1, <3>1 DEF GuestState
    <2>2. CASE ~(u = Guest /\ IsNonSecure(context'))
      <3>1. UNCHANGED world
        BY <1>3, <2>2 DEF Run, Enter
      <3>2. QED
        BY <1>2, <3>1
    <2>3. QED
      BY <2>1, <2>2
  <1>4. QED
    BY <1>2, <1>3 DEF Kept

(* An interrupt of the guest, or of EL2, and the end of its trap. *)
LEMMA GuestStateLeft ==
    ASSUME WorldInv, ns, Irq \/ SwitchToSecure
    PROVE  GuestState' = GuestState
  <1>1. ns = TRUE /\ cpu \in [mode : Modes, pc : {0, 1}, reg : 0 .. 3]
    BY DEF WorldInv
  <1>2. CASE Irq
    <2>1. context' = cpu /\ ns' = FALSE /\ vm_state' = sys /\ elr_el2' = elr_el2
      BY <1>1, <1>2 DEF Irq, InterruptTaken, Leave
    <2>2. QED
      BY <1>1, <2>1 DEF GuestState
  <1>3. CASE SwitchToSecure
    <2>1. /\ cpu.mode = "el2 stored" /\ context' = [cpu EXCEPT !.mode = "guest", !.pc = elr_el2]
          /\ ns' = FALSE /\ vm_state' = sys /\ elr_el2' = elr_el2
      BY <1>1, <1>3 DEF SwitchToSecure, Leave
    <2>2. context'.mode = "guest" /\ context'.pc = elr_el2 /\ context'.reg = cpu.reg
      BY <1>1, <2>1
    <2>3. QED
      BY <1>1, <2>1, <2>2 DEF GuestState
  <1>4. QED
    BY <1>2, <1>3

LEMMA GuestStateStep ==
    ASSUME Inv, [Next]_vars, runnable # Vm, ~(runnable = Guest /\ runnable' = Guest)
    PROVE  GuestState' = GuestState
  <1>1. WorldInv /\ (ns <=> runnable = Guest)
    BY DEF Inv, WorldInv
  <1>2. CASE UNCHANGED vars
    BY <1>2 DEF vars, world, guest, GuestState
  <1>3. CASE SdcardThread
    <2>1. runnable = Sdcard
      BY <1>3 DEF SdcardThread, SdcardStarts, SdcardWaits, SdcardLooks, SdcardSleeps, SdcardClaims,
         Complete, TriggerIrq, SdcardReleases, Local, Waits, Stop, Claims, Releases,
         UpdateVirtualIrq, Step
    <2>2. QED
      BY <1>1, <1>3, <2>1, SdcardKeeps, GuestStateStays
  <1>4. CASE TickerThread
    <2>1. runnable = Ticker
      BY <1>4 DEF TickerThread, TickerStarts, TickerSleeps, TickerClaims, TickerReleases,
         RaiseVirtualInterrupt, Local, Waits, Claims, Releases, Step
    <2>2. CASE RaiseVirtualInterrupt
      <3>1. /\ vm_state' = [vm_state EXCEPT !.hcr = Raised] /\ ns = FALSE
            /\ UNCHANGED <<ns, context, elr_el2>>
        BY <1>1, <2>1, <2>2 DEF RaiseVirtualInterrupt, world, WorldInv
      <3>2. vm_state'.el1 = vm_state.el1
        BY <1>1, <3>1 DEF WorldInv
      <3>3. QED
        BY <3>1, <3>2 DEF GuestState
    <2>3. QED
      BY <1>1, <1>4, <2>1, <2>2, TickerKeeps, GuestStateStays
  <1>5. CASE IdleThread \/ IrqDone \/ \E t \in Thread : Expire(t)
    <2>1. Kept /\ runnable # Guest
      BY <1>5 DEF IdleThread, IrqDone, Expire, Yield, Run, Kept
    <2>2. QED
      BY <1>1, <2>1, GuestStateStays
  <1>6. CASE Irq
    <2>1. CASE ns
      BY <1>1, <1>6, <2>1, GuestStateLeft
    <2>2. CASE ~ns
      <3>1. Kept
        BY <1>6, <2>2 DEF Irq, InterruptTaken, Kept
      <3>2. QED
        BY <1>1, <2>2, <3>1, GuestStateStays
    <2>3. QED
      BY <2>1, <2>2
  <1>7. CASE Compute \/ GuestTraps
    BY <1>7 DEF Compute, GuestTraps, GuestRuns, kernel
  <1>8. CASE EL2
    BY <1>1, <1>8, GuestStateLeft DEF EL2
  <1>9. CASE Entry
    BY <1>9 DEF Entry, MakePartnerThread, SetRegisters, CreateSdcard, CreateTicker, AwaitSdcard,
       AwaitTicker, ClaimVm, RunGuest, ReleaseVm, WaitForEvent, Calls, Creates, Yields, Local,
       Claims, Releases, Waits, Step
  <1>10. CASE VmHandler
    BY <1>10 DEF VmHandler, Handle, Bad, Acknowledge, Cp15Access, Mailbox, RespondToTagRequest,
       SystemTimer, Bsc, Returns, ClaimEmmc, ReadEmmc, WriteEmmc, WakeSdcard, YieldToSdcard,
       ReleaseEmmc, ClaimIrq, ReadIrq, WriteIrq, ReleaseIrq, UpdateVirtualIrq, Calls, Yields,
       Local, Claims, Releases, Stop, Step
  <1>11. QED
    BY <1>2, <1>3, <1>4, <1>5, <1>6, <1>7, <1>8, <1>9, <1>10 DEF Next, Halted

(* Only the guest itself, and vm_handler for it, change what it sees of    *)
(* its registers: interrupts of the guest and of EL2, switches of the      *)
(* world and the other threads leave them as they were.                    *)
THEOREM RiscOSGuestState == Spec => GuestStateKept
  <1>1. Inv /\ [Next]_vars => [(GuestState' # GuestState)
                               => ((runnable = Guest /\ runnable' = Guest) \/ runnable = Vm)]_vars
    BY GuestStateStep
  <1>2. QED
    BY <1>1, RiscOSInvariant, PTL DEF Spec, GuestStateKept

LEMMA TickStep ==
    ASSUME Inv, [Next]_vars, VI \in vm_state.hcr, VI \notin vm_state'.hcr
    PROVE  trap.esr = "ack"
  <1>1. ~UNCHANGED vm_state /\ ~Kept /\ ~Stop(Vm, "bad", "guest")
    BY DEF Kept, guest, Stop
  <1>2. WorldInv /\ vm_state \in [el1 : {0, 1}, hcr : SUBSET (0 .. 63)]
        /\ (ns => sys.hcr = vm_state.hcr) /\ HcrInv
    BY DEF Inv, WorldInv, TrapInv
  <1>3. CASE UNCHANGED vars
    BY <1>1, <1>3 DEF vars, guest
  <1>4. ~SdcardThread
    BY <1>1, SdcardKeeps
  <1>5. CASE TickerThread
    <2>1. vm_state' = [vm_state EXCEPT !.hcr = Raised]
      BY <1>1, <1>5, TickerKeeps DEF RaiseVirtualInterrupt
    <2>2. VI \in Raised
      BY DEF Raised, Changed, VI, Word
    <2>3. QED
      BY <1>2, <2>1, <2>2
  <1>6. ~(IdleThread \/ IrqDone \/ \E t \in Thread : Expire(t))
    BY <1>1 DEF IdleThread, IrqDone, Expire, Yield, Run, Kept
  <1>7. CASE Irq \/ EL2
    <2>1. vm_state' = sys
      BY <1>1, <1>7 DEF Irq, InterruptTaken, EL2, SwitchToSecure, Leave, guest
    <2>2. ns
      <3>1. CASE Irq
        BY <1>1, <3>1 DEF Irq, InterruptTaken, guest
      <3>2. CASE EL2
        BY <1>2, <3>2 DEF EL2, WorldInv
      <3>3. QED
        BY <1>7, <3>1, <3>2
    <2>3. QED
      BY <1>2, <2>1, <2>2
  <1>8. ~(Compute \/ GuestTraps)
    BY <1>1 DEF Compute, GuestTraps, guest
  <1>9. CASE Entry
    <2>1. MakePartnerThread \/ SetRegisters
      <3>1. ~(CreateSdcard \/ CreateTicker \/ AwaitSdcard \/ AwaitTicker \/ ClaimVm \/ ReleaseVm \/ WaitForEvent)
        BY <1>1, StepKeeps DEF CreateSdcard, CreateTicker, AwaitSdcard, AwaitTicker, ClaimVm,
           ReleaseVm, WaitForEvent
      <3>2. ~RunGuest
        BY <1>1 DEF RunGuest, SwitchToGuest
      <3>3. QED
        BY <1>9, <3>1, <3>2 DEF Entry
    <2>2. pc[Vm] \in {"make_partner", "registers"}
      BY <2>1 DEF MakePartnerThread, SetRegisters, Calls, Step
    <2>3. QED
      BY <1>2, <2>2 DEF HcrInv
  <1>10. CASE VmHandler
    <2>1. ~(Handle \/ Bad \/ RespondToTagRequest \/ ClaimEmmc \/ WriteEmmc \/ YieldToSdcard
            \/ ReleaseEmmc \/ ClaimIrq \/ ReleaseIrq \/ WriteIrq)
      BY <1>1, StepKeeps DEF Handle, Bad, RespondToTagRequest, ClaimEmmc, WriteEmmc,
         YieldToSdcard, ReleaseEmmc, ClaimIrq, ReleaseIrq, WriteIrq
    <2>2. ~(Mailbox \/ SystemTimer \/ Bsc)
      <3>1. \A from, to : ~Returns(from, to) /\ ~Local(Vm, from, to)
        BY <1>1 DEF Returns, Local, guest
      <3>2. QED
        BY <3>1 DEF Mailbox, SystemTimer, Bsc
    <2>3. ~(ReadEmmc \/ ReadIrq \/ WakeSdcard)
      BY <1>1 DEF ReadEmmc, ReadIrq, WakeSdcard, Returns, guest
    <2>4. ~Cp15Access
      BY <1>1, <1>2 DEF Cp15Access
    <2>5. Acknowledge
      BY <1>10, <2>1, <2>2, <2>3, <2>4 DEF VmHandler
    <2>6. pc[Vm] = "ack" /\ runnable = Vm
      BY <2>5 DEF Acknowledge, Calls, Step
    <2>7. HandlerAt("ack")
      BY <2>6, VmFacts
    <2>8. QED
      BY <2>7 DEF HandlerAt
  <1>11. QED
    BY <1>3, <1>4, <1>5, <1>6, <1>7, <1>8, <1>9, <1>10 DEF Next, Halted

(* A virtual interrupt goes away only when a guest that had seen it        *)
(* acknowledges it: no tick that is raised between the trap and hvc32 is   *)
(* lost.                                                                   *)
THEOREM RiscOSNoTickLost == Spec => NoTickLost
  <1>1. Inv /\ [Next]_vars => [(VI \in vm_state.hcr /\ VI \notin vm_state'.hcr)
                               => trap.esr = "ack"]_vars
    BY TickStep
  <1>2. QED
    BY <1>1, RiscOSInvariant, PTL DEF Spec, NoTickLost
=============================================================================
