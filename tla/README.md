# IsambardOS in TLA+

IsambardOS is an AArch64 operating system whose kernel, at secure EL1, does little more than
switch threads and maps, keep locks and move interfaces between maps.  Everything else (memory,
interrupt dispatch, devices, virtual machines) is code at EL0 that lives in *maps* and is reached
by threads that call from map to map.  This directory models the parts whose correctness depends
on the order of events, checks them with TLC on small instances, and proves with TLAPS every
invariant, action property and refinement that the passing runs check: for every number of threads,
maps, interfaces, locks, cores and clients and every amount of memory.  What is left to TLC alone is
liveness.

## Inventory

| Part | State | Operations | Interaction | What makes it correct |
|---|---|---|---|---|
| Scheduler, gates and timeouts (`include/svc_handling.h`, `secure_el1.c`, `include/doubly_linked_lists.h`) | the ring of threads that can run, `core->runnable`, `interrupt_thread`, `blocked_with_timeout`, the gate and registers of each thread, `loaded_map` | yield, wait, wake, timer tick, interrupt, create thread, change of map | every thread enters through `svc`, devices through IRQ | no thread is lost or runs twice, a timeout ends after its ticks, a wake is never lost, the running thread sees its own map |
| Locks (`include/isambard_client.h`, `include/exclusive.h`, `svc_handling.h`) | a 64 bit word per lock: the owner and the first waiter; rings of waiters | claim, release, each a fast path at EL0 and a system call | interrupts between any two EL0 instructions | mutual exclusion, no lost waiter, first come first served |
| Interface table, call and return (`secure_el1.c`, `svc_handling.h`) | table with free list; a six-element call stack per thread | create, duplicate, call, return, exception | every call between maps | a map reaches only what was given to it; a return ends where the call came from |
| Virtual memory of maps (`secure_el1.c`, `kernel_translation_tables.c`, `drivers/system.c`) | virtual memory blocks per map, three translation tables per core | fault, map, unmap, load map | the MMU | a translation that is present is the one the blocks of the loaded map give |
| System driver (`drivers/system.c`) | services, interrupt handlers, memory blocks | register, look up, allocate, map | the idle and interrupt threads of each core | handlers are called for their interrupts; the idle thread never blocks |
| Physical memory allocator (`drivers/physical_memory_allocator.c`) | lists of free chunks, in the free memory itself | free area, allocate | called by the system driver only | no page handed out twice, nothing outside the given area |
| GPU mailbox (`drivers/pi3gpu/mailbox*.c`) | channel, blocking message, table of outstanding requests | tag request, queue message, interrupt, pump | the GPU, interrupts, gates, locks | every request is answered, to the thread that made it, and not before the GPU is done |
| SD card (`drivers/pi3gpu/sd.c`) | command and data thread, pending application command, last response, clock | identification, command, interrupt, read pages | the card, EMMC interrupts, gates, the lock of the device | each thread looks at the answer to its own command; each wait is ended by its own event |
| Partner threads and worlds (`svc_handling.h`, `el3_virtual_machines.c`, `include/vm_state.h`, `include/aarch64_c_vector_table.h`) | the partner of a thread, the registers and system registers of each world | make partner, switch to partner, change of the world, change of a system register, traps and interrupts in EL2 | EL2, EL3, every change of threads | exactly one of two partners can run; the guest's state survives whatever happens in between |
| RISC OS in a virtual machine (`drivers/riscos.c`) | emulated SD controller and interrupt controller, virtual interrupt, three locks | the loop around the guest, trap handling, the card's thread, the tick | partner threads, gates | the handler is told of this trap; a tick or a command is not lost |
| ARM11 virtual machine (`drivers/arm11vm.c`) | | | not built, and behind the present interfaces | |
| Start (`boot.c`, `el3.c`, `kernel_translation_tables.c`, `el3_virtual_machines.c`, `secure_el1.c`) | what the cores said at the roll call, `first_free_page`, the kernel's third level table | roll call, making the tables, core 0 up to its idle thread | all cores, without exclusive accesses; the allocator | one core makes the tables, after all have answered; the kernel's memory is not given away |
| Tools, headers, display, tests | none that matters here | | | |

Hard behaviours: interrupts between any two instructions at EL0; an intrusive list kept in
registers of blocked threads; wakes counted before the wait; interrupt handlers that race with the
threads they serve; several answers in one interrupt; full tables and mailboxes; timeouts that race
with wakes; answers and data of a card in either order; a guest that is left for two reasons at
once; cores that start at their own speed without exclusive accesses.  `PROJECT.json` lists them one by one under `hazards`, with the source line.

## Modules

| Module | What it is |
|---|---|
| `Rings` | the doubly linked rings of `doubly_linked_lists.h`: insert, remove, which threads a ring holds |
| `Kernel` | one core of the kernel: ring, gates, timeout queue, interrupt thread, maps |
| `Gates` | what the gates promise: an abstract specification without any list |
| `Locks` | locks on one core, instruction by instruction at EL0 and handler by handler in the kernel |
| `LockService` | what locks promise: a holder and a queue for each |
| `Calls` | the interface table, CALL, RETURN and the system calls that make interfaces, on one core |
| `Capabilities` | what calls promise: stacks of activations and a set of grants, without table or stack pointer |
| `Mailbox` | the GPU mailbox driver with its clients, its pump thread and the GPU |
| `PhysicalMemory` | the physical memory allocator with the headers it keeps in free memory |
| `Translation` | virtual memory blocks, `map_at` and `unmap`, faults, the tables of a core and the TLB |
| `Sd` | the SD card driver with its clients and the card |
| `Partners` | partner threads, the two worlds and EL2: the state of that layer and what each operation does to it |
| `RiscOS` | the threads of the RISC OS driver and a guest, on top of `Partners` |
| `Boot` | the start of the machine, from reset to the idle thread; it goes on as `PhysicalMemory` |
| `MCLocks`, `MCCalls`, `MCTranslation`, `MCBoot` | symmetry sets and values for TLC; the other modules are checked as they are |
| `RingProofs` | lemmas about rings: what insertion and removal do to the set of threads in a ring |
| `KernelProofs`, `LockProofs`, `CallProofs` | the proofs for `Kernel` (with `Gates`), `Locks` (with `LockService`) and `Calls` (with `Capabilities`) |
| `MemoryProofs` | the proofs about memory: `Boot`, `Translation` and `PhysicalMemory` |
| `SdProofs`, `MailboxProofs`, `RiscOSProofs` | the proofs for `Sd`, `Mailbox` and `RiscOS` (with `Partners`) |

**Kernel.**  Handlers run with interrupts masked, so one action is one handler: `Yield`,
`WaitOpen`, `WaitForever`, `WakeWaiting`, `WakeOther`, `WakeForeign`, `IRQ`, `SetInterruptThread`,
`CreateThread`.  The two loops over the timeout queue (`WaitTimed`, then `InsertWalk` and
`InsertHere`; `TimerTick`, then `ExpireHead`) take one step per round, and `op` keeps everything
else out until they end.  The queue is the real one: `x17` the next entry, `x16` the address of
the pointer to this entry, `x1` the ticks after the previous entry.  Registers of a thread that
runs are `Garbage` to the kernel.  `left` and `pos` are history variables: the ticks a sleeper has
still to wait and its place in the queue.  `GoTo` stands for CALL and RETURN, as far as they
change the map of a thread.  `Gates` is implemented under the mapping in `GateView`: the abstract
`Tick` wakes all whose time is up at once, where the loop wakes them one after the other.  `Gates`
is the comment of `handle_svc_gate` but for one sentence: see "Where the code does not keep its
comments".

**Locks.**  `ClaimLoad`, `ClaimStore`, `ReleaseLoad` and `ReleaseStore` are the `ldxr` and `stxr`
instructions; `monitor` is the exclusive monitor, cleared by `Interrupt` and `InterruptWakes`
between any two of them.  `WaitBlock`, `WaitNoNeed` and `SvcRelease` are the handlers, with
`BSOD`, guarded by `WaitStops` and `ReleaseStops`, for their blue screens.  With `SpuriousFailure` a `stxr` may fail
for no reason, which the architecture allows; the kernel's own store may fail then too, and the
second round of its loop ends at `BSOD( 4 )`.  The kernel's rings and the fast path are checked
against `LockService`.  `LockService` also fixes the order of the waiters.

**Calls.**  One action is one system call: `Call`, `Return`, `InterfaceToReturn`,
`DuplicateToReturn`, `InterfaceToPass`, `DuplicateToPass`, `CreateThread`; `Switch` is any entry to
the kernel that ends in another thread (which one is the business of `Kernel`), and `BSOD` is any
of them that stops.  A map is the index of its interface, as in the code; `user`, `provider` and
`handler` are the fields of an entry, with the object folded into the handler.  `table`, `next` and
`kernel_free_interface` are the real free list, and the last entry is never had, as in
`obtain_interface`.  EL0 is any code that uses the interfaces it was given: `known` is what a map
has in its variables, `offer` what a thread has made and will hand over in a register with its next
call or return.  The idle thread only yields, once the drivers run.  `Capabilities` is implemented
under the mapping in `Activations` (each element of a stack with its map is an `Activation`) and
`Granted`.

**Translation.**  `TableWalk` and `Fault` are what an access of a driver can cause: the MMU finds
the page, or `find_and_map_memory` enters it at the level its alignment allows.  A change of map on
any path (`Switch`, `CallMapAt`, `CallUnmap`, `Return`) empties the tables.  In the system driver
`ReadHeap`, `MapAt`, `Unmap`, `WriteHeap` and `ReleaseLock` are the steps between which other
threads run; `vmbs` is the buffer they share, with whatever the last call left in it, and the part
of a new list that boot does not write holds `Junk`.  `WriteHeap` drops the translations of the
caller's ASID.  `mapped` is a history variable: the blocks each map was given.  The tables hold one
second level and one third level table for the whole map, as `Core` does; `LayoutAssumption` states
what the drivers of the repository keep to and the comments in `find_and_map_memory` demand: blocks
have pages and memory, within the tables' reach; a map has fewer blocks than its list has places,
and boot gives it two that do not overlap; what needs a third level table is within the reach of
one, and what needs a second level table within one of those.  Two
guards do the same: a driver makes these calls from one thread at a time, and unmaps only its last
block.

**Mailbox.**  A message is the address of a buffer, and the client that owns the buffer stands for
it.  The interrupt handler is one action, since it runs with interrupts masked; in all other code
any thread that is not blocked may take the next step.  That is more than one core's scheduler
does, and all that several cores could do.  The GPU is external: it takes requests from one
mailbox and puts answers into the other in any order.  Only channel 8 exists, as in the driver.

**PhysicalMemory.**  Addresses are page numbers, orders are `log2size - 12`.  Every round of every
loop is an action, and chunk headers live in `header`, indexed by page, so that an overlap of
chunks does to the lists what it does in memory.  `allocate_memory` passes on any size, 0 included.
A request for no pages hands out nothing and splits the chunk it finds; the last piece, of one page,
is linked in, but the loop has ended before it writes the piece's `log2size`.  `SplitOff` leaves any
order there, and the history variable `unsized` names the piece.

**Sd.**  `Program` is the sequence of commands the driver sends, with what it expects after each.
`SendCommand` writes `CMDTM`, `CommandReturns` and `DataReturns` are the two waits, `Identify` the
checks between commands, `Read` what `read_4k_pages` sets up.  `Interrupt` is `emmc_interrupt`,
which runs in the interrupt thread with interrupts masked and is one step; after CMD55 it sends the
application command itself.  `CardAnswers`, `BlockArrives`, `TransferEnds` and `CardFails` are the
card and the controller, which are external: answers carry the number of the command, the card's
state and the bits the driver tests.  A `brk` of the driver ends the behaviour with its reason in
`brk`, so there is no deadlock check in this run.

**Partners and RiscOS.**  EL3 and secure EL1 run with interrupts masked and are part of the step
that enters them.  EL2 is not: `TrapToEL2` is the trap, `StoreTrap` what the vector stores into the
registers of the guest's partner, `SwitchToSecure` its `smc`, and interrupts come between them.
`Exchanged` is the edit of the ring by hand in SWITCH_TO_PARTNER.  A change of thread goes through
`Run`, which decides as the vectors do whether the world has to change.  The system registers are
one register of the guest and the bits of `HCR_EL2`, among them one beyond 32 bits.  The guest may
compute, trap for every reason the handler tells apart, and be interrupted; it waits for
`CMD_INHIBIT` before it sends a command to its card, and does not write to the card's STATUS.
Registers of devices that only store what is written return any value.  Values that nobody reads
again are reset, to keep the number of states small: `cpu` outside the guest, `next_pc` while the
guest runs, `elr_el2` and `trap` once they are used.  The lists of threads blocked on a lock are
queues here (`Locks` has the rings), a timeout ends at any time, and the first sleep of
`ticker_thread` is the same step as those of its loop.  `svc 8` and `svc 9` in
`update_virtual_irq`, which the kernel does not know, stop the machine, and so do the `brk`
instructions of the handler; `stopped` tells them apart.  After a WFI the driver waits for a wake
that nothing in the repository gives, and the model stays there.

**Boot.**  The MMU is off, so a core's accesses happen in program order, and each access to a
variable that other cores change is a step: `LookForStart`, `WaitForEvent` and `SendEvent` with the
event register of each core, `roll_call`, and the loop of `c_el3_nommu` (`Loop`, `Scan`,
`ReadPresent`, `RereadPresent`, `Decide`).  The loop names `present[i]` twice, and as the array is
not volatile the compiler may load it once or twice: `loads` says which, for a whole machine, and
with two the second load, `RereadPresent`, is a step of its own.  The array of the roll call lies on the page that `first_free_page` will
name: once it holds something else, a read returns anything.  `Build` and `Publish` make the
tables; `ClearCore` is the last thing that cores other than core 0 do.  Core 0 goes on through
`EnterSecureEL1`, `MapInitialStorage` and `IdleThread`, which is the `Initialise` of
`PhysicalMemory`.  Sizes are in pages; drivers are pages of the image.

## Runs

| Run | Instance | Shows |
|---|---|---|
| `kernel` | idle, interrupt thread, a driver started at boot and one created later; two maps; timeouts 0, 1 and 2 | `NoThreadLost`, `RightMapLoaded`, `QueueOK`, `Kernel` implements `Gates`, and `SleepEnds`: a timed wait ends, whatever other threads do |
| `locks_safe` | four drivers, two locks, spurious failures | `MutualExclusion`, `ListsOK`, and `Locks` implements `LockService` |
| `locks_live` | three drivers, one lock, no spurious failures | `NeverStops` and `BlockedGetsLock` |
| `calls_safe` | idle thread, two drivers of one thread each, one thread to be created; six entries left in the table; stacks of five | `HandlesUsable`, `LoadedIsCurrent`, and `Calls` implements `Capabilities` |
| `translation_safe` | two drivers, one of them with two threads; blocks of one page (two at the same address), of second level and of first level size; tables of four entries | `ListsRight`, `NoStale`, `FaultsRepaired` |
| `mailbox_two` | two clients, three slots, mailboxes of one message | `BufferIsMine`, `NoAnswerLost`, `OnlyOverrun`, `Delivered` |
| `mailbox_stuck` | two clients, mailboxes of two messages | `Answered` fails |
| `boot` | machines with one, two and four cores and images of several sizes, one of them with two loads of `present[i]`; 15 pages, two tops, allocations of no, one and three pages | `RollCallOver`, `CoresCounted`, `KernelApart`, `Booted`; then in the allocator `FreshHeap`, `InsideGiven` |
| `sd_card` | the initialising thread, two clients, four clock rates | `AnswerIsMine`, `DataIsThere`, `AlwaysSomeoneToWake`, `OneAtATime`, `WaitsEnd` |
| `guest` | six threads, every kind of trap, two values | `RingRight`, `WorldRight`, `HandlerSeesTrap`, `TrapsKept`, `GuestStateKept`, `NoTickLost` |
| `guest_live` | the same threads, a guest that uses its card, acknowledges and waits | `CommandEnds`, `TickRaised` |
| `memory_twice` | ten pages from page 6, sizes up to 5 | `NotTwice` fails |

Where a module has no run of its own for `TypeOK`, the types are a conjunct of the property that
depends on them most (`NoStale`, `OnlyOverrun`, `AnswerIsMine`, `RingRight`); those of `Kernel` and
`Locks` are proved.

**Bounds.**  Two sleepers and timeouts of one and two ticks give a queue whose head is woken, times
out and is overtaken, and two equal timeouts give a difference of zero; an entry with neighbours on
both sides, as every other size, is covered by the proof of `QueueOK`.  Three drivers
on one lock give a ring of two waiters; the fourth gives a waiter that joins behind others while
the lock changes hands, and the second lock a driver that blocks while it holds one.  `GateMax` of
1 lets the counter reach its limit.  In the mailbox, `Depth` 1 makes the mailbox full, and two
clients make answers overtake each other; `Slots` is one more than the clients (the ring buffer
keeps one slot empty).  In `boot`, four cores are what the hardware has, one of them the watchdog;
with two the second core is the only straggler, and two are enough for a core to miss its
predecessor in one load of `present[i]` and see it in the next.  `Settled` keeps the allocator back until the other
cores have come to rest: what they still do touches nothing of the allocator's, and the two state
spaces would multiply.  15 pages hold a chunk of the largest order and every misalignment of both its ends.  After a request for no pages that
left a chunk without a size nothing more is asked for (`unsized = 0` in `Allocate`), since the search
would go by what the page happened to hold.  In `calls_safe`
the chain driver, other driver, system driver, memory allocator needs a stack of five, one less
than the code's six, and both the stack and the table run out; the `VIEW` leaves out stack elements
below the stack pointer, which nothing reads.  In `translation_safe` a block of each size is used,
one page is taken away and replaced at its address, and both threads of one driver run between the
steps of the other's call; tables of 512 entries differ only in size.  In `sd_card` the rates are a request that fails, one that the divider does not divide evenly, one
that it does, and one too fast for its ten bits; two clients are the least that meet at the
lock.  `guest_live` leaves out the traps that stop the machine or only return a value.  `WordMax`
(2^64 - 1 in the code) is 15: no difference ever wraps, which `QueueOK` shows.

**Fairness.**  Kernel: the loops of handlers end, the timer interrupts again and again, interrupt
handlers return and the tick is not passed by for ever; nothing is assumed of threads, which may
keep the core.  Locks: a thread that has the core again and again goes on, not every `ldxr`/`stxr`
pair is interrupted, drivers leave their critical sections, and what sleeping threads wait for
happens; claiming is not assumed.  Mailbox: threads and the pump are scheduled, a lock that is free
again and again is got (that is `BlockedGetsLock`), the GPU answers, asserted interrupts are
served; no client has to make a further request.  SD card: threads are scheduled, a card that was
asked answers or fails, and an interrupt that is pending and enabled is served.  Guest: the timer's
interrupt keeps coming, but a thread that has the core again and again gets to its next
instruction (strong fairness, since each interrupt disables the step for a while), and a sleep that
has begun ends; nothing is assumed of the guest.  Start: a core executes its instructions, but for
as long as `wfe` makes it wait.

**What the violations say.**  `mailbox_stuck`: two answers before the pump has run leave the second
in `blocking_message` with the mailbox empty, and the interrupt that the pump enables again never
comes.  `Delivered` shows that this is the only place where an answer can stay.  `memory_twice`: the pieces of a split remainder are placed
relative to the first one, not to the last.

**Where the code does not keep its comments.**  Besides the two violations:
- `svc_handling.h:36` says that `wake_thread` returns the previous value of the gate.  Nothing
  writes the waker's register, and `wake_thread` of `drivers.h` is a `void` function.  `Gates` has
  the rest of that comment; of the waker's register it says what the code leaves there, the
  waker's own value (`Own`), so `GatesImplemented` refutes this sentence rather than passes it by.
- `mailbox_properties.c:108` allows multiple threads.  With three clients the branch of the
  interrupt handler commented "How?" is reached: the third `queue_message` enables the interrupt while
  both places for an answer are occupied, and the `brk` at `mailbox.c:59` stops the machine.
  `OnlyOverrun` says that this is the only `brk` the driver meets, and that it takes the answers of
  three different clients.  `sd.c:806` has code, switched off at present, that
  makes requests from three threads.
- `physical_memory_allocator.c:10` says that the driver never touches memory outside the range it is
  given.  A request for no pages leaves a chunk without a size in the list, and the driver takes for
  its size what was in that page.  `InsideGiven` holds for all pages of all other chunks, for the first
  page of that one too, and for all that is handed out; a request of any other size leaves no such
  chunk.
- `el3.c:82` says that one core, the lowest normal one, fills in `first_free_page`.  That is so if the
  compiler loads `present[i]` once for lines 91 and 92, as gcc does with the `-Os` of `build.sh` (seen
  with gcc 12.2).  `present` is not volatile, so two loads are as good a translation.  Then core 1
  may find core 0 `WAITING` on line 91, and `NORMAL` on line 92; both make the tables, and the second
  to publish may put `first_free_page` back when `map_initial_storage` has taken pages there, which
  are then given to the allocator.  `RollCallOver` says what remains true: the array is not
  written again.  That one core makes the tables, and all that `CoresCounted` and `KernelApart` say of
  the result, has the premise `loads = 1`.
- `isambard_client.h:279` declares 64 bit values.  The kernel makes the new value of a virtual
  machine's register in a `uint32_t` (`svc_handling.h:640`), so bits 34 to 36 of the `HCR_EL2` that
  `riscos.c:1402` asks for are lost in the call.  `Changed` has it; `TrapsKept` is about what
  becomes of the bits that were written.

**Limits of what passes.**  `mailbox_two` has two clients: three have more than seven million states
with these mailboxes, and what they add, the `brk` above, is covered by the proof of `OnlyOverrun` for any number.
`locks_live` has no spurious failures: with them the second round of the kernel's loop stops at
`BSOD( 4 )`, and `NeverStops` is not claimed.  `WaitsEnd` excepts a thread whose first wait
took the wakes of both events, and `Delivered` an answer kept in `blocking_message`: these are
waits that the code does not end.  `CommandEnds` and `TickRaised` except a machine that has stopped,
which a guest that enables interrupt 62 brings about (`svc 8`), and `TickRaised` a guest in WFI.

## Proofs

`KernelProofs` proves `Spec => []IInv`, and from it `TypeOK`, `NoThreadLost`, `RightMapLoaded`,
`QueueOK` and `InterruptReady`.  None of these is inductive.  `IInv` adds
- `BootInv`: how far boot has come fixes who exists and whether there is an interrupt thread;
- `RingInv`: all links are mutual, the threads that can run are one ring, and everybody else is
  alone, so that an insertion meets a self-linked thread, as the code assumes;
- `MapInv`: the map that is loaded, also inside a loop where `runnable` has moved on already;
- `LoopInv`: what the locals of the two loops may be;
- `QueueInv`: `pos` numbers the queue without gaps, `x16` and `x17` agree with it, and `x1` is the
  difference of two neighbours' `left`.  The positions turn a statement about reachability in a
  list, which would need induction, into one about neighbours.

There is one lemma per action and per part.  `RingProofs` gives what the proofs about rings need: rings are
the smallest closed sets around a thread (`RingOf`), and `InsertAfter`, `InsertBefore` and `Remove`
change the ring of one thread and leave the others.

`LockProofs` proves `Spec => []LockInv`, with `LockInv` made of `OwnerInv` (who is inside a lock is
named in its word), `MonitorInv` (a thread whose monitor is set has read what is still there),
`LinkInv` (the waiters of a lock are the ring of the first) and `IdleInv` (the idle thread never
claims a lock, so somebody can always run).  From it follow `MutualExclusion` and `ListsOK`, and
without spurious failures `NeverStops`.

`LockProofs` also proves the refinement `LocksImplemented`, for any finite set of threads
(`QueueOf` counts them).  `ListsOK` says who is in the ring of a lock and nothing of the order, so two
more invariants are carried along.  `LinesInv`: the threads blocked on a lock are a line, numbered
from the first on, each once, each linked to the next and the last to the first.  `ClaimInv`: a
thread does not claim a lock that it has, without which it could join its own line.
`insert_thread_at_tail` appends to the line (`LineJoined`), `remove_thread` of the first leaves its
tail (`LineLeft`), and every other step changes links outside the line only (`LineFrame`).  What the
recursion in `QueueOf` computes is the line (`LineIsWalk`).  So the steps that take, join, free and
hand over are `Take`, `Join` and `Give`, and all others are stutters.

`CallProofs` proves `Spec => []CallInv`, and from it `TypeOK` (no chain of calls leaves its stack),
`HandlesUsable` and `LoadedIsCurrent`.  `CallInv` adds `PoolInv` (the entries from the head of the
free list on are exactly the free ones, so a new interface overwrites none in use), `OfferInv`
(what a thread is about to hand over belongs to the map that will get it, also while other threads
make interfaces) and `StackInv` (`thread_exit` is at the bottom of each stack and nowhere else, so
a thread that runs has a caller).  One lemma covers what the four ways to make an interface share.

`MemoryProofs` proves `BootSpec => []BootInv`, and from it `RollCallOver` and `CoresCounted`, for any
number of cores and any watchdog other than core 0, with one load of `present[i]` and with two.
`RollCallOver` alone is not inductive, since it says nothing of what a core remembers.  `BootInv` adds
that nobody passes core 0 before it has prepared the array (`Called`), that the array says where the
cores are (`Answers`), that what a core remembers of it is still so until `first_free_page` is
published (`Seen`: a core that has answered does not take it back, so "all are present" can be relied
on however often the entry is loaded), that a core between two loads is on a machine that has two
(`Second`), that a core that makes the tables found everybody there and, with one load, is the
lowest of those that take part (`Maker`), and that the set of cores is complete before anybody uses it
(`Bits`).  With two loads `Seen` cannot say that a core which thinks itself the lowest is the lowest,
and a late maker may read the page of the array when it has become something else (`MakerLate` is
where one load rules this out).  Reads of the reused page come after the publication, where `Seen`
claims nothing.

It also proves `KernelApart`, from `LayoutInv`: what `Build` has entered (`TablesMade`), and, with one
load, what `MapInitialStorage` adds behind it (`StorageMapped`) and that all that is given to the
allocator lies above `first_free_page` (`GivenAbove`).  The theorem has a hypothesis, `TablesFit`:
the third level table has an entry for each page the kernel needs.  Without it core 0 stops, as the
code does.

`KernelProofs` proves the refinement `GatesImplemented`.  `TimerTick` is the abstract
`Tick`, and the rounds of the loop after it are stutters: the mapping counts as woken those whose time
is up and whom the loop has not reached yet (`Expiring`), and `QueueInv` says that the loop ends with
just them.  `CallProofs` proves
`CallsImplemented`: the part of a stack from its
pointer on is the sequence of activations, a call appends one and a return takes the last away, and
`PoolInv` makes a new interface a new grant.

`SdProofs` proves `Spec => []SdInv`, and from it `AnswerIsMine`, `DataIsThere`,
`AlwaysSomeoneToWake` and the action property `OneAtATime`, for any set of clients and clock rates.
The properties speak of a thread after its wait, and a wait ends with any wake.  So the invariant
counts: between commands nothing is under way or pending and no wake is saved up (`QuietInv`), and
during one the thread's gate is the number of events the handler has seen of this command less those
its waits have used up (`WakesInv`).  `CommandInv` and `DataInv` say how far the command and its data
are, `PlaceInv` that only the thread with `emmc_lock`, or the one that initialises, is in between.

`MailboxProofs` proves `Spec => []MailInv`, and from it `BufferIsMine`, for any number of clients and
slots.  `OnePlace` says that a buffer is in at most one of the places where it can be, `FlightInv` that it
is in none until its client has sent it, and that the client's gate tells whether it has come back,
and `GateInv` that no wake is left over from before.  `NoAnswerLost` needs `TableInv` besides: the
entries of the table, but for one the pump is about to give up, are the requests without an answer,
each once, and who goes on to make an entry has room for it.  It rests on `EnoughSlots`, fewer clients than slots (the code has
64): a table that is full has no entry for the next request.  `OnlyOverrun` follows from the same invariant: a client has one request at a
time and a buffer is in one place, so the three answers that meet at the `brk` are of three clients,
and `incoming_message` finds the entry of every answer.  None of the theorems bounds the number of clients.

Of `Translation`, `MemoryProofs` proves `Spec => [](ListsInv /\ TablesInv)`, and from it `ListsRight`, `NoStale`
and the action property `FaultsRepaired`, for any drivers, threads, blocks and table sizes that
`LayoutAssumption` allows.  `ListsRight` alone says nothing of the buffer `vmbs`, which all drivers
share.  `ListsInv` adds who may be in it (`CallInv`: the thread between `ReadHeap` and the release
has `map_lock`), what it holds at each step of a call (`ArgInv`), and that the blocks of a map do not
overlap (`BlocksInv`), so that `find_vmb` and `unmap` find the one block meant.  `Lists(f, n, S)`
gives the length of a list, in place of a recursion over it.  `TablesInv` says of every
entry of the three tables for which page it was made: a link only where a block needs it, so that
`LayoutAssumption` leaves one page number for each path through the tables (`WalkIsRight`), and a
block entry is right for every page it translates (`PieceIsRight`, with the arithmetic of aligned
addresses proved for any table size).  A list changes only while the system map is loaded, and
loading another map empties the tables.

Of `PhysicalMemory`, `MemoryProofs` proves `InsideGiven` and `FreshHeap` along the whole start
(`BootSpec`), for any amount of memory, any sizes and any number of calls.  `InsideInv` says that no
header, stale ones included, stands for pages outside the memory given beyond its own or leads out of
it, and where the driver's variables are in each of its loops (`phase`): in the split, the
pieces still to be made lie between the chunk and the end of its remainder.  That is why the
driver stays inside even when `memory_twice` has made chunks overlap.  The piece that a request for no
pages leaves without a size is a page inside, of which nothing else is claimed; until it is linked
in, the pieces are the same as those of any other request.  `FreshInv` holds until
something is handed out.  It follows the first call: the list of freed chunks falls from where
carving has come to down to the base (`Falling`), releasing moves chunks from its head to the other list, which
rises from there to the end (`Rising`), and at the end the second list is the whole memory.  A
second call before any allocation carves the same memory again; `Again` shows that it cannot come
to an end, since its last chunk is still the first available one and the driver stops in its double
free exception.  `Chain` is a recursive function; `ChainSteps` shows that it exists and what one round
yields, `ChainInside` that a list stays in a set its links do not leave, and `ChainCovers` that it comes
everywhere.

`RiscOSProofs` proves `Spec => []Inv` for any set of traps the guest uses, and from it `RingRight`,
`WorldRight`, `HandlerSeesTrap` and the action properties `TrapsKept`, `GuestStateKept` and
`NoTickLost`.  None of them is inductive.  `PcInv` says who exists when, `LockInv` that the owner
and the one waiter of a lock are just the threads between its claim and its release, `RingInv` that
the runnable threads are one ring with everybody else alone, `GateInv` that a wake is saved up for the
card's thread only while a command is under way, `WorldInv` where the guest's registers are and what
they can be, and `TrapInv` what is known of a trap from the moment EL2 has it until `vm_handler` is done
with it.  `RingRight` needs `LockInv` and `GateInv`, since who can run depends on locks and gates;
`HandlerSeesTrap` needs `TrapInv` from before the switch, when EL2 has stored one half of a trap and is
interrupted; `NoTickLost` needs that the guest cannot acknowledge an interrupt it was not shown.

The provers cannot instantiate the library's induction theorems, which take an operator.  Where
induction over numbers is needed, it is over a *set* of numbers (`NumbersInduction`, from
the well-foundedness of `<`): the numbers for which the claim holds contain 0 and the successor of
each of them.

Assumptions: those named in `Kernel`, `Locks`, `Calls`, `PhysicalMemory`, `Boot`, `Sd`,
`Mailbox`, `Translation` and `RiscOS` about the constants (special threads differ, addresses are not thread
codes, timeouts fit a register, a stack has three elements or more and the table room for one
interface beyond those of boot, the layout described above, and in `RiscOS` the six threads of the
driver), and the hypotheses `TablesFit`, `EnoughSlots` and finitely many threads where a
theorem names them.  Nothing else is assumed.  (`loads = 1` is a premise inside `RollCallOver`,
`CoresCounted` and `KernelApart`, not an assumption about the constants.)

Only model-checked: the liveness properties `SleepEnds`, `BlockedGetsLock`, `Delivered`, `Booted`,
`WaitsEnd`, `CommandEnds` and `TickRaised`, since liveness under fairness is outside this prover's
reach; and the two violations, which are behaviours and not theorems.

## Not modelled

- Several cores after the start.  `el3.c` stops all but core 0, and the handlers of locks say in
  FIXMEs that they are right for one core only.
- `arm11vm.c`: `build.sh` does not build it and it does not agree with the present interfaces.
- In `riscos.c`: loading and checking the ROM, the tables of stage 2, the frame buffer,
  `noisy_ticker_thread`, the contents of emulated registers and of tag answers.
- In `sd.c`: the switch to 1.8V, which the code cannot reach.
- Services and interrupt handlers of the system driver: two arrays, filled while drivers start.
  Its FIXME says that they need a limit and a lock.
- The race of several cores that make the kernel's tables, if `present[i]` is loaded twice: `Build` is
  one step.
- GPIO, frame buffer, DMA, displays, the interface compiler and the unit tests.
- `remove_thread` follows `entry->list` to fix a list head; rings on a core have no owner (the
  first thread is put there without one), so the pointer is null and the read has no effect.
- Deadlock of drivers.  Those of `Locks` claim locks in one order, as the repository's do; two that
  claim two locks in opposite orders wait for each other, and the kernel promises nothing else.
- Forged interface indices.  A driver could name an index it was not given; the kernel's check of
  `user` is modelled, the range check of `interface_from_index` is not.
- `free_interface`, which nothing calls.
- Access rights, memory types and `physical_address_of`; the static tables of the system map.
- `unmap` of a block that is not the last (the blocks behind the next one are lost from the list),
  and lists of twelve blocks (`map_at` drops the thirteenth, `find_vmb` has no end to find, and
  `unmap` does not remove the twelfth).  No driver of the repository gets there.
- Timing: the QEMU build sets the first entry to one tick; the model is the build for hardware.
- Register widths in the allocator: `1u << log2size` for chunks of 4 GB and more.
- `set_memory_top` after boot frees from the same base again, and the allocator then stops with
  its double free exception or lists memory in use; the model does the same, and no property is
  claimed of what follows.

## Plan

1. Composition of `Kernel` and `Locks`: an interrupt handler that blocks on a lock.
2. The services of the system driver, with drivers that register and look up while they start.
