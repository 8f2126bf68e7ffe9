-------------------------------- MODULE Boot --------------------------------
(***************************************************************************)
(* How the machine starts: every core enters c_el3_nommu (el3.c) at EL3,   *)
(* core 0 calls the roll, the lowest core that is there for Isambard makes *)
(* the kernel's translation tables and publishes first_free_page, and core *)
(* 0 goes on through EL3 and secure EL1 to the idle thread, which gives    *)
(* the rest of memory to the allocator (module PhysicalMemory).  The other *)
(* cores stop after clearing their Core structure.                         *)
(*                                                                         *)
(* The MMU is off during the roll call: there are no exclusive accesses,   *)
(* and memory accesses of a core happen in program order.  The cores read  *)
(* and write variables that others change; each such access is a step.     *)
(* The array `present` lies on the page that first_free_page will name.    *)
(*                                                                         *)
(* The loop names present[i] twice (el3.c:91 and 92) and the array is not  *)
(* volatile: whether that is one load or two is up to the compiler, and so *)
(* the machine has one or the other.  With two, a core that misses its     *)
(* predecessor in the first may see it in the second, and more than one    *)
(* core makes the tables.  What several makers leave behind is not claimed *)
(* to be right: RollCallOver says what there is to say of two loads.       *)
(*                                                                         *)
(* Sizes and addresses are in pages.  The image lies at page 0: code,      *)
(* writable data, drivers, and behind it one Core structure per core.      *)
(***************************************************************************)
EXTENDS PhysicalMemory

CONSTANTS MaxCores,        \* 4: L2CTLR has two bits for the number of cores
          Machine,         \* a number of cores, the pages of the drivers in the image, `loads`
          Watchdog,        \* the core that goes its own way, 3 in the code
          RoPages, RwPages,\* the kernel's code and its writable data
          CorePages,       \* CORE_SIZE
          InterfacePages,  \* total_number_of_interfaces_needed
          HeapPages,       \* total_heap_space_needed
          TablePages       \* entries of kernel_tt_l3, 512 in the code

ASSUME BootAssumption ==
    /\ MaxCores \in Nat /\ Machine \subseteq (1 .. MaxCores) \X Nat \X {1, 2}
    /\ Watchdog \in Nat \ {0}
    /\ RoPages \in Nat \ {0} /\ RwPages \in Nat \ {0}
    /\ CorePages \in Nat \ {0}
    /\ InterfacePages \in Nat \ {0} /\ HeapPages \in Nat \ {0}
    /\ TablePages \in Nat

VARIABLES
    hardware,              \* the number of cores of this machine
    drivers,               \* the pages of the drivers in its image
    loads,                 \* how often the code of its kernel loads present[i]
    number_of_cores,
    present,               \* what each core said at the roll call
    start_roll_call,
    event,                 \* the event register of each core
    present_bits,
    first_free_page,       \* 0 until somebody publishes it
    kernel_tt_l3,          \* the pages mapped for the kernel; empty: kernel_tt_l2[0] is 0
    standard_isambard_cores,
    at,                    \* where each core is
    i, lowest_normal, all_present  \* its locals in the loop of c_el3_nommu

sharedVars == <<number_of_cores, present, start_roll_call, event, present_bits,
                first_free_page, kernel_tt_l3, standard_isambard_cores>>
loopVars == <<i, lowest_normal, all_present>>
bootVars == <<hardware, drivers, loads, sharedVars, at, loopVars>>

CoreType == {"WAITING", "NORMAL", "SPECIAL"}
Core == 0 .. hardware - 1

writable_area_end == RoPages + RwPages            \* at_rw_end
Core0 == writable_area_end + drivers              \* initial_first_free_page
PresentPage == Core0 + number_of_cores * CorePages

(* Memory and event registers hold anything after a reset. *)
BootInit ==
    /\ MemoryInit
    /\ \E machine \in Machine :
           hardware = machine[1] /\ drivers = machine[2] /\ loads = machine[3]
    /\ number_of_cores = 0
    /\ \E junk \in CoreType : present = [n \in Core |-> junk]
    /\ start_roll_call = FALSE
    /\ \E e \in BOOLEAN : event = [n \in Core |-> e]
    /\ present_bits = {}
    /\ first_free_page = 0
    /\ kernel_tt_l3 = <<>>
    /\ standard_isambard_cores = {}
    /\ at = [n \in Core |-> IF n = 0 THEN "count" ELSE "look"]
    /\ i = [n \in Core |-> 0]
    /\ lowest_normal = [n \in Core |-> TRUE]
    /\ all_present = [n \in Core |-> TRUE]

Goto(n, from, to) == at[n] = from /\ at' = [at EXCEPT ![n] = to]

-----------------------------------------------------------------------------
(* The roll call.  Core 0 counts the cores and clears the array... *)
CountCores ==
    /\ Goto(0, "count", "start")
    /\ number_of_cores' = hardware
    /\ present' = [n \in Core |-> "WAITING"]
    /\ UNCHANGED <<hardware, drivers, loads, start_roll_call, event, present_bits,
                   first_free_page, kernel_tt_l3, standard_isambard_cores, loopVars,
                   memoryVars>>

(* ... lets the others begin, and wakes those that sleep. *)
StartRollCall ==
    /\ Goto(0, "start", "sev")
    /\ start_roll_call' = TRUE
    /\ UNCHANGED <<hardware, drivers, loads, number_of_cores, present, event,
                   present_bits, first_free_page, kernel_tt_l3,
                   standard_isambard_cores, loopVars, memoryVars>>

MutantSignalled == event

Signalled == [n \in Core |-> TRUE]

SendEvent ==
    /\ Goto(0, "sev", "roll")
    /\ event' = Signalled
    /\ UNCHANGED <<hardware, drivers, loads, number_of_cores, present,
                   start_roll_call, present_bits, first_free_page, kernel_tt_l3,
                   standard_isambard_cores, loopVars, memoryVars>>

(* The others look at start_roll_call, and sleep with wfe in between.  An  *)
(* event that was signalled before the wfe makes it return at once.        *)
LookForStart(n) ==
    /\ Goto(n, "look", IF start_roll_call THEN "roll" ELSE "wfe")
    /\ UNCHANGED <<hardware, drivers, loads, sharedVars, loopVars, memoryVars>>

WaitForEvent(n) ==
    /\ Goto(n, "wfe", "look")
    /\ event[n]
    /\ event' = [event EXCEPT ![n] = FALSE]
    /\ UNCHANGED <<hardware, drivers, loads, number_of_cores, present,
                   start_roll_call, present_bits, first_free_page, kernel_tt_l3,
                   standard_isambard_cores, loopVars, memoryVars>>

(* roll_call: the watchdog does not return. *)
roll_call(n) ==
    /\ Goto(n, "roll", IF n = Watchdog THEN "watchdog" ELSE "loop")
    /\ present' = [present EXCEPT ![n] = IF n = Watchdog THEN "SPECIAL" ELSE "NORMAL"]
    /\ UNCHANGED <<hardware, drivers, loads, number_of_cores, start_roll_call, event,
                   present_bits, first_free_page, kernel_tt_l3,
                   standard_isambard_cores, loopVars, memoryVars>>

-----------------------------------------------------------------------------
(* while (first_free_page == 0) *)
Loop(n) ==
    /\ Goto(n, "loop", IF first_free_page = 0 THEN "scan" ELSE "clear")
    /\ i' = [i EXCEPT ![n] = 0]
    /\ lowest_normal' = [lowest_normal EXCEPT ![n] = TRUE]
    /\ all_present' = [all_present EXCEPT ![n] = TRUE]
    /\ UNCHANGED <<hardware, drivers, loads, sharedVars, memoryVars>>

(* The test of the for loop, and its body.  A straggler may look at the    *)
(* array when the page has become part of the table of interfaces.         *)
Scan(n) ==
    /\ Goto(n, "scan", IF i[n] < number_of_cores /\ first_free_page = 0
                       THEN "read" ELSE "decide")
    /\ UNCHANGED <<hardware, drivers, loads, sharedVars, loopVars, memoryVars>>

ValueRead(k) == IF first_free_page > PresentPage THEN CoreType ELSE {present[k]}

(* The && of line 92 does not look at the array when all_present is false. *)
ReadPresent(n) ==
    LET last == loads = 1 \/ ~all_present[n]
    IN  /\ Goto(n, "read", IF last THEN "scan" ELSE "reread")
        /\ \E v \in ValueRead(i[n]) :
              /\ lowest_normal' = [lowest_normal EXCEPT ![n] = @ /\ ~(v = "NORMAL" /\ i[n] < n)]
              /\ all_present' = [all_present EXCEPT ![n] = @ /\ (last => v # "WAITING")]
        /\ i' = [i EXCEPT ![n] = IF last THEN @ + 1 ELSE @]
        /\ UNCHANGED <<hardware, drivers, loads, sharedVars, memoryVars>>

RereadPresent(n) ==
    /\ Goto(n, "reread", "scan")
    /\ \E v \in ValueRead(i[n]) : all_present' = [all_present EXCEPT ![n] = v # "WAITING"]
    /\ i' = [i EXCEPT ![n] = @ + 1]
    /\ UNCHANGED <<hardware, drivers, loads, sharedVars, lowest_normal, memoryVars>>

MutantIsMine(n) == all_present[n] /\ lowest_normal[n]
MutantIsMineEarly(n) == first_free_page = 0 /\ lowest_normal[n]

IsMine(n) == first_free_page = 0 /\ all_present[n] /\ lowest_normal[n]

Decide(n) ==
    /\ Goto(n, "decide", IF IsMine(n) THEN "build" ELSE "loop")
    /\ UNCHANGED <<hardware, drivers, loads, sharedVars, loopVars, memoryVars>>

(* initialise_shared_isambard_kernel_tables: the image at its own address, *)
(* and the Core structures moved down by the size of the drivers.          *)
CoresEnd(cores) == writable_area_end + cores * CorePages

SharedKernelTables ==
    IF DOMAIN kernel_tt_l3 # {} THEN kernel_tt_l3
    ELSE [v \in 0 .. CoresEnd(number_of_cores) - 1 |->
             IF v < writable_area_end THEN v ELSE Core0 + v - writable_area_end]

(* One step, as nobody else uses the bits or the table before they are     *)
(* published, if there is one maker.  If there are more, because the array *)
(* is loaded twice, they race here, and a late one may find the array gone.*)
Build(n) ==
    /\ Goto(n, "build", "publish")
    /\ \E normal \in IF first_free_page > PresentPage THEN SUBSET Core
                      ELSE {{k \in Core : present[k] = "NORMAL"}} :
          present_bits' = present_bits \union normal
    /\ kernel_tt_l3' = SharedKernelTables
    /\ UNCHANGED <<hardware, drivers, loads, number_of_cores, present,
                   start_roll_call, event, first_free_page, standard_isambard_cores,
                   loopVars, memoryVars>>

Publish(n) ==
    /\ Goto(n, "publish", "loop")
    /\ first_free_page' = PresentPage
    /\ UNCHANGED <<hardware, drivers, loads, number_of_cores, present,
                   start_roll_call, event, present_bits, kernel_tt_l3,
                   standard_isambard_cores, loopVars, memoryVars>>

(* memset of the Core structure; then all but core 0 sleep for ever. *)
ClearCore(n) ==
    /\ Goto(n, "clear", IF n = 0 THEN "el1" ELSE "parked")
    /\ UNCHANGED <<hardware, drivers, loads, sharedVars, loopVars, memoryVars>>

-----------------------------------------------------------------------------
(* el3_synchronised_initialise, el3_with_mmu and isambard_secure_el1, which *)
(* asks for the shared tables a second time.                               *)
EnterSecureEL1 ==
    /\ Goto(0, "el1", "himem")
    /\ standard_isambard_cores' = present_bits
    /\ kernel_tt_l3' = SharedKernelTables
    /\ event' = Signalled
    /\ UNCHANGED <<hardware, drivers, loads, number_of_cores, present,
                   start_roll_call, present_bits, first_free_page, loopVars,
                   memoryVars>>

(* Where switch_to_running_in_high_memory expects a page of the Core       *)
(* structures: lower by what lies between the kernel's data and the end.   *)
MovedDown(page) == page - (Core0 - writable_area_end)

(* map_initial_storage: the table of interfaces follows the Core           *)
(* structures, the heap is at the end.  assign_kernel_entry stops for ever *)
(* when an entry is in use or there is none.                               *)
InterfacesAt == [k \in 0 .. InterfacePages - 1 |-> CoresEnd(number_of_cores) + k]
HeapAt == [k \in 0 .. HeapPages - 1 |-> TablePages - HeapPages + k]

MutantAfterStorage == first_free_page + InterfacePages

AfterStorage == first_free_page + InterfacePages + HeapPages

MapInitialStorage ==
    LET new == [v \in {InterfacesAt[k] : k \in DOMAIN InterfacesAt} |->
                    first_free_page + v - InterfacesAt[0]]
        top == [v \in {HeapAt[k] : k \in DOMAIN HeapAt} |->
                    first_free_page + InterfacePages + v - HeapAt[0]]
        free == /\ DOMAIN new \intersect DOMAIN top = {}
                /\ (DOMAIN new \union DOMAIN top) \intersect DOMAIN kernel_tt_l3 = {}
                /\ DOMAIN new \union DOMAIN top \subseteq 0 .. TablePages - 1
    IN  /\ Goto(0, "himem", IF free THEN "maps" ELSE "stopped")
        /\ kernel_tt_l3' =
              [v \in DOMAIN kernel_tt_l3 \union DOMAIN new \union DOMAIN top |->
                  CASE v \in DOMAIN kernel_tt_l3 -> kernel_tt_l3[v]
                    [] v \in DOMAIN new \ DOMAIN kernel_tt_l3 -> new[v]
                    [] OTHER -> top[v]]
        /\ first_free_page' = AfterStorage
        /\ UNCHANGED <<hardware, drivers, loads, number_of_cores, present,
                       start_roll_call, event, present_bits, standard_isambard_cores,
                       loopVars, memoryVars>>

(* initialise_driver_maps tells the idle thread first_free_page, and the   *)
(* idle thread gives memory to the allocator.                              *)
IdleThread(top) ==
    /\ Goto(0, "maps", "idle")
    /\ Initialise(first_free_page, top)
    /\ event' = Signalled
    /\ UNCHANGED <<hardware, drivers, loads, number_of_cores, present,
                   start_roll_call, present_bits, first_free_page, kernel_tt_l3,
                   standard_isambard_cores, loopVars>>

(* Bound: the other cores are out of the way before the allocator works.   *)
(* What a straggler does until then touches nothing of the allocator's.    *)
Settled == \A n \in Core : at[n] \in {"idle", "parked", "watchdog"}

Allocator == Settled /\ Serve /\ UNCHANGED bootVars

CoreStep(n) ==
    \/ n # 0 /\ (LookForStart(n) \/ WaitForEvent(n))
    \/ roll_call(n)
    \/ Loop(n) \/ Scan(n) \/ ReadPresent(n) \/ RereadPresent(n) \/ Decide(n)
    \/ Build(n) \/ Publish(n) \/ ClearCore(n)

Core0Step ==
    \/ CountCores \/ StartRollCall \/ SendEvent
    \/ EnterSecureEL1 \/ MapInitialStorage
    \/ \E top \in Top : IdleThread(top)

BootNext == Core0Step \/ (\E n \in Core : CoreStep(n)) \/ Allocator

(* A core executes its instructions, but for as long as wfe makes it wait. *)
BootSpec ==
    /\ BootInit /\ [][BootNext]_<<bootVars, memoryVars>>
    /\ WF_<<bootVars, memoryVars>>(Core0Step)
    /\ \A n \in 0 .. MaxCores - 1 : WF_<<bootVars, memoryVars>>(n \in Core /\ CoreStep(n))

-----------------------------------------------------------------------------
Unanswered == {"count", "start", "sev", "look", "wfe", "roll"}
Making == {"build", "publish"}

(* "at which point the present array will never be written again"          *)
(* (el3.c:86): when first_free_page is published, every core has answered  *)
(* the roll.  If the loop loads present[i] once, none is then about to make*)
(* the tables or to publish a second time either, whatever a straggler     *)
(* still reads.                                                            *)
RollCallOver ==
    first_free_page # 0 =>
        \A n \in Core : /\ at[n] \notin Unanswered
                        /\ loads = 1 => at[n] \notin Making

(* The set of cores the kernel makes idle threads for is that of all cores *)
(* but the watchdog, if the loop of c_el3_nommu loads present[i] once, so  *)
(* that one core makes it.                                                 *)
CoresCounted ==
    loads = 1 /\ at[0] \in {"himem", "maps", "idle"} =>
        standard_isambard_cores = Core \ {Watchdog}

(* Core 0 does not stop in map_initial_storage.  If present[i] is loaded   *)
(* once, the kernel reaches each of its Core structures where              *)
(* switch_to_running_in_high_memory says it moves, no page is mapped twice *)
(* for the kernel, no entry is used twice, and neither the kernel's pages  *)
(* nor the drivers' are given to the allocator.  With two loads a second   *)
(* core may publish first_free_page again when map_initial_storage has     *)
(* taken pages there, and they are given to the allocator.                 *)
KernelApart ==
    /\ at[0] # "stopped"
    /\ loads = 1 /\ at[0] = "idle" =>
        /\ \A n \in Core, k \in 0 .. CorePages - 1 :
              LET physical == Core0 + n * CorePages + k
              IN  kernel_tt_l3[MovedDown(physical)] = physical
        /\ \A v, w \in DOMAIN kernel_tt_l3 :
              kernel_tt_l3[v] = kernel_tt_l3[w] => v = w
        /\ {kernel_tt_l3[v] : v \in DOMAIN kernel_tt_l3} \intersect given = {}
        /\ (0 .. Core0 - 1) \intersect given = {}

(* Core 0 reaches its idle thread and every other core comes to rest: no   *)
(* core sleeps through the event that starts the roll call, and the loop   *)
(* without exclusive accesses ends.                                        *)
Booted == <>[]Settled
=============================================================================
