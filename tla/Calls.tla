------------------------------- MODULE Calls -------------------------------
(***************************************************************************)
(* Calls between maps on one core: the table of interfaces (secure_el1.c), *)
(* the four system calls that make one, CALL and RETURN with the stack of  *)
(* six elements in each thread, and the creation of threads               *)
(* (svc_handling.h, system_driver_request).                                *)
(*                                                                         *)
(* A map is the index of its own interface.  The code at EL0 is any code   *)
(* that uses the interfaces it was given: known is what each map has in    *)
(* its variables, offer what a thread has made and is about to hand over   *)
(* in a register.  handler and object of an interface are one value here.  *)
(***************************************************************************)
EXTENDS Naturals, Sequences, FiniteSets

CONSTANTS Thread, Idle,  \* all threads; the system driver's first thread
          Drivers,       \* number of drivers besides the special two
          BootMap,       \* the map of each thread created at boot, or 0
          DriverHandler, \* what drivers' interfaces can stand for
          StackSize,     \* elements of thread_context.stack
          Last           \* kernel_last_interface

System == 1

Memory == 2

DriverMaps == {3 * k : k \in 1 .. Drivers}

Map == {System, Memory} \union DriverMaps

FirstNew == 3 * (Drivers + 1)

Index == 1 .. Last - 1

Routine == {"entry", "thread_exit", "map", "block", "memory"} \union DriverHandler

ASSUME CallAssumption ==
    /\ Idle \in Thread
    /\ Drivers \in Nat /\ StackSize \in Nat /\ StackSize >= 3
    /\ Last \in Nat /\ Last > FirstNew
    /\ BootMap \in [Thread -> Map \union {0}] /\ BootMap[Idle] = System
    /\ "thread_exit" \notin DriverHandler

Interface == [user : Map, provider : Map, handler : Routine \ {"thread_exit"}]

Free == [user |-> 0]  \* the free marker

NoOffer == [index |-> 0, to |-> 0]

VARIABLES
    table, next, kernel_free_interface,
    current_map, pc,       \* of each thread; map 0: not created
    stack_pointer, stack,  \* its stack of callers, growing down
    runnable, loaded_map,  \* the thread that runs; core->loaded_map
    known, offer,          \* EL0
    bsod                   \* why the kernel has stopped, or "no"

threadVars == <<current_map, pc, stack_pointer, stack>>
poolVars == <<table, next, kernel_free_interface>>
vars == <<poolVars, threadVars, runnable, loaded_map, known, offer, bsod>>

-----------------------------------------------------------------------------
(* new_memory_for_interfaces and initialise_driver_maps: the map of each   *)
(* driver and the blocks of its code and data are the first ones taken.    *)
BootInterface(i) ==
    IF i = Memory THEN [user |-> System, provider |-> Memory, handler |-> "memory"]
    ELSE IF i \in Map THEN [user |-> i, provider |-> System, handler |-> "map"]
    ELSE [user |-> 3 * (i \div 3), provider |-> System, handler |-> "block"]

InitTable == [i \in Index |-> IF i < FirstNew THEN BootInterface(i) ELSE Free]

(* initialise_new_thread *)
BottomFrame == [map |-> System, pc |-> "thread_exit"]

NewStack == [s \in 0 .. StackSize - 1 |-> BottomFrame]

Init ==
    /\ table = InitTable
    /\ next = [i \in Index |-> IF i = Last - 1 THEN 0 ELSE i + 1]
    /\ kernel_free_interface = FirstNew
    /\ current_map = BootMap
    /\ pc = [t \in Thread |-> "entry"]
    /\ stack_pointer = [t \in Thread |-> StackSize - 1]
    /\ stack = [t \in Thread |-> NewStack]
    /\ runnable = Idle
    /\ loaded_map = System
    /\ known = [m \in Map |-> IF m = System THEN {Memory}
                              ELSE IF m = Memory THEN {} ELSE {m}]
    /\ offer = [t \in Thread |-> NoOffer]
    /\ bsod = "no"

-----------------------------------------------------------------------------
(* The running thread, and the map and the caller's frame it is in. *)
Here == current_map[runnable]

Frame == stack[runnable][stack_pointer[runnable]]

(* thread_exit waits for ever.  When the drivers have started, the idle    *)
(* thread creates the interrupt thread, and then only yields.              *)
Able(t) == current_map[t] # 0 /\ pc[t] # "thread_exit"

Running == bsod = "no" /\ Able(runnable)

(* change_map, which callers skip where the map stays. *)
MutantChangeMap(from, to) == loaded_map' = loaded_map

ChangeMap(from, to) == loaded_map' = IF from = to THEN loaded_map ELSE to

(* Any entry to the kernel that ends in another thread (module Kernel). *)
Switch(t) ==
    /\ bsod = "no"
    /\ Able(t)
    /\ runnable' = t
    /\ ChangeMap(Here, current_map[t])
    /\ UNCHANGED <<poolVars, threadVars, known, offer, bsod>>

-----------------------------------------------------------------------------
(* The interface was given to the map that uses it. *)
Usable(i) == table[i] # Free /\ table[i].user = Here

(* ISAMBARD_CALL.  The stack is full when the next call would reach the    *)
(* last element.                                                           *)
MutantStackIsFull(sp) == sp <= 0

StackIsFull(sp) == sp - 1 <= 0

MutantSaved(from, to) == to

Saved(from, to) == from

Learn(m, i) == known' = [known EXCEPT ![m] = IF i = 0 THEN @ ELSE @ \union {i}]

Call(i) ==
    LET t == runnable
        e == table[i]
        sp == stack_pointer[t] - 1
    IN  /\ Running /\ t # Idle
        /\ i \in known[Here] /\ Usable(i)
        /\ offer[t].to \in {0, i}
        /\ offer[t].to = 0 => offer[t].index = 0
        /\ ~StackIsFull(sp)
        /\ stack_pointer' = [stack_pointer EXCEPT ![t] = sp]
        /\ stack' = [stack EXCEPT ![t][sp] = [map |-> Saved(Here, e.provider), pc |-> pc[t]]]
        /\ ChangeMap(Here, e.provider)
        /\ current_map' = [current_map EXCEPT ![t] = e.provider]
        /\ pc' = [pc EXCEPT ![t] = e.handler]
        /\ Learn(e.provider, offer[t].index)
        /\ offer' = [offer EXCEPT ![t] = NoOffer]
        /\ UNCHANGED <<poolVars, runnable, bsod>>

(* ISAMBARD_RETURN; from its first routine a thread ends in thread_exit,   *)
(* with the stack pointer past the end of the stack.                       *)
Return ==
    LET t == runnable
    IN  /\ Running
        /\ t # Idle
        /\ offer[t].to = 0
        /\ ChangeMap(Here, Frame.map)
        /\ current_map' = [current_map EXCEPT ![t] = Frame.map]
        /\ pc' = [pc EXCEPT ![t] = Frame.pc]
        /\ stack_pointer' = [stack_pointer EXCEPT ![t] = @ + 1]
        /\ Learn(Frame.map, offer[t].index)
        /\ offer' = [offer EXCEPT ![t] = NoOffer]
        /\ UNCHANGED <<poolVars, stack, runnable, bsod>>

-----------------------------------------------------------------------------
(* obtain_interface; the last one in the table is never had. *)
PoolIsEmpty == next[kernel_free_interface] = 0

(* new_interface.  to is the target the thread will pass the interface to, *)
(* 0 for its caller.  The memory allocator makes none.                     *)
NewInterface(user, provider, handler, to) ==
    LET i == kernel_free_interface
    IN  /\ Running /\ runnable # Idle /\ Here # Memory
        /\ offer[runnable] = NoOffer
        /\ ~PoolIsEmpty
        /\ table' = [table EXCEPT ![i] = [user |-> user, provider |-> provider,
                                          handler |-> handler]]
        /\ kernel_free_interface' = next[i]
        /\ offer' = [offer EXCEPT ![runnable] = [index |-> i, to |-> to]]
        /\ UNCHANGED <<next, threadVars, runnable, loaded_map, known, bsod>>

(* The map that a result goes to. *)
MutantCaller == Here

Caller == Frame.map

InterfaceToReturn(h) == NewInterface(Caller, Here, h, 0)

DuplicateToReturn(i) ==
    /\ i \in known[Here] /\ Usable(i)
    /\ NewInterface(Caller, table[i].provider, table[i].handler, 0)

InterfaceToPass(target, h) ==
    /\ target \in known[Here] /\ Usable(target)
    /\ NewInterface(table[target].provider, Here, h, target)

DuplicateToPass(target, i) ==
    /\ {target, i} \subseteq known[Here] /\ Usable(i) /\ Usable(target)
    /\ NewInterface(table[target].provider, table[i].provider, table[i].handler, target)

-----------------------------------------------------------------------------
(* Isambard_System_Service_Create_Thread: the new thread runs at once. *)
CreateThread(t) ==
    /\ Running /\ Here = System
    /\ current_map[t] = 0
    /\ current_map' = [current_map EXCEPT ![t] = Frame.map]
    /\ pc' = [pc EXCEPT ![t] = "entry"]
    /\ stack_pointer' = [stack_pointer EXCEPT ![t] = StackSize - 1]
    /\ stack' = [stack EXCEPT ![t] = NewStack]
    /\ runnable' = t
    /\ ChangeMap(System, Frame.map)
    /\ UNCHANGED <<poolVars, known, offer, bsod>>

(* The blue screen: a call deeper than the stack, an interface when the    *)
(* table is used up, an interface of another map, or ISAMBARD_EXCEPTION,   *)
(* which is not expected "at the stage where everything should be working".*)
(* What the handler wrote before it stopped is never read again.           *)
Fault(why) ==
    CASE why = "stack" -> known[Here] # {} /\ StackIsFull(stack_pointer[runnable] - 1)
      [] why = "pool" -> PoolIsEmpty /\ Here # Memory
      [] why = "interface" -> \E i \in known[Here] : ~Usable(i)
      [] why = "exception" -> TRUE

BSOD ==
    /\ Running /\ runnable # Idle
    /\ \E why \in {"stack", "pool", "interface", "exception"} : Fault(why) /\ bsod' = why
    /\ UNCHANGED <<poolVars, threadVars, runnable, loaded_map, known, offer>>

Halted == bsod # "no" /\ UNCHANGED vars

Next ==
    \/ \E t \in Thread : Switch(t) \/ CreateThread(t)
    \/ \E i \in Index : Call(i) \/ DuplicateToReturn(i)
    \/ Return
    \/ \E h \in DriverHandler : InterfaceToReturn(h)
    \/ \E target \in Index : \/ \E h \in DriverHandler : InterfaceToPass(target, h)
                             \/ \E i \in Index : DuplicateToPass(target, i)
    \/ BSOD \/ Halted

Spec == Init /\ [][Next]_vars

-----------------------------------------------------------------------------
(* Every variable has the type its C declaration gives it. *)
TypeOK ==
    /\ table \in [Index -> Interface \union {Free}]
    /\ next \in [Index -> 0 .. Last - 1]
    /\ kernel_free_interface \in Index
    /\ current_map \in [Thread -> Map \union {0}]
    /\ pc \in [Thread -> Routine]
    /\ stack_pointer \in [Thread -> 2 .. StackSize]
    /\ stack \in [Thread -> [0 .. StackSize - 1 -> [map : Map, pc : Routine]]]
    /\ runnable \in Thread
    /\ loaded_map \in Map
    /\ known \in [Map -> SUBSET Index]
    /\ offer \in [Thread -> [index : Index \union {0}, to : Index \union {0}]]
    /\ bsod \in {"no", "stack", "pool", "interface", "exception"}

(* Whatever was handed to a map, as a parameter or as a result, by new     *)
(* interface or by copy, through however many hands and threads: the       *)
(* kernel lets the map call it, and no map has the interface of another.   *)
HandlesUsable ==
    \A m \in Map : \A i \in known[m] : table[i] # Free /\ table[i].user = m

(* Code runs in its own map: the tables that are loaded are those of the   *)
(* map that the running thread is in, although they are changed only       *)
(* where the kernel believes that the map has changed.                     *)
LoadedIsCurrent == loaded_map = current_map[runnable]

(* The inductive invariant behind both: entries from the head of the free  *)
(* list on are free and linked in order; what a thread offers was made for *)
(* the map that will get it; and thread_exit is at the bottom of every     *)
(* stack and nowhere else.                                                 *)
PoolInv ==
    /\ kernel_free_interface \in FirstNew .. Last - 1
    /\ next = [i \in Index |-> IF i = Last - 1 THEN 0 ELSE i + 1]
    /\ \A i \in Index : table[i] = Free <=> i >= kernel_free_interface

OfferInv ==
    \A t \in Thread :
        /\ offer[t].index = 0 => offer[t].to = 0
        /\ offer[t].index # 0 => /\ current_map[t] # 0
                                 /\ table[offer[t].index] # Free
        /\ offer[t].index # 0 /\ offer[t].to = 0 =>
              table[offer[t].index].user = stack[t][stack_pointer[t]].map
        /\ offer[t].to # 0 =>
              /\ table[offer[t].to] # Free
              /\ table[offer[t].index].user = table[offer[t].to].provider

StackInv ==
    \A t \in Thread :
        /\ pc[t] = "thread_exit" <=> stack_pointer[t] = StackSize
        /\ \A s \in stack_pointer[t] .. StackSize - 1 :
              stack[t][s].pc = "thread_exit" <=> s = StackSize - 1

CallInv == TypeOK /\ LoadedIsCurrent /\ HandlesUsable /\ PoolInv /\ OfferInv /\ StackInv

-----------------------------------------------------------------------------
(* The k-th routine from the bottom of t's stack that t is inside of. *)
Activation(t, k) ==
    LET caller == stack[t][StackSize - k]
    IN  IF k <= StackSize - stack_pointer[t]
          THEN [map |-> caller.map, at |-> caller.pc]
          ELSE [map |-> current_map[t], at |-> pc[t]]

Activations(t) ==
    IF current_map[t] = 0 THEN << >>
    ELSE [k \in 1 .. StackSize - stack_pointer[t] + 1 |-> Activation(t, k)]

Granted == {table[i] : i \in {j \in Index : table[j] # Free}}

BootStack == [t \in Thread |->
    IF BootMap[t] = 0 THEN << >>
    ELSE <<[map |-> System, at |-> "thread_exit"], [map |-> BootMap[t], at |-> "entry"]>>]

Caps == INSTANCE Capabilities WITH
    stack <- [t \in Thread |-> Activations(t)],
    grants <- Granted,
    Routines <- Routine,
    InitialStack <- BootStack,
    InitialGrants <- {BootInterface(i) : i \in 1 .. FirstNew - 1}

(* The table, the stacks of six and the map that is loaded together give   *)
(* threads that return to where they called from, and maps that reach only *)
(* what its provider made and somebody handed on.                          *)
CallsImplemented == Caps!CapSpec
=============================================================================
