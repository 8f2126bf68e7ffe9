---------------------------- MODULE Translation ----------------------------
(***************************************************************************)
(* The memory of drivers on one core: the list of virtual memory blocks of *)
(* each map, which the system driver edits in map_at and unmap             *)
(* (drivers/system.c), and the three translation tables of the core, which *)
(* are emptied at every change of map and filled fault by fault            *)
(* (secure_el1.c).                                                         *)
(*                                                                         *)
(* Addresses are page numbers.  The tables are small: one first level      *)
(* table, and a single second and a single third level table for whatever  *)
(* the map uses.  That is right for maps laid out as those of the          *)
(* repository are: see LayoutAssumption.                                   *)
(***************************************************************************)
EXTENDS Naturals, FiniteSets

CONSTANTS Thread, Driver, System,
          Home,     \* the map of each thread
          Entries,  \* of a table, 512 in the code
          Regions,  \* used entries of the first level table
          Vmbs,     \* number_of_vmbs of a map, 12 in the code
          Code, Data, \* blocks of each map at boot
          Extra,    \* blocks a driver may have mapped later
          Touched,  \* pages that drivers use
          Junk      \* what is in the heap before it is used

None == 0

NoBlock == [start |-> 0, count |-> 0, memory |-> None]

PagesOf(b) == b.start .. b.start + b.count - 1

VirtualPage == 0 .. Regions * Entries * Entries - 1

Blocks(m) == {Code[m], Data[m]} \union Extra[m]

AllBlocks == UNION {Blocks(m) : m \in Driver}

Memory == UNION {b.memory .. b.memory + b.count - 1 : b \in AllBlocks}

(* is_l1_aligned and is_l2_aligned of a block and of its memory. *)
IsAligned(b, size) ==
    /\ b.start % size = 0 /\ b.count % size = 0
    /\ b.memory % size = 0

(* The comments in find_and_map_memory say what it leaves to the drivers.  *)
(* All blocks of single pages are within the reach of one third level      *)
(* table, and all that need a second level table within one of those.      *)
Small(m) == {b \in Blocks(m) : ~IsAligned(b, Entries)}

Medium(m) == {b \in Blocks(m) : ~IsAligned(b, Entries * Entries)}

Within(bs, size) == \A b \in bs, c \in bs : \A v \in PagesOf(b), w \in PagesOf(c) : v \div size = w \div size

Unlocked == "unlocked"

ASSUME LayoutAssumption ==
    /\ System \notin Driver /\ Home \in [Thread -> Driver] /\ Unlocked \notin Thread
    /\ Entries \in Nat \ {0} /\ Regions \in Nat \ {0} /\ Vmbs \in Nat
    /\ Touched \subseteq VirtualPage
    /\ \A b \in AllBlocks : /\ b \in [start : Nat, count : Nat \ {0}, memory : Nat \ {0}]
                            /\ PagesOf(b) \subseteq VirtualPage
    /\ \A m \in Driver : /\ PagesOf(Code[m]) \intersect PagesOf(Data[m]) = {}
                         /\ {Code[m], Data[m]} \intersect Extra[m] = {}
                         /\ IsFiniteSet(Blocks(m)) /\ Cardinality(Blocks(m)) < Vmbs
                         /\ Within(Small(m), Entries)
                         /\ Within(Medium(m), Entries * Entries)

VARIABLES
    list,          \* of each map, in the kernel's heap
    vmbs,          \* the system driver's copy
    l1, l2, l3,    \* the translation tables of the core
    tlb,           \* what the MMU remembers, by ASID
    loaded_map, runnable,
    current_map, pc, arg,  \* of each thread, and the block it asks for
    map_lock,      \* the thread that has it, or none of them
    mapped         \* the blocks each map was given (no part of the code)

tables == <<l1, l2, l3>>
threadVars == <<runnable, current_map, pc, arg>>
vars == <<list, vmbs, tables, tlb, loaded_map, threadVars, map_lock, mapped>>

-----------------------------------------------------------------------------
Invalid == [type |-> "invalid", at |-> None]

Subtable == [type |-> "table", at |-> None]

BlockAt(p) == [type |-> "block", at |-> p]

Empty(n) == [i \in 0 .. n - 1 |-> Invalid]

(* initialise_driver_maps; the heap is not cleared. *)
Init ==
    /\ \E rest \in {NoBlock, Junk} :
          list = [m \in Driver |-> [i \in 0 .. Vmbs - 1 |->
                     IF i = 0 THEN Code[m] ELSE IF i = 1 THEN Data[m]
                     ELSE IF i = 2 THEN NoBlock ELSE rest]]
    /\ vmbs = [i \in 0 .. Vmbs |-> NoBlock]
    /\ l1 = Empty(Regions) /\ l2 = Empty(Entries) /\ l3 = Empty(Entries)
    /\ tlb = [m \in Driver |-> [v \in Touched |-> None]]
    /\ runnable \in Thread
    /\ loaded_map = Home[runnable]
    /\ current_map = Home
    /\ pc = [t \in Thread |-> "run"]
    /\ arg = [t \in Thread |-> NoBlock]
    /\ map_lock = Unlocked
    /\ mapped = [m \in Driver |-> {Code[m], Data[m]}]

-----------------------------------------------------------------------------
(* load_this_map.  The tables of the system map are static and never       *)
(* looked at here.                                                         *)
Cleared(m) ==
    IF m = loaded_map THEN tables
    ELSE <<Empty(Regions), Empty(Entries), Empty(Entries)>>

LoadMap(m) ==
    /\ loaded_map' = m
    /\ l1' = Cleared(m)[1] /\ l2' = Cleared(m)[2] /\ l3' = Cleared(m)[3]

(* A thread switch of any kind. *)
Switch(t) ==
    /\ t # runnable
    /\ runnable' = t
    /\ LoadMap(current_map[t])
    /\ UNCHANGED <<list, vmbs, tlb, current_map, pc, arg, map_lock, mapped>>

-----------------------------------------------------------------------------
(* The MMU, when the page is not in its TLB: None is a fault. *)
Walk(v) ==
    LET e1 == l1[v \div (Entries * Entries)]
        e2 == l2[(v \div Entries) % Entries]
        e3 == l3[v % Entries]
    IN  CASE e1.type = "block" -> e1.at + (v % (Entries * Entries))
          [] e1.type = "table" /\ e2.type = "block" -> e2.at + (v % Entries)
          [] e1.type = "table" /\ e2.type = "table" -> e3.at
          [] OTHER -> None

Uses(t, v) ==
    /\ runnable = t /\ pc[t] = "run"
    /\ \E b \in mapped[Home[t]] : v \in PagesOf(b)
    /\ tlb[Home[t]][v] = None

TableWalk(t, v) ==
    /\ Uses(t, v) /\ Walk(v) # None
    /\ tlb' = [tlb EXCEPT ![Home[t]][v] = Walk(v)]
    /\ UNCHANGED <<list, vmbs, tables, loaded_map, threadVars, map_lock, mapped>>

(* find_vmb: the list ends with the first block of no pages. *)
Listed(m) == {i \in 0 .. Vmbs - 1 : \A j \in 0 .. i : list[m][j].count > 0}

FindVmb(m, v) ==
    list[m][CHOOSE i \in Listed(m) :
               /\ v \in PagesOf(list[m][i])
               /\ \A j \in Listed(m) : v \in PagesOf(list[m][j]) => i <= j]

Offset(b, v) == v - b.start

(* find_and_map_memory, after which the access is tried again. *)
MutantLink(table, i) == table

Link(table, i) == [table EXCEPT ![i] = Subtable]

Fault(t, v) ==
    LET b == FindVmb(Home[t], v)
        i1 == v \div (Entries * Entries)
        i2 == (v \div Entries) % Entries
        i3 == v % Entries
        At(size) == BlockAt(b.memory + (Offset(b, v) \div size) * size)
    IN  /\ Uses(t, v) /\ Walk(v) = None
        /\ IF IsAligned(b, Entries * Entries)
           THEN l1' = [l1 EXCEPT ![i1] = At(Entries * Entries)] /\ UNCHANGED <<l2, l3>>
           ELSE /\ l1' = [l1 EXCEPT ![i1] = Subtable]
                /\ IF IsAligned(b, Entries)
                   THEN l2' = [l2 EXCEPT ![i2] = At(Entries)] /\ l3' = l3
                   ELSE l2' = Link(l2, i2) /\ l3' = [l3 EXCEPT ![i3] = At(1)]
        /\ UNCHANGED <<list, vmbs, tlb, loaded_map, threadVars, map_lock, mapped>>

-----------------------------------------------------------------------------
(* A driver's calls to the system driver.  In the repository one thread of *)
(* a driver at a time makes them, a new block does not cover another, and  *)
(* a block is unmapped only while it is the last (show_page.c).            *)
Alone(t) == \A u \in Thread : Home[u] = Home[t] => pc[u] = "run"

LastBlock(m) == list[m][CHOOSE i \in Listed(m) : i + 1 \notin Listed(m)]

Enter(t, b, op) ==
    /\ runnable = t /\ Alone(t)
    /\ current_map' = [current_map EXCEPT ![t] = System]
    /\ LoadMap(System)
    /\ pc' = [pc EXCEPT ![t] = op]
    /\ arg' = [arg EXCEPT ![t] = b]
    /\ UNCHANGED <<list, vmbs, tlb, runnable, map_lock, mapped>>

CallMapAt(t, b) ==
    /\ \A c \in mapped[Home[t]] : PagesOf(b) \intersect PagesOf(c) = {}
    /\ Enter(t, b, "map_at")

CallUnmap(t) ==
    /\ LastBlock(Home[t]) \in Extra[Home[t]]
    /\ Enter(t, LastBlock(Home[t]), "unmap")

MutantFree == TRUE

LockIsFree == map_lock = Unlocked

(* The veneer's map_lock, and ReadHeap.  vmb_lock is only claimed inside.  *)
Inside == [op \in {"map_at", "unmap"} |-> IF op = "map_at" THEN "map_at2" ELSE "unmap2"]

ReadHeap(t) ==
    /\ runnable = t /\ pc[t] \in {"map_at", "unmap"}
    /\ LockIsFree
    /\ map_lock' = t
    /\ vmbs' = [i \in 0 .. Vmbs |-> IF i < Vmbs THEN list[Home[t]][i] ELSE vmbs[i]]
    /\ pc' = [pc EXCEPT ![t] = Inside[@]]
    /\ UNCHANGED <<list, tables, tlb, loaded_map, runnable, current_map, arg, mapped>>

MapAt(t) ==
    LET i == CHOOSE k \in 0 .. Vmbs - 1 : /\ vmbs[k].count = 0
                                           /\ \A j \in 0 .. k - 1 : vmbs[j].count # 0
    IN  /\ runnable = t /\ pc[t] = "map_at2"
        /\ vmbs' = [vmbs EXCEPT ![i] = arg[t], ![i + 1] = NoBlock]
        /\ pc' = [pc EXCEPT ![t] = "write"]
        /\ UNCHANGED <<list, tables, tlb, loaded_map, runnable, current_map, arg,
                       map_lock, mapped>>

Unmap(t) ==
    LET i == CHOOSE k \in 0 .. Vmbs - 1 :
                /\ vmbs[k].count # 0 /\ vmbs[k].start = arg[t].start
                /\ \A j \in 0 .. k - 1 : vmbs[j].count = 0 \/ vmbs[j].start # arg[t].start
        moved(j) == /\ j >= i /\ j < Vmbs - 1
                    /\ \A k \in i .. j : vmbs[k] # NoBlock
    IN  /\ runnable = t /\ pc[t] = "unmap2"
        /\ vmbs' = [j \in 0 .. Vmbs |-> IF j = i + 1 THEN NoBlock
                                        ELSE IF moved(j) THEN vmbs[j + 1] ELSE vmbs[j]]
        /\ pc' = [pc EXCEPT ![t] = "write"]
        /\ UNCHANGED <<list, tables, tlb, loaded_map, runnable, current_map, arg,
                       map_lock, mapped>>

(* WriteHeap, which also drops the caller's translations. *)
MutantInvalidated(m) == tlb

Invalidated(m) == [tlb EXCEPT ![m] = [v \in Touched |-> None]]

WriteHeap(t) ==
    LET m == Home[t]
        b == arg[t]
    IN  /\ runnable = t /\ pc[t] = "write"
        /\ list' = [list EXCEPT ![m] = [i \in 0 .. Vmbs - 1 |-> vmbs[i]]]
        /\ tlb' = Invalidated(m)
        /\ mapped' = [mapped EXCEPT ![m] = IF b \in @ THEN @ \ {b} ELSE @ \union {b}]
        /\ pc' = [pc EXCEPT ![t] = "leave"]
        /\ UNCHANGED <<vmbs, tables, loaded_map, runnable, current_map, arg, map_lock>>

ReleaseLock(t) ==
    /\ runnable = t /\ pc[t] = "leave"
    /\ map_lock' = Unlocked
    /\ pc' = [pc EXCEPT ![t] = "return"]
    /\ UNCHANGED <<list, vmbs, tables, tlb, loaded_map, runnable, current_map, arg, mapped>>

Return(t) ==
    /\ runnable = t /\ pc[t] = "return"
    /\ current_map' = [current_map EXCEPT ![t] = Home[t]]
    /\ LoadMap(Home[t])
    /\ pc' = [pc EXCEPT ![t] = "run"]
    /\ arg' = [arg EXCEPT ![t] = NoBlock]
    /\ UNCHANGED <<list, vmbs, tlb, runnable, map_lock, mapped>>

Next ==
    \E t \in Thread :
        \/ Switch(t)
        \/ \E v \in Touched : TableWalk(t, v) \/ Fault(t, v)
        \/ \E b \in Extra[Home[t]] : CallMapAt(t, b)
        \/ CallUnmap(t)
        \/ ReadHeap(t) \/ MapAt(t) \/ Unmap(t) \/ WriteHeap(t)
        \/ ReleaseLock(t) \/ Return(t)

Spec == Init /\ [][Next]_vars

-----------------------------------------------------------------------------
(* Every variable has its type; no table entry leads out of the memory of  *)
(* the blocks.                                                             *)
Entry == {Invalid, Subtable} \union {BlockAt(p) : p \in Memory}

TypeOK ==
    /\ list \in [Driver -> [0 .. Vmbs - 1 -> AllBlocks \union {NoBlock, Junk}]]
    /\ vmbs \in [0 .. Vmbs -> AllBlocks \union {NoBlock, Junk}]
    /\ l1 \in [0 .. Regions - 1 -> Entry]
    /\ l2 \in [0 .. Entries - 1 -> Entry] /\ l3 \in [0 .. Entries - 1 -> Entry]
    /\ tlb \in [Driver -> [Touched -> Memory \union {None}]]
    /\ loaded_map \in Driver \union {System}
    /\ runnable \in Thread
    /\ current_map \in [Thread -> Driver \union {System}]
    /\ pc \in [Thread -> {"run", "map_at", "unmap", "map_at2", "unmap2", "write",
                          "leave", "return"}]
    /\ arg \in [Thread -> AllBlocks \union {NoBlock}]
    /\ mapped \in [Driver -> SUBSET AllBlocks]

(* Whatever calls of several drivers interleave in the system driver, the  *)
(* list of a map holds the blocks it was given, each once, and nothing of  *)
(* what the heap held before.                                              *)
ListsRight ==
    \A m \in Driver : /\ {list[m][i] : i \in Listed(m)} = mapped[m]
                      /\ Cardinality(Listed(m)) = Cardinality(mapped[m])

(* Where page v of map m is, by the blocks it was given. *)
Place(m, v) == {b.memory + (v - b.start) : b \in {c \in mapped[m] : v \in PagesOf(c)}}

(* No translation is stale: what the MMU remembers of any map, and what it *)
(* would find in the tables of the loaded one, is where the blocks that    *)
(* the map has now say it is, and no entry leads anywhere else.            *)
NoStale ==
    /\ TypeOK
    /\ \A m \in Driver : \A v \in Touched :
          tlb[m][v] # None => tlb[m][v] \in Place(m, v)
    /\ loaded_map \in Driver =>
          \A v \in VirtualPage : Walk(v) # None => Walk(v) \in Place(loaded_map, v)

(* After a fault the access that failed succeeds: no driver is stopped for *)
(* ever at one instruction.                                                *)
Repaired == \A v \in Touched : (\E t \in Thread : Fault(t, v)) => Walk(v)' # None

FaultsRepaired == [][Repaired]_vars
=============================================================================
