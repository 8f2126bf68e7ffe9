---------------------------- MODULE MemoryProofs ----------------------------
(***************************************************************************)
(* The memory of the machine.  First the maps of the drivers: the lists of *)
(* their blocks and the translation tables, for any number of drivers and  *)
(* threads and any layout of their blocks that LayoutAssumption allows.    *)
(* Then the start of the machine, for any number of cores and any image:   *)
(* the roll call of the cores and the tables of the kernel.  Last the      *)
(* allocator of physical memory, for any amount of it.                     *)
(***************************************************************************)
EXTENDS Boot, Translation, FiniteSetTheorems, WellFoundedInduction, TLAPS

(* Translation: the maps of the drivers. *)

(* Where the threads are.  A thread in a call runs in the system map, the  *)
(* threads of one driver make their calls one at a time, and map_lock is   *)
(* held by the thread between ReadHeap and its release.                    *)
Holding == {"map_at2", "unmap2", "write", "leave"}

At == {"run", "map_at", "unmap", "return"} \union Holding

ThreadTypes ==
    /\ runnable \in Thread
    /\ pc \in [Thread -> At]
    /\ arg \in [Thread -> AllBlocks \union {NoBlock}]
    /\ current_map = [t \in Thread |-> IF pc[t] = "run" THEN Home[t] ELSE System]
    /\ loaded_map = current_map[runnable]

CallInv ==
    /\ \A t \in Thread : map_lock = t <=> pc[t] \in Holding
    /\ \A t, u \in Thread : Home[t] = Home[u] /\ pc[t] # "run" /\ pc[u] # "run" => t = u

(* The blocks of a map do not overlap, and f lists the blocks of S, each   *)
(* once, up to a block of no pages.                                        *)
Apart(b, e) == PagesOf(b) \intersect PagesOf(e) = {}

BlocksInv ==
    /\ mapped \in [Driver -> SUBSET AllBlocks]
    /\ \A m \in Driver : /\ mapped[m] \subseteq Blocks(m) /\ Code[m] \in mapped[m]
                         /\ \A b, e \in mapped[m] : b # e => Apart(b, e)

Lists(f, n, S) ==
    /\ f[n] = NoBlock
    /\ \A h \in 0 .. n - 1 : f[h] \in S
    /\ \A b \in S : \E h \in 0 .. n - 1 : f[h] = b
    /\ \A h, j \in 0 .. n - 1 : f[h] = f[j] => h = j

ListInv ==
    /\ list \in [Driver -> [0 .. Vmbs - 1 -> AllBlocks \union {NoBlock, Junk}]]
    /\ vmbs \in [0 .. Vmbs -> AllBlocks \union {NoBlock, Junk}]
    /\ \A m \in Driver : \E n \in 0 .. Vmbs - 1 : Lists(list[m], n, mapped[m])

(* What a call has found out, and what it has done to the copy. *)
NewBlock(m, b) == b \in Extra[m] /\ \A e \in mapped[m] : Apart(b, e)

LastIs(m, b) ==
    /\ b \in Extra[m] /\ b \in mapped[m]
    /\ \E n \in 1 .. Vmbs - 1 : Lists(list[m], n, mapped[m]) /\ list[m][n - 1] = b

Toggled(S, b) == IF b \in S THEN S \ {b} ELSE S \union {b}

Call(t) ==
    /\ pc[t] \in {"map_at", "map_at2"} => NewBlock(Home[t], arg[t])
    /\ pc[t] \in {"unmap", "unmap2"} => LastIs(Home[t], arg[t])
    /\ pc[t] \in {"map_at2", "unmap2"} =>
          \A h \in 0 .. Vmbs - 1 : vmbs[h] = list[Home[t]][h]
    /\ pc[t] = "write" =>
          /\ arg[t] \in Extra[Home[t]]
          /\ arg[t] \in mapped[Home[t]] \/ NewBlock(Home[t], arg[t])
          /\ \E n \in 0 .. Vmbs - 1 : Lists(vmbs, n, Toggled(mapped[Home[t]], arg[t]))

ArgInv == \A t \in Thread : Call(t)

ListsInv == ThreadTypes /\ CallInv /\ BlocksInv /\ ListInv /\ ArgInv

-----------------------------------------------------------------------------
(* The tables of the loaded map.  A link leads to the one table that the   *)
(* blocks which need it have in common, and every other entry is right for *)
(* all the pages that it translates.                                       *)
Used(m, bs, v) == \E b \in mapped[m] \intersect bs : v \in PagesOf(b)

L1Inv(m) ==
    \A h \in 0 .. Regions - 1 :
        /\ l1[h].type = "table" =>
              \E w \in VirtualPage : Used(m, Medium(m), w) /\ w \div (Entries * Entries) = h
        /\ l1[h].type = "block" =>
              \A v \in VirtualPage : v \div (Entries * Entries) = h =>
                 l1[h].at + (v % (Entries * Entries)) \in Place(m, v)

L2Inv(m) ==
    \A j \in 0 .. Entries - 1 :
        /\ l2[j].type = "table" =>
              \E w \in VirtualPage : Used(m, Small(m), w) /\ (w \div Entries) % Entries = j
        /\ l2[j].type = "block" =>
              \E w \in VirtualPage :
                 /\ Used(m, Medium(m), w) /\ (w \div Entries) % Entries = j
                 /\ \A v \in VirtualPage : v \div Entries = w \div Entries =>
                       l2[j].at + (v % Entries) \in Place(m, v)

L3Inv(m) ==
    \A k \in 0 .. Entries - 1 :
        /\ l3[k].type # "table"
        /\ l3[k].type = "block" =>
              \E w \in VirtualPage : Used(m, Small(m), w) /\ w % Entries = k /\ l3[k].at \in Place(m, w)

TableTypes ==
    /\ l1 \in [0 .. Regions - 1 -> Entry]
    /\ l2 \in [0 .. Entries - 1 -> Entry]
    /\ l3 \in [0 .. Entries - 1 -> Entry]

TlbInv ==
    /\ tlb \in [Driver -> [Touched -> Memory \union {None}]]
    /\ \A m \in Driver : \A v \in Touched : tlb[m][v] # None => tlb[m][v] \in Place(m, v)

Tables(m) == L1Inv(m) /\ L2Inv(m) /\ L3Inv(m)

TablesInv ==
    /\ TableTypes /\ TlbInv
    /\ \A m \in Driver : loaded_map = m => Tables(m)

-----------------------------------------------------------------------------
(* What LayoutAssumption says of the constants. *)
LEMMA Sizes ==
    /\ System \notin Driver /\ Home \in [Thread -> Driver] /\ Unlocked \notin Thread
    /\ Entries \in Nat \ {0} /\ Regions \in Nat \ {0} /\ Vmbs \in Nat
    /\ Touched \subseteq VirtualPage
  BY LayoutAssumption

LEMMA BlockFacts ==
    ASSUME NEW b \in AllBlocks
    PROVE  /\ b.start \in Nat /\ b.count \in Nat \ {0} /\ b.memory \in Nat \ {0}
           /\ PagesOf(b) \subseteq VirtualPage /\ b # NoBlock /\ b.start \in PagesOf(b)
  <1>1. b \in [start : Nat, count : Nat \ {0}, memory : Nat \ {0}] /\ PagesOf(b) \subseteq VirtualPage
    BY LayoutAssumption
  <1>2. b.start \in Nat /\ b.count \in Nat \ {0} /\ b.memory \in Nat \ {0}
    BY <1>1
  <1>3. b # NoBlock
    BY <1>2 DEF NoBlock
  <1>4. b.start \in PagesOf(b)
    BY <1>2 DEF PagesOf
  <1> QED
    BY <1>1, <1>2, <1>3, <1>4

LEMMA MapFacts ==
    ASSUME NEW m \in Driver
    PROVE  /\ Apart(Code[m], Data[m])
           /\ Code[m] \in Blocks(m) /\ Data[m] \in Blocks(m) /\ Extra[m] \subseteq Blocks(m)
           /\ Code[m] \notin Extra[m] /\ Code[m] # Data[m]
           /\ Blocks(m) \subseteq AllBlocks
           /\ IsFiniteSet(Blocks(m)) /\ Cardinality(Blocks(m)) < Vmbs
  <1>1. /\ Apart(Code[m], Data[m]) /\ Code[m] \notin Extra[m]
        /\ IsFiniteSet(Blocks(m)) /\ Cardinality(Blocks(m)) < Vmbs
    BY LayoutAssumption DEF Apart
  <1>2. /\ Code[m] \in Blocks(m) /\ Data[m] \in Blocks(m) /\ Extra[m] \subseteq Blocks(m)
        /\ Blocks(m) \subseteq AllBlocks
    BY DEF Blocks, AllBlocks
  <1>3. Code[m] # Data[m]
    BY <1>1, <1>2, BlockFacts DEF Apart
  <1> QED
    BY <1>1, <1>2, <1>3

(* Blocks that are apart differ, and start at different pages. *)
LEMMA ApartDiffer ==
    ASSUME NEW b \in AllBlocks, NEW e \in AllBlocks, Apart(b, e)
    PROVE  b # e /\ b.start # e.start
  BY BlockFacts DEF Apart

LEMMA ApartSymmetric == \A b, e : Apart(b, e) <=> Apart(e, b)
  BY DEF Apart

-----------------------------------------------------------------------------
(* Lists of blocks. *)
LEMMA ListSize ==
    ASSUME NEW f, NEW n \in Nat, NEW S, Lists(f, n, S)
    PROVE  IsFiniteSet(S) /\ Cardinality(S) = n
  <1> DEFINE g == [h \in 0 .. n - 1 |-> f[h]]
  <1>1. g \in Bijection(0 .. n - 1, S)
    <2>1. g \in [0 .. n - 1 -> S]
      BY DEF Lists
    <2>2. \A h, j \in 0 .. n - 1 : g[h] = g[j] => h = j
      BY DEF Lists
    <2>3. \A b \in S : \E h \in 0 .. n - 1 : g[h] = b
      BY DEF Lists
    <2> HIDE DEF g
    <2> QED
      BY <2>1, <2>2, <2>3 DEF Bijection, Injection, Surjection, IsInjective
  <1>2. IsFiniteSet(0 .. n - 1) /\ Cardinality(0 .. n - 1) = n
    <2>1. 0 \in Int /\ n - 1 \in Int
      OBVIOUS
    <2>2. /\ IsFiniteSet(0 .. n - 1)
          /\ Cardinality(0 .. n - 1) = IF 0 > n - 1 THEN 0 ELSE (n - 1) - 0 + 1
      BY <2>1, FS_Interval
    <2> QED
      BY <2>2
  <1> HIDE DEF g
  <1>3. ExistsBijection(0 .. n - 1, S)
    BY <1>1 DEF ExistsBijection
  <1> QED
    BY <1>2, <1>3, FS_Bijection

LEMMA ListBound ==
    ASSUME NEW m \in Driver, NEW f, NEW n \in Nat, NEW S \in SUBSET Blocks(m), Lists(f, n, S)
    PROVE  n \in 0 .. Vmbs - 1
  <1>1. Cardinality(S) = n
    BY ListSize
  <1>2. Cardinality(S) <= Cardinality(Blocks(m)) /\ Cardinality(Blocks(m)) \in Nat
    BY MapFacts, FS_Subset, FS_CardinalityType
  <1>3. Cardinality(Blocks(m)) < Vmbs /\ Vmbs \in Nat
    BY MapFacts, Sizes
  <1> QED
    BY <1>1, <1>2, <1>3

(* find_vmb sees just the entries before the block of no pages. *)
LEMMA ListedIs ==
    ASSUME NEW m \in Driver, NEW n \in 0 .. Vmbs - 1, NEW S \in SUBSET AllBlocks,
           Lists(list[m], n, S)
    PROVE  Listed(m) = 0 .. n - 1
  <1>1. Vmbs \in Nat /\ n \in Nat
    BY Sizes
  <1>2. \A h \in 0 .. n - 1 : list[m][h].count > 0
    BY BlockFacts DEF Lists
  <1>3. list[m][n].count = 0
    BY DEF Lists, NoBlock
  <1>4. ASSUME NEW h \in Listed(m) PROVE h \in 0 .. n - 1
    BY <1>1, <1>3 DEF Listed
  <1>5. ASSUME NEW h \in 0 .. n - 1 PROVE h \in Listed(m)
    BY <1>1, <1>2 DEF Listed
  <1> QED
    BY <1>4, <1>5

(* What map_at and unmap do to a list. *)
LEMMA ListGrows ==
    ASSUME NEW f, NEW n \in Nat, NEW S, Lists(f, n, S), NEW b, b \notin S,
           NEW g, \A h \in 0 .. n - 1 : g[h] = f[h], g[n] = b, g[n + 1] = NoBlock
    PROVE  Lists(g, n + 1, S \union {b})
  <1>1. 0 .. (n + 1) - 1 = 0 .. n - 1 \union {n}
    OBVIOUS
  <1>2. n \notin 0 .. n - 1
    OBVIOUS
  <1>3. \A h \in 0 .. n - 1 : f[h] # b
    BY DEF Lists
  <1> QED
    BY <1>1, <1>2, <1>3 DEF Lists

LEMMA ListShrinks ==
    ASSUME NEW f, NEW n \in Nat \ {0}, NEW S, Lists(f, n, S), NEW b, f[n - 1] = b,
           NEW g, \A h \in 0 .. n - 2 : g[h] = f[h], g[n - 1] = NoBlock
    PROVE  Lists(g, n - 1, S \ {b}) /\ b \in S
  <1>1. 0 .. n - 1 = 0 .. (n - 1) - 1 \union {n - 1} /\ n - 1 \notin 0 .. (n - 1) - 1
    OBVIOUS
  <1>2. 0 .. n - 2 = 0 .. (n - 1) - 1
    OBVIOUS
  <1>3. \A h \in 0 .. (n - 1) - 1 : f[h] \in S /\ f[h] # b /\ g[h] = f[h]
    BY <1>1, <1>2 DEF Lists
  <1>4. ASSUME NEW e \in S \ {b} PROVE \E h \in 0 .. (n - 1) - 1 : g[h] = e
    <2>1. PICK h \in 0 .. n - 1 : f[h] = e
      BY DEF Lists
    <2> QED
      BY <1>1, <1>3, <2>1
  <1>5. \A h, j \in 0 .. (n - 1) - 1 : g[h] = g[j] => h = j
    BY <1>1, <1>3 DEF Lists
  <1>6. b \in S
    BY <1>1 DEF Lists
  <1> QED
    BY <1>3, <1>4, <1>5, <1>6 DEF Lists


-----------------------------------------------------------------------------
(* The lists, step by step.  A call of another thread is not disturbed by  *)
(* a step that leaves alone its map and, if that thread has map_lock, the  *)
(* copy.                                                                   *)
LEMMA CallFrame ==
    ASSUME NEW u \in Thread, Call(u),
           pc'[u] = pc[u], arg'[u] = arg[u],
           list'[Home[u]] = list[Home[u]], mapped'[Home[u]] = mapped[Home[u]],
           pc[u] \in Holding => vmbs' = vmbs
    PROVE  Call(u)'
  <1>1. pc[u] \in {"map_at2", "unmap2", "write"} => vmbs' = vmbs
    BY DEF Holding
  <1>2. (pc[u] \in {"map_at", "map_at2"} => NewBlock(Home[u], arg[u]))'
    BY DEF Call, NewBlock
  <1>3. (pc[u] \in {"unmap", "unmap2"} => LastIs(Home[u], arg[u]))'
    BY DEF Call, LastIs
  <1>4. (pc[u] \in {"map_at2", "unmap2"} =>
            \A h \in 0 .. Vmbs - 1 : vmbs[h] = list[Home[u]][h])'
    BY <1>1 DEF Call
  <1>5. (pc[u] = "write" =>
            /\ arg[u] \in Extra[Home[u]]
            /\ arg[u] \in mapped[Home[u]] \/ NewBlock(Home[u], arg[u])
            /\ \E n \in 0 .. Vmbs - 1 : Lists(vmbs, n, Toggled(mapped[Home[u]], arg[u])))'
    BY <1>1 DEF Call, NewBlock
  <1> QED
    BY <1>2, <1>3, <1>4, <1>5 DEF Call

(* A step of a call: the thread stays in the system map. *)
LEMMA StepInCall ==
    ASSUME ThreadTypes, NEW t \in Thread, NEW l \in At, l # "run",
           pc[t] # "run", pc' = [pc EXCEPT ![t] = l],
           UNCHANGED <<runnable, arg, current_map, loaded_map>>
    PROVE  ThreadTypes'
  <1>1. pc' \in [Thread -> At]
    BY DEF ThreadTypes
  <1>2. \A u \in Thread : pc'[u] = "run" <=> pc[u] = "run"
    BY DEF ThreadTypes
  <1>3. current_map' = [u \in Thread |-> IF pc'[u] = "run" THEN Home[u] ELSE System]
    BY <1>2 DEF ThreadTypes
  <1> QED
    BY <1>1, <1>3 DEF ThreadTypes

LEMMA SwitchLists ==
    ASSUME ListsInv, NEW t \in Thread, Switch(t)
    PROVE  ListsInv'
  <1>1. ThreadTypes'
    BY DEF ListsInv, ThreadTypes, Switch, LoadMap
  <1>2. CallInv' /\ BlocksInv' /\ ListInv'
    BY DEF ListsInv, CallInv, BlocksInv, ListInv, Switch
  <1>3. ArgInv'
    BY CallFrame DEF ListsInv, ArgInv, Switch
  <1> QED
    BY <1>1, <1>2, <1>3 DEF ListsInv

LEMMA SameLists ==
    ASSUME ListsInv, UNCHANGED <<list, vmbs, loaded_map, threadVars, map_lock, mapped>>
    PROVE  ListsInv'
  <1>1. ThreadTypes' /\ CallInv' /\ BlocksInv' /\ ListInv'
    BY DEF ListsInv, ThreadTypes, CallInv, BlocksInv, ListInv, threadVars
  <1>2. ArgInv'
    BY CallFrame DEF ListsInv, ArgInv, threadVars
  <1> QED
    BY <1>1, <1>2 DEF ListsInv

(* A driver's thread calls the system driver. *)
LEMMA EnterLists ==
    ASSUME ListsInv, NEW t \in Thread, NEW b \in Extra[Home[t]], NEW op \in {"map_at", "unmap"},
           Enter(t, b, op),
           op = "map_at" => NewBlock(Home[t], b),
           op = "unmap" => LastIs(Home[t], b)
    PROVE  ListsInv'
  <1> USE DEF Enter
  <1>1. b \in AllBlocks
    BY MapFacts, Sizes
  <1>2. ThreadTypes'
    <2>1. pc' \in [Thread -> At] /\ arg' \in [Thread -> AllBlocks \union {NoBlock}]
      BY <1>1 DEF ListsInv, ThreadTypes, At
    <2>2. current_map' = [u \in Thread |-> IF pc'[u] = "run" THEN Home[u] ELSE System]
      BY DEF ListsInv, ThreadTypes
    <2> QED
      BY <2>1, <2>2 DEF ListsInv, ThreadTypes, LoadMap
  <1>3. CallInv'
    <2>1. pc[t] = "run" /\ \A u \in Thread : Home[u] = Home[t] => pc[u] = "run"
      BY DEF Alone
    <2>2. pc' = [pc EXCEPT ![t] = op] /\ pc \in [Thread -> At] /\ map_lock' = map_lock
      BY DEF ListsInv, ThreadTypes
    <2>3. op \notin Holding /\ "run" \notin Holding
      BY DEF Holding
    <2>4. \A u \in Thread : pc'[u] \in Holding <=> pc[u] \in Holding
      BY <2>1, <2>2, <2>3
    <2>5. \A u \in Thread : u # t => pc'[u] = pc[u]
      BY <2>2
    <2> QED
      BY <2>1, <2>2, <2>4, <2>5 DEF ListsInv, CallInv
  <1>4. BlocksInv' /\ ListInv'
    BY DEF ListsInv, BlocksInv, ListInv
  <1>5. ASSUME NEW u \in Thread PROVE Call(u)'
    <2>1. CASE u = t
      <3>1. pc'[u] = op /\ arg'[u] = b /\ list' = list /\ mapped' = mapped
        BY <2>1 DEF ListsInv, ThreadTypes
      <3>2. op = "map_at" => NewBlock(Home[u], arg[u])'
        BY <2>1, <3>1 DEF NewBlock
      <3>3. op = "unmap" => LastIs(Home[u], arg[u])'
        BY <2>1, <3>1 DEF LastIs
      <3> QED
        BY <3>1, <3>2, <3>3 DEF Call
    <2>2. CASE u # t
      <3>1. pc'[u] = pc[u] /\ arg'[u] = arg[u]
        BY <2>2 DEF ListsInv, ThreadTypes
      <3> QED
        BY <3>1, CallFrame DEF ListsInv, ArgInv
    <2> QED
      BY <2>1, <2>2
  <1> QED
    BY <1>2, <1>3, <1>4, <1>5 DEF ListsInv, ArgInv

LEMMA CallMapAtLists ==
    ASSUME ListsInv, NEW t \in Thread, NEW b \in Extra[Home[t]], CallMapAt(t, b)
    PROVE  ListsInv'
  <1>1. NewBlock(Home[t], b)
    BY DEF CallMapAt, NewBlock, Apart
  <1> QED
    BY <1>1, EnterLists DEF CallMapAt

(* The list of a map, and that it is never empty. *)
LEMMA TheList ==
    ASSUME ListsInv, NEW m \in Driver
    PROVE  \E n \in 1 .. Vmbs - 1 : /\ Lists(list[m], n, mapped[m])
                                    /\ Listed(m) = 0 .. n - 1
  <1>1. PICK n \in 0 .. Vmbs - 1 : Lists(list[m], n, mapped[m])
    BY DEF ListsInv, ListInv
  <1>2. n # 0
    BY <1>1 DEF ListsInv, BlocksInv, Lists
  <1>3. mapped[m] \in SUBSET AllBlocks
    BY DEF ListsInv, BlocksInv
  <1>4. Listed(m) = 0 .. n - 1
    BY <1>1, <1>3, ListedIs
  <1>5. n \in 1 .. Vmbs - 1
    BY <1>2, Sizes
  <1> QED
    BY <1>1, <1>4, <1>5

LEMMA CallUnmapLists ==
    ASSUME ListsInv, NEW t \in Thread, CallUnmap(t)
    PROVE  ListsInv'
  <1>1. PICK m \in Driver : m = Home[t]
    BY Sizes
  <1>2. PICK n \in 1 .. Vmbs - 1 : Lists(list[m], n, mapped[m]) /\ Listed(m) = 0 .. n - 1
    BY TheList
  <1>3. n - 1 \in Listed(m) /\ \A h \in Listed(m) : h + 1 \notin Listed(m) <=> h = n - 1
    BY <1>2, Sizes
  <1>4. LastBlock(m) = list[m][n - 1]
    BY <1>3 DEF LastBlock
  <1>5. list[m][n - 1] \in mapped[m]
    BY <1>2, Sizes DEF Lists
  <1>6. LastBlock(m) \in Extra[m] /\ Enter(t, LastBlock(m), "unmap")
    BY <1>1 DEF CallUnmap
  <1>7. LastIs(m, LastBlock(m))
    BY <1>2, <1>4, <1>5, <1>6 DEF LastIs
  <1> QED
    BY <1>1, <1>6, <1>7, EnterLists


(* In the system driver.  Only the thread with map_lock is between ReadHeap *)
(* and the release, so the copy is its own.                                *)
LEMMA CallStep ==
    ASSUME ListsInv, NEW t \in Thread, NEW l \in At, l # "run",
           pc[t] # "run", pc' = [pc EXCEPT ![t] = l],
           UNCHANGED <<runnable, arg, current_map, loaded_map>>,
           map_lock \in {t, Unlocked},
           IF l \in Holding THEN map_lock' = t ELSE map_lock' = Unlocked
    PROVE  /\ ThreadTypes' /\ CallInv'
           /\ \A u \in Thread : u # t => /\ pc'[u] = pc[u] /\ pc[u] \notin Holding
                                         /\ pc[u] # "run" => Home[u] # Home[t]
  <1>1. ThreadTypes'
    BY StepInCall DEF ListsInv
  <1>2. pc \in [Thread -> At] /\ Unlocked \notin Thread
    BY Sizes DEF ListsInv, ThreadTypes
  <1>3. \A u \in Thread : u # t => /\ pc'[u] = pc[u] /\ pc[u] \notin Holding
                                   /\ pc[u] # "run" => Home[u] # Home[t]
    BY <1>2 DEF ListsInv, CallInv
  <1>4. pc'[t] = l
    BY <1>2
  <1>5. \A u \in Thread : map_lock' = u <=> pc'[u] \in Holding
    BY <1>2, <1>3, <1>4
  <1>6. \A u \in Thread : pc'[u] = "run" <=> pc[u] = "run"
    BY <1>3, <1>4
  <1>7. \A u, v \in Thread : Home[u] = Home[v] /\ pc'[u] # "run" /\ pc'[v] # "run" => u = v
    BY <1>6 DEF ListsInv, CallInv
  <1> QED
    BY <1>1, <1>3, <1>5, <1>7 DEF CallInv

LEMMA ReadHeapLists ==
    ASSUME ListsInv, NEW t \in Thread, ReadHeap(t)
    PROVE  ListsInv'
  <1> USE DEF ReadHeap
  <1>1. PICK l : l = Inside[pc[t]]
    OBVIOUS
  <1>2. /\ pc[t] = "map_at" => l = "map_at2"
        /\ pc[t] = "unmap" => l = "unmap2"
        /\ l \in {"map_at2", "unmap2"}
    BY <1>1 DEF Inside
  <1>3. l \in At /\ l \in Holding /\ l # "run" /\ pc[t] # "run"
    BY <1>2 DEF At, Holding
  <1>4. pc' = [pc EXCEPT ![t] = l] /\ pc'[t] = l
    BY <1>1 DEF ListsInv, ThreadTypes
  <1>5. /\ ThreadTypes' /\ CallInv'
        /\ \A u \in Thread : u # t => pc'[u] = pc[u] /\ pc[u] \notin Holding
    BY <1>3, <1>4, CallStep DEF LockIsFree
  <1>6. PICK m \in Driver : m = Home[t]
    BY Sizes
  <1>7. /\ list[m] \in [0 .. Vmbs - 1 -> AllBlocks \union {NoBlock, Junk}]
        /\ vmbs \in [0 .. Vmbs -> AllBlocks \union {NoBlock, Junk}] /\ Vmbs \in Nat
        /\ vmbs' = [h \in 0 .. Vmbs |-> IF h < Vmbs THEN list[m][h] ELSE vmbs[h]]
    BY <1>6, Sizes DEF ListsInv, ListInv
  <1>8. /\ vmbs' \in [0 .. Vmbs -> AllBlocks \union {NoBlock, Junk}]
        /\ \A h \in 0 .. Vmbs - 1 : vmbs'[h] = list[m][h]
    <2> DEFINE B == AllBlocks \union {NoBlock, Junk}
               f == list[m]
    <2>1. /\ f \in [0 .. Vmbs - 1 -> B] /\ vmbs \in [0 .. Vmbs -> B] /\ Vmbs \in Nat
          /\ vmbs' = [h \in 0 .. Vmbs |-> IF h < Vmbs THEN f[h] ELSE vmbs[h]]
      BY <1>7
    <2> HIDE DEF B, f
    <2>2. \A h \in 0 .. Vmbs : h < Vmbs => h \in 0 .. Vmbs - 1
      BY <2>1
    <2>3. vmbs' \in [0 .. Vmbs -> B]
      BY <2>1, <2>2
    <2>4. \A h \in 0 .. Vmbs - 1 : vmbs'[h] = f[h]
      BY <2>1
    <2>5. QED
      BY <2>3, <2>4 DEF B, f
  <1>9. BlocksInv' /\ ListInv'
    BY <1>8 DEF ListsInv, BlocksInv, ListInv
  <1>10. ASSUME NEW u \in Thread PROVE Call(u)'
    <2>1. CASE u = t
      <3>1. Call(t) /\ list' = list /\ mapped' = mapped /\ arg' = arg
        BY DEF ListsInv, ArgInv
      <3>2. l = "map_at2" => NewBlock(Home[u], arg[u])'
        BY <1>2, <2>1, <3>1 DEF NewBlock, Call
      <3>3. l = "unmap2" => LastIs(Home[u], arg[u])'
        BY <1>2, <2>1, <3>1 DEF LastIs, Call
      <3>4. \A h \in 0 .. Vmbs - 1 : vmbs'[h] = list'[Home[u]][h]
        BY <1>6, <1>8, <2>1, <3>1
      <3> QED
        BY <1>2, <1>4, <2>1, <3>2, <3>3, <3>4 DEF Call
    <2>2. CASE u # t
      BY <1>5, <2>2, CallFrame DEF ListsInv, ArgInv
    <2> QED
      BY <2>1, <2>2
  <1> QED
    BY <1>5, <1>9, <1>10 DEF ListsInv, ArgInv

(* map_at finds the block of no pages, and there is room for another. *)
LEMMA MapAtLists ==
    ASSUME ListsInv, NEW t \in Thread, MapAt(t)
    PROVE  ListsInv'
  <1> USE DEF MapAt
  <1>1. PICK m \in Driver : m = Home[t]
    BY Sizes
  <1>2. /\ Call(t) /\ pc[t] = "map_at2" /\ pc' = [pc EXCEPT ![t] = "write"]
        /\ arg' = arg /\ list' = list /\ mapped' = mapped
    BY DEF ListsInv, ArgInv
  <1>3. "write" \in At /\ "write" \in Holding /\ pc[t] \in Holding
    BY <1>2 DEF At, Holding
  <1>4. map_lock = t /\ map_lock' = t
    BY <1>3 DEF ListsInv, CallInv
  <1>5. /\ ThreadTypes' /\ CallInv'
        /\ \A u \in Thread : u # t => pc'[u] = pc[u] /\ pc[u] \notin Holding
    BY <1>2, <1>3, <1>4, CallStep
  <1>6. /\ arg[t] \in Extra[m] /\ \A e \in mapped[m] : Apart(arg[t], e)
        /\ \A h \in 0 .. Vmbs - 1 : vmbs[h] = list[m][h]
    BY <1>1, <1>2 DEF Call, NewBlock
  <1>7. PICK n \in 1 .. Vmbs - 1 : Lists(list[m], n, mapped[m])
    BY TheList
  <1>8. /\ Vmbs \in Nat /\ n \in Nat
        /\ mapped[m] \subseteq Blocks(m) /\ mapped[m] \subseteq AllBlocks
        /\ arg[t] \in Blocks(m) /\ arg[t] \in AllBlocks
    BY <1>6, <1>7, Sizes, MapFacts DEF ListsInv, BlocksInv
  <1>9. vmbs[n].count = 0 /\ \A j \in 0 .. n - 1 : vmbs[j].count # 0
    <2>1. vmbs[n] = NoBlock /\ \A j \in 0 .. n - 1 : vmbs[j] \in mapped[m]
      BY <1>6, <1>7, <1>8 DEF Lists
    <2> QED
      BY <1>8, <2>1, BlockFacts DEF NoBlock
  <1>10. n = CHOOSE k \in 0 .. Vmbs - 1 : vmbs[k].count = 0 /\ \A j \in 0 .. k - 1 : vmbs[j].count # 0
    <2>1. \A k \in 0 .. Vmbs - 1 : (vmbs[k].count = 0 /\ \A j \in 0 .. k - 1 : vmbs[j].count # 0) <=> k = n
      BY <1>8, <1>9
    <2> QED
      BY <1>8, <2>1
  <1>11. vmbs' = [vmbs EXCEPT ![n] = arg[t], ![n + 1] = NoBlock]
    BY <1>10
  <1>12. arg[t] \notin mapped[m]
    BY <1>6, <1>8, ApartDiffer
  <1>13. /\ vmbs' \in [0 .. Vmbs -> AllBlocks \union {NoBlock, Junk}]
         /\ \A h \in 0 .. n - 1 : vmbs'[h] = list[m][h]
         /\ vmbs'[n] = arg[t] /\ vmbs'[n + 1] = NoBlock
    <2>1. vmbs \in [0 .. Vmbs -> AllBlocks \union {NoBlock, Junk}]
      BY DEF ListsInv, ListInv
    <2>2. n \in 0 .. Vmbs /\ n + 1 \in 0 .. Vmbs /\ n # n + 1
      BY <1>8
    <2>3. \A h \in 0 .. n - 1 : h \in 0 .. Vmbs - 1 /\ h \in 0 .. Vmbs /\ h # n /\ h # n + 1
      BY <1>8
    <2>4. \A h \in 0 .. Vmbs : vmbs'[h] = IF h = n + 1 THEN NoBlock ELSE IF h = n THEN arg[t] ELSE vmbs[h]
      BY <1>11, <2>1, <2>2
    <2>5. vmbs' \in [0 .. Vmbs -> AllBlocks \union {NoBlock, Junk}]
      BY <1>8, <1>11, <2>1
    <2> QED
      BY <1>6, <2>2, <2>3, <2>4, <2>5
  <1>14. Lists(vmbs', n + 1, mapped[m] \union {arg[t]})
    <2>1. PICK S : S = mapped[m]
      OBVIOUS
    <2>2. PICK g : g = vmbs'
      OBVIOUS
    <2>3. PICK f : f = list[m]
      OBVIOUS
    <2>4. PICK b : b = arg[t]
      OBVIOUS
    <2>5. Lists(f, n, S)
      BY <1>7, <2>1, <2>3
    <2>6. /\ b \notin S /\ \A h \in 0 .. n - 1 : g[h] = f[h]
          /\ g[n] = b /\ g[n + 1] = NoBlock
      BY <1>12, <1>13, <2>1, <2>2, <2>3, <2>4
    <2>7. Lists(g, n + 1, S \union {b})
      BY <1>8, <2>5, <2>6, ListGrows
    <2> QED
      BY <2>1, <2>2, <2>4, <2>7
  <1>15. n + 1 \in 0 .. Vmbs - 1
    BY <1>8, <1>14, ListBound
  <1>16. BlocksInv' /\ ListInv'
    BY <1>13 DEF ListsInv, BlocksInv, ListInv
  <1>17. ASSUME NEW u \in Thread PROVE Call(u)'
    <2>1. CASE u = t
      <3>1. pc'[u] = "write"
        BY <2>1 DEF ListsInv, ThreadTypes
      <3>2. Toggled(mapped[m], arg[t]) = mapped[m] \union {arg[t]}
        BY <1>12 DEF Toggled
      <3>3. NewBlock(Home[u], arg[u])'
        BY <1>1, <1>2, <1>6, <2>1 DEF NewBlock
      <3>4. \E k \in 0 .. Vmbs - 1 : Lists(vmbs', k, Toggled(mapped'[Home[u]], arg'[u]))
        BY <1>1, <1>2, <1>14, <1>15, <2>1, <3>2
      <3> QED
        BY <3>1, <3>3, <3>4 DEF Call, NewBlock
    <2>2. CASE u # t
      BY <1>2, <1>5, <2>2, CallFrame DEF ListsInv, ArgInv
    <2> QED
      BY <2>1, <2>2
  <1> QED
    BY <1>5, <1>16, <1>17 DEF ListsInv, ArgInv

(* unmap finds the last block of the list, and ends the list there. *)
LEMMA UnmapLists ==
    ASSUME ListsInv, NEW t \in Thread, Unmap(t)
    PROVE  ListsInv'
  <1>1. PICK m \in Driver : m = Home[t]
    BY Sizes
  <1>2. /\ Call(t) /\ pc[t] = "unmap2" /\ pc' = [pc EXCEPT ![t] = "write"]
        /\ UNCHANGED <<list, loaded_map, runnable, current_map, arg, map_lock, mapped>>
    BY DEF ListsInv, ArgInv, Unmap
  <1>3. "write" \in At /\ "write" \in Holding /\ pc[t] \in Holding
    BY <1>2 DEF At, Holding
  <1>4. map_lock = t /\ map_lock' = t
    BY <1>2, <1>3 DEF ListsInv, CallInv
  <1>5. /\ ThreadTypes' /\ CallInv'
        /\ \A u \in Thread : u # t => pc'[u] = pc[u] /\ pc[u] \notin Holding
    BY <1>2, <1>3, <1>4, CallStep
  <1>6. PICK n \in 1 .. Vmbs - 1 : Lists(list[m], n, mapped[m]) /\ list[m][n - 1] = arg[t]
    BY <1>1, <1>2 DEF Call, LastIs
  <1>7. /\ arg[t] \in Extra[m] /\ arg[t] \in mapped[m]
        /\ \A h \in 0 .. Vmbs - 1 : vmbs[h] = list[m][h]
    BY <1>1, <1>2 DEF Call, LastIs
  <1>8. /\ Vmbs \in Nat /\ n \in Nat \ {0}
        /\ mapped[m] \subseteq Blocks(m) /\ mapped[m] \subseteq AllBlocks
        /\ \A b, e \in mapped[m] : b # e => Apart(b, e)
    BY <1>6, Sizes DEF ListsInv, BlocksInv
  <1>9. \A j \in 0 .. n - 1 : vmbs[j] \in mapped[m] /\ vmbs[j].count # 0 /\ vmbs[j] # NoBlock
    BY <1>6, <1>7, <1>8, BlockFacts DEF Lists
  <1>10. vmbs[n] = NoBlock /\ vmbs[n].count = 0 /\ vmbs[n - 1] = arg[t]
    BY <1>6, <1>7, <1>8 DEF Lists, NoBlock
  <1>11. \A j \in 0 .. n - 2 : vmbs[j].start # arg[t].start
    <2>1. SUFFICES ASSUME NEW j \in 0 .. n - 2 PROVE vmbs[j].start # arg[t].start
      OBVIOUS
    <2>2. vmbs[j] # arg[t]
      BY <1>6, <1>7, <1>8 DEF Lists
    <2>3. vmbs[j] \in mapped[m]
      BY <1>8, <1>9
    <2> QED
      BY <1>7, <1>8, <2>2, <2>3, ApartDiffer
  <1> DEFINE Found(k) == /\ vmbs[k].count # 0 /\ vmbs[k].start = arg[t].start
                         /\ \A j \in 0 .. k - 1 : vmbs[j].count = 0 \/ vmbs[j].start # arg[t].start
  <1>12. \A k \in 0 .. Vmbs - 1 : Found(k) <=> k = n - 1
    <2>1. Found(n - 1)
      BY <1>8, <1>9, <1>10, <1>11
    <2>2. ASSUME NEW k \in 0 .. Vmbs - 1, Found(k) PROVE k = n - 1
      <3>1. n - 1 \in Int /\ k \in Int
        BY <1>8
      <3>2. ~(k < n - 1)
        BY <1>8, <1>11, <2>2
      <3>3. ~(n - 1 < k)
        BY <1>8, <1>9, <1>10, <2>2
      <3> QED
        BY <3>1, <3>2, <3>3
    <2> QED
      BY <2>1, <2>2
  <1>13. n - 1 = CHOOSE k \in 0 .. Vmbs - 1 : Found(k)
    <2> HIDE DEF Found
    <2> QED
      BY <1>8, <1>12
  <1> DEFINE Moved(j) == /\ j >= n - 1 /\ j < Vmbs - 1
                         /\ \A k \in n - 1 .. j : vmbs[k] # NoBlock
  <1>14. vmbs' = [j \in 0 .. Vmbs |-> IF j = n - 1 + 1 THEN NoBlock
                                      ELSE IF Moved(j) THEN vmbs[j + 1] ELSE vmbs[j]]
    BY <1>13 DEF Unmap
  <1>15. Moved(n - 1) /\ \A j \in 0 .. n - 2 : ~Moved(j)
    BY <1>8, <1>9
  <1>16. /\ \A h \in 0 .. n - 2 : vmbs'[h] = list[m][h]
         /\ vmbs'[n - 1] = NoBlock
    <2> HIDE DEF Moved
    <2>1. vmbs'[n - 1] = vmbs[n]
      BY <1>8, <1>14, <1>15
    <2>2. ASSUME NEW h \in 0 .. n - 2 PROVE vmbs'[h] = list[m][h]
      BY <1>7, <1>8, <1>14, <1>15
    <2> QED
      BY <1>10, <2>1, <2>2
  <1>17. vmbs' \in [0 .. Vmbs -> AllBlocks \union {NoBlock, Junk}]
    <2>1. vmbs \in [0 .. Vmbs -> AllBlocks \union {NoBlock, Junk}]
      BY DEF ListsInv, ListInv
    <2>2. \A j \in 0 .. Vmbs : Moved(j) => j + 1 \in 0 .. Vmbs
      BY <1>8
    <2> HIDE DEF Moved
    <2> QED
      BY <1>8, <1>14, <2>1, <2>2
  <1>18. Lists(vmbs', n - 1, mapped[m] \ {arg[t]})
    BY <1>6, <1>8, <1>16, ListShrinks
  <1>19. BlocksInv' /\ ListInv'
    BY <1>2, <1>17 DEF ListsInv, BlocksInv, ListInv
  <1>20. ASSUME NEW u \in Thread PROVE Call(u)'
    <2>1. CASE u = t
      <3>1. pc'[u] = "write"
        BY <1>2, <2>1 DEF ListsInv, ThreadTypes
      <3>2. Toggled(mapped[m], arg[t]) = mapped[m] \ {arg[t]}
        BY <1>7 DEF Toggled
      <3>3. arg'[u] \in Extra[Home[u]] /\ arg'[u] \in mapped'[Home[u]]
        BY <1>1, <1>2, <1>7, <2>1
      <3>4. \E k \in 0 .. Vmbs - 1 : Lists(vmbs', k, Toggled(mapped'[Home[u]], arg'[u]))
        BY <1>1, <1>2, <1>8, <1>18, <2>1, <3>2
      <3> QED
        BY <3>1, <3>3, <3>4 DEF Call
    <2>2. CASE u # t
      BY <1>2, <1>5, <2>2, CallFrame DEF ListsInv, ArgInv
    <2> QED
      BY <2>1, <2>2
  <1> QED
    BY <1>5, <1>19, <1>20 DEF ListsInv, ArgInv


(* WriteHeap publishes the copy: the map has the block, or it has it no    *)
(* longer.                                                                 *)
LEMMA WriteHeapLists ==
    ASSUME ListsInv, NEW t \in Thread, WriteHeap(t)
    PROVE  ListsInv'
  <1>1. PICK m \in Driver : m = Home[t]
    BY Sizes
  <1>2. PICK b : b = arg[t]
    OBVIOUS
  <1>3. PICK S : S = mapped[m]
    OBVIOUS
  <1>4. /\ Call(t) /\ pc[t] = "write" /\ pc' = [pc EXCEPT ![t] = "leave"]
        /\ UNCHANGED <<vmbs, loaded_map, runnable, current_map, arg, map_lock>>
        /\ list' = [list EXCEPT ![m] = [h \in 0 .. Vmbs - 1 |-> vmbs[h]]]
        /\ mapped' = [mapped EXCEPT ![m] = Toggled(S, b)]
    BY <1>1, <1>2, <1>3 DEF ListsInv, ArgInv, WriteHeap, Toggled, BlocksInv
  <1>5. "leave" \in At /\ "leave" \in Holding /\ pc[t] \in Holding
    BY <1>4 DEF At, Holding
  <1>6. map_lock = t /\ map_lock' = t
    BY <1>4, <1>5 DEF ListsInv, CallInv
  <1>7. /\ ThreadTypes' /\ CallInv'
        /\ \A u \in Thread : u # t => /\ pc'[u] = pc[u] /\ pc[u] \notin Holding
                                      /\ pc[u] # "run" => Home[u] # m
    BY <1>1, <1>4, <1>5, <1>6, CallStep
  <1>8. PICK n \in 0 .. Vmbs - 1 : Lists(vmbs, n, Toggled(S, b))
    BY <1>1, <1>2, <1>3, <1>4 DEF Call
  <1>9. b \in Extra[m] /\ (b \in S \/ \A e \in S : Apart(b, e))
    BY <1>1, <1>2, <1>3, <1>4 DEF Call, NewBlock
  <1>10. /\ list \in [Driver -> [0 .. Vmbs - 1 -> AllBlocks \union {NoBlock, Junk}]]
         /\ vmbs \in [0 .. Vmbs -> AllBlocks \union {NoBlock, Junk}]
         /\ mapped \in [Driver -> SUBSET AllBlocks] /\ Vmbs \in Nat
    BY Sizes DEF ListsInv, ListInv, BlocksInv
  <1>11. /\ S \subseteq Blocks(m) /\ Code[m] \in S
         /\ \A e, d \in S : e # d => Apart(e, d)
    BY <1>3 DEF ListsInv, BlocksInv
  <1>12. /\ Toggled(S, b) \subseteq Blocks(m) /\ Code[m] \in Toggled(S, b)
         /\ \A e, d \in Toggled(S, b) : e # d => Apart(e, d)
         /\ Toggled(S, b) \in SUBSET AllBlocks
    <2>1. b \in Blocks(m) /\ b # Code[m] /\ Blocks(m) \subseteq AllBlocks
      BY <1>9, MapFacts
    <2>2. CASE b \in S
      BY <1>11, <2>1, <2>2 DEF Toggled
    <2>3. CASE b \notin S
      <3>1. \A e \in S : Apart(b, e) /\ Apart(e, b)
        BY <1>9, <2>3, ApartSymmetric
      <3> QED
        BY <1>11, <2>1, <2>3, <3>1 DEF Toggled
    <2> QED
      BY <2>2, <2>3
  <1>13. /\ list'[m] = [h \in 0 .. Vmbs - 1 |-> vmbs[h]]
         /\ mapped'[m] = Toggled(S, b)
         /\ \A d \in Driver : d # m => list'[d] = list[d] /\ mapped'[d] = mapped[d]
    BY <1>4, <1>10
  <1>14. /\ list' \in [Driver -> [0 .. Vmbs - 1 -> AllBlocks \union {NoBlock, Junk}]]
         /\ mapped' \in [Driver -> SUBSET AllBlocks]
    <2>1. [h \in 0 .. Vmbs - 1 |-> vmbs[h]] \in [0 .. Vmbs - 1 -> AllBlocks \union {NoBlock, Junk}]
      BY <1>10
    <2> QED
      BY <1>4, <1>10, <1>12, <2>1
  <1>15. Lists(list'[m], n, mapped'[m])
    <2>1. 0 .. n - 1 \subseteq 0 .. Vmbs - 1 /\ n \in 0 .. Vmbs - 1
      BY <1>10
    <2>2. list'[m][n] = vmbs[n] /\ \A h \in 0 .. n - 1 : list'[m][h] = vmbs[h]
      BY <1>13, <2>1
    <2> QED
      BY <1>8, <1>13, <2>2 DEF Lists
  <1>16. BlocksInv'
    BY <1>12, <1>13, <1>14 DEF ListsInv, BlocksInv
  <1>17. ListInv'
    <2>1. ASSUME NEW d \in Driver PROVE \E k \in 0 .. Vmbs - 1 : Lists(list'[d], k, mapped'[d])
      BY <1>13, <1>15 DEF ListsInv, ListInv
    <2> QED
      BY <1>4, <1>10, <1>14, <2>1 DEF ListInv
  <1>18. ASSUME NEW u \in Thread PROVE Call(u)'
    <2>1. CASE u = t
      <3>1. pc'[u] = "leave"
        BY <1>4, <2>1 DEF ListsInv, ThreadTypes
      <3> QED
        BY <3>1 DEF Call
    <2>2. CASE u # t /\ pc[u] = "run"
      BY <1>7, <2>2 DEF Call
    <2>3. CASE u # t /\ pc[u] # "run"
      <3>1. Home[u] \in Driver /\ Home[u] # m /\ arg'[u] = arg[u]
        BY <1>4, <1>7, <2>3, Sizes
      <3> QED
        BY <1>4, <1>7, <1>13, <2>3, <3>1, CallFrame DEF ListsInv, ArgInv
    <2> QED
      BY <2>1, <2>2, <2>3
  <1> QED
    BY <1>7, <1>16, <1>17, <1>18 DEF ListsInv, ArgInv

LEMMA ReleaseLockLists ==
    ASSUME ListsInv, NEW t \in Thread, ReleaseLock(t)
    PROVE  ListsInv'
  <1> USE DEF ReleaseLock
  <1>1. "return" \in At /\ "return" \notin Holding /\ pc[t] \in Holding
    BY DEF At, Holding
  <1>2. map_lock = t
    BY <1>1 DEF ListsInv, CallInv
  <1>3. /\ ThreadTypes' /\ CallInv'
        /\ \A u \in Thread : u # t => pc'[u] = pc[u] /\ pc[u] \notin Holding
    BY <1>1, <1>2, CallStep
  <1>4. BlocksInv' /\ ListInv'
    BY DEF ListsInv, BlocksInv, ListInv
  <1>5. ASSUME NEW u \in Thread PROVE Call(u)'
    <2>1. CASE u = t
      <3>1. pc'[u] = "return"
        BY <2>1 DEF ListsInv, ThreadTypes
      <3> QED
        BY <3>1 DEF Call
    <2>2. CASE u # t
      BY <1>3, <2>2, CallFrame DEF ListsInv, ArgInv
    <2> QED
      BY <2>1, <2>2
  <1> QED
    BY <1>3, <1>4, <1>5 DEF ListsInv, ArgInv

LEMMA ReturnLists ==
    ASSUME ListsInv, NEW t \in Thread, Return(t)
    PROVE  ListsInv'
  <1> USE DEF Return
  <1>1. "run" \in At /\ "run" \notin Holding /\ "return" \notin Holding
    BY DEF At, Holding
  <1>2. /\ pc \in [Thread -> At] /\ arg \in [Thread -> AllBlocks \union {NoBlock}]
        /\ runnable = t
    BY DEF ListsInv, ThreadTypes
  <1>3. /\ pc'[t] = "run" /\ arg'[t] = NoBlock
        /\ \A u \in Thread : u # t => pc'[u] = pc[u] /\ arg'[u] = arg[u]
    BY <1>2
  <1>4. ThreadTypes'
    <2>1. pc' \in [Thread -> At] /\ arg' \in [Thread -> AllBlocks \union {NoBlock}]
      BY <1>1, <1>2
    <2>2. current_map' = [u \in Thread |-> IF pc'[u] = "run" THEN Home[u] ELSE System]
      BY <1>3 DEF ListsInv, ThreadTypes
    <2> QED
      BY <1>2, <1>3, <2>1, <2>2 DEF ThreadTypes, LoadMap
  <1>5. CallInv'
    <2>1. \A u \in Thread : pc'[u] \in Holding <=> pc[u] \in Holding
      BY <1>1, <1>3
    <2>2. \A u \in Thread : pc'[u] # "run" => pc[u] # "run"
      BY <1>3
    <2> QED
      BY <2>1, <2>2 DEF ListsInv, CallInv
  <1>6. BlocksInv' /\ ListInv'
    BY DEF ListsInv, BlocksInv, ListInv
  <1>7. ASSUME NEW u \in Thread PROVE Call(u)'
    <2>1. CASE u = t
      BY <1>3, <2>1 DEF Call
    <2>2. CASE u # t
      BY <1>3, <2>2, CallFrame DEF ListsInv, ArgInv
    <2> QED
      BY <2>1, <2>2
  <1> QED
    BY <1>4, <1>5, <1>6, <1>7 DEF ListsInv, ArgInv

LEMMA InitLists == Init => ListsInv
  <1> SUFFICES ASSUME Init PROVE ListsInv
    OBVIOUS
  <1>1. PICK rest \in {NoBlock, Junk} :
           list = [m \in Driver |-> [h \in 0 .. Vmbs - 1 |->
                     IF h = 0 THEN Code[m] ELSE IF h = 1 THEN Data[m]
                     ELSE IF h = 2 THEN NoBlock ELSE rest]]
    BY DEF Init
  <1>2. Vmbs \in Nat /\ Home \in [Thread -> Driver] /\ Unlocked \notin Thread
    BY Sizes
  <1>3. ThreadTypes
    BY <1>2 DEF Init, ThreadTypes, At
  <1>4. CallInv
    BY <1>2 DEF Init, CallInv, Holding
  <1>5. BlocksInv
    <2>1. \A m \in Driver : Code[m] \in AllBlocks /\ Data[m] \in AllBlocks
      BY MapFacts
    <2>2. mapped \in [Driver -> SUBSET AllBlocks]
      BY <2>1 DEF Init
    <2>3. ASSUME NEW m \in Driver
          PROVE  /\ mapped[m] \subseteq Blocks(m) /\ Code[m] \in mapped[m]
                 /\ \A b, e \in mapped[m] : b # e => Apart(b, e)
      BY MapFacts, ApartSymmetric DEF Init
    <2> QED
      BY <2>2, <2>3 DEF BlocksInv
  <1>6. ASSUME NEW m \in Driver PROVE 2 \in 0 .. Vmbs - 1 /\ Lists(list[m], 2, mapped[m])
    <2>1. Cardinality({Code[m], Data[m]}) = 2 /\ {Code[m], Data[m]} \subseteq Blocks(m)
      <3>1. IsFiniteSet({Code[m]}) /\ Cardinality({Code[m]}) = 1
        BY FS_Singleton
      <3>2. Data[m] \notin {Code[m]} /\ {Code[m]} \union {Data[m]} = {Code[m], Data[m]}
        BY MapFacts
      <3>3. Cardinality({Code[m]} \union {Data[m]}) = 1 + 1
        BY <3>1, <3>2, FS_AddElement
      <3> QED
        BY <3>2, <3>3, MapFacts
    <2>2. 2 < Vmbs
      <3>1. Cardinality(Blocks(m)) \in Nat /\ Cardinality(Blocks(m)) < Vmbs
        BY MapFacts, FS_CardinalityType
      <3>2. Cardinality({Code[m], Data[m]}) <= Cardinality(Blocks(m))
        BY <2>1, MapFacts, FS_Subset
      <3> QED
        BY <1>2, <2>1, <3>1, <3>2
    <2>3. 0 .. 2 - 1 = {0, 1}
      OBVIOUS
    <2>4. list[m][0] = Code[m] /\ list[m][1] = Data[m] /\ list[m][2] = NoBlock
      BY <1>1, <1>2, <2>2
    <2>5. mapped[m] = {Code[m], Data[m]} /\ Code[m] # Data[m]
      BY MapFacts DEF Init
    <2> QED
      BY <1>2, <2>2, <2>3, <2>4, <2>5 DEF Lists
  <1>7. ListInv
    <2>1. list \in [Driver -> [0 .. Vmbs - 1 -> AllBlocks \union {NoBlock, Junk}]]
      BY <1>1, MapFacts
    <2>2. vmbs \in [0 .. Vmbs -> AllBlocks \union {NoBlock, Junk}]
      BY DEF Init
    <2> QED
      BY <1>6, <2>1, <2>2 DEF ListInv
  <1>8. ArgInv
    BY DEF Init, ArgInv, Call
  <1> QED
    BY <1>3, <1>4, <1>5, <1>7, <1>8 DEF ListsInv

LEMMA NextLists ==
    ASSUME ListsInv, [Next]_vars
    PROVE  ListsInv'
  <1>1. CASE UNCHANGED vars
    BY <1>1, SameLists DEF vars
  <1>2. CASE Next
    <2>1. PICK t \in Thread :
             \/ Switch(t)
             \/ \E v \in Touched : TableWalk(t, v) \/ Fault(t, v)
             \/ \E b \in Extra[Home[t]] : CallMapAt(t, b)
             \/ CallUnmap(t)
             \/ ReadHeap(t) \/ MapAt(t) \/ Unmap(t) \/ WriteHeap(t)
             \/ ReleaseLock(t) \/ Return(t)
      BY <1>2 DEF Next
    <2>2. ASSUME NEW v \in Touched, TableWalk(t, v) \/ Fault(t, v) PROVE ListsInv'
      BY <2>2, SameLists DEF TableWalk, Fault
    <2> QED
      BY <2>1, <2>2, SwitchLists, CallMapAtLists, CallUnmapLists, ReadHeapLists, MapAtLists,
         UnmapLists, WriteHeapLists, ReleaseLockLists, ReturnLists
  <1> QED
    BY <1>1, <1>2

(* The inductive invariant of the calls to the system driver: see ListsInv. *)
THEOREM TranslationLists == Spec => []ListsInv
  <1>1. ListsInv /\ [Next]_vars => ListsInv'
    BY NextLists
  <1> QED
    BY <1>1, InitLists, PTL DEF Spec

(* The list of a map holds the blocks it was given, each once, whatever    *)
(* calls of map_at and unmap interleave.                                   *)
THEOREM TranslationListsRight == Spec => []ListsRight
  <1>1. ListsInv => ListsRight
    <2> SUFFICES ASSUME ListsInv, NEW m \in Driver
                 PROVE  /\ {list[m][h] : h \in Listed(m)} = mapped[m]
                        /\ Cardinality(Listed(m)) = Cardinality(mapped[m])
      BY DEF ListsRight
    <2>1. PICK n \in 1 .. Vmbs - 1 : Lists(list[m], n, mapped[m]) /\ Listed(m) = 0 .. n - 1
      BY TheList
    <2>2. n \in Nat
      BY Sizes
    <2>3. {list[m][h] : h \in Listed(m)} = mapped[m]
      <3>1. ASSUME NEW b \in mapped[m] PROVE \E h \in Listed(m) : b = list[m][h]
        BY <2>1 DEF Lists
      <3>2. ASSUME NEW h \in Listed(m) PROVE list[m][h] \in mapped[m]
        BY <2>1 DEF Lists
      <3> QED
        BY <3>1, <3>2
    <2>4. Cardinality(mapped[m]) = n
      BY <2>1, <2>2, ListSize
    <2>5. Cardinality(0 .. n - 1) = n
      <3>1. 0 \in Int /\ n - 1 \in Int
        BY <2>2
      <3>2. Cardinality(0 .. n - 1) = IF 0 > n - 1 THEN 0 ELSE (n - 1) - 0 + 1
        BY <3>1, FS_Interval
      <3> QED
        BY <2>2, <3>2
    <2> QED
      BY <2>1, <2>3, <2>4, <2>5
  <1> QED
    BY <1>1, TranslationLists, PTL


-----------------------------------------------------------------------------
(* Arithmetic of page numbers. *)
LEMMA Multiples ==
    ASSUME NEW a \in Int, NEW b \in Int, NEW E \in Nat \ {0}
    PROVE  /\ a <= b => a * E <= b * E
           /\ a < b => a * E + E <= b * E
           /\ (a + 1) * E = a * E + E
           /\ (a - b) * E = a * E - b * E
           /\ (a + b) * E = a * E + b * E
           /\ a * E \in Int
  <1>1. (a + 1) * E = a * E + E /\ (a - b) * E = a * E - b * E /\ (a + b) * E = a * E + b * E
    OBVIOUS
  <1>2. a <= b => a * E <= b * E
    <2>1. a <= b => (b - a) * E >= 0
      OBVIOUS
    <2> QED
      BY <2>1
  <1>3. a < b => a * E + E <= b * E
    OBVIOUS
  <1> QED
    BY <1>1, <1>2, <1>3

LEMMA Division ==
    ASSUME NEW E \in Nat \ {0}, NEW v \in Int
    PROVE  /\ v = (v \div E) * E + (v % E)
           /\ v \div E \in Int /\ v % E \in 0 .. E - 1
           /\ v \in Nat => v \div E \in Nat
  OBVIOUS

LEMMA Unique ==
    ASSUME NEW E \in Nat \ {0}, NEW v \in Int, NEW q \in Int, NEW r \in 0 .. E - 1,
           v = q * E + r
    PROVE  v \div E = q /\ v % E = r
  <1>1. PICK z, s : z = v \div E /\ s = v % E
    OBVIOUS
  <1>2. z \in Int /\ s \in 0 .. E - 1 /\ v = z * E + s
    BY <1>1, Division
  <1>3. ~(z < q)
    BY <1>2, Multiples
  <1>4. ~(q < z)
    BY <1>2, Multiples
  <1>5. z = q
    BY <1>2, <1>3, <1>4
  <1> QED
    BY <1>1, <1>2, <1>5

(* The index in the first level table is that of the second level one over *)
(* the size of a table.                                                    *)
LEMMA DivideTwice ==
    ASSUME NEW E \in Nat \ {0}, NEW v \in Nat
    PROVE  v \div (E * E) = (v \div E) \div E
  <1>1. PICK q, r : q = v \div E /\ r = v % E
    OBVIOUS
  <1>2. q \in Nat /\ r \in 0 .. E - 1 /\ v = q * E + r
    BY <1>1
  <1>3. PICK z, s : z = q \div E /\ s = q % E
    OBVIOUS
  <1>4. z \in Nat /\ s \in 0 .. E - 1 /\ q = z * E + s
    BY <1>2, <1>3
  <1>5. q * E = z * (E * E) + s * E
    BY <1>2, <1>4
  <1>6. s * E \in Nat /\ s * E + E <= E * E
    <2>1. s \in Int /\ E \in Int /\ s < E
      BY <1>4
    <2> QED
      BY <1>4, <2>1, Multiples
  <1>7. E * E \in Nat \ {0} /\ s * E + r \in 0 .. (E * E) - 1 /\ v = z * (E * E) + (s * E + r)
    BY <1>2, <1>4, <1>5, <1>6
  <1>8. v \div (E * E) = z
    <2>1. PICK N : N = E * E
      OBVIOUS
    <2>2. PICK u : u = s * E + r
      OBVIOUS
    <2>3. N \in Nat \ {0} /\ u \in 0 .. N - 1 /\ v = z * N + u /\ z \in Int /\ v \in Int
      BY <1>4, <1>7, <2>1, <2>2
    <2>4. v \div N = z
      BY <2>3, Unique
    <2> QED
      BY <2>1, <2>4
  <1> QED
    BY <1>1, <1>3, <1>8

LEMMA SamePage ==
    ASSUME NEW E \in Nat \ {0}, NEW v \in Nat, NEW w \in Nat,
           v \div E = w \div E, v % E = w % E
    PROVE  v = w
  <1>1. v = (v \div E) * E + (v % E) /\ w = (w \div E) * E + (w % E)
    OBVIOUS
  <1> QED
    BY <1>1

(* An aligned block has the whole of each aligned piece it has a page of.  *)
InPiece(N, s, e, v, w) ==
    w \in s .. s + e - 1 /\ ((v - s) \div N) * N + (w % N) = w - s

LEMMA WholePiece ==
    ASSUME NEW N \in Nat \ {0}, NEW s \in Nat, NEW e \in Nat, s % N = 0, e % N = 0,
           NEW v \in s .. s + e - 1, NEW w \in Nat, w \div N = v \div N
    PROVE  InPiece(N, s, e, v, w)
  <1>1. PICK a, d, q, r, x : a = s \div N /\ d = e \div N /\ q = v \div N /\ r = v % N /\ x = w % N
    OBVIOUS
  <1>2. /\ a \in Nat /\ d \in Nat /\ s = a * N /\ e = d * N
        /\ q \in Nat /\ r \in 0 .. N - 1 /\ v = q * N + r
        /\ x \in 0 .. N - 1 /\ w = q * N + x
    <2>1. s = a * N + 0 /\ e = d * N + 0 /\ a \in Nat /\ d \in Nat
      BY <1>1
    <2>2. v \in Nat /\ v = q * N + r /\ q \in Nat /\ r \in 0 .. N - 1
      BY <1>1
    <2>3. w = q * N + x /\ x \in 0 .. N - 1
      BY <1>1
    <2> QED
      BY <2>1, <2>2, <2>3, Multiples
  <1>3. /\ a * N \in Int /\ d * N \in Int /\ q * N \in Int /\ (a + d) * N = a * N + d * N
        /\ (q - a) * N = q * N - a * N
    BY <1>2, Multiples
  <1>4. a <= q
    <2>1. q < a => q * N + N <= a * N
      BY <1>2, Multiples
    <2> QED
      BY <1>2, <1>3, <2>1
  <1>5. q < a + d
    <2>1. a + d <= q => (a + d) * N <= q * N
      BY <1>2, Multiples
    <2> QED
      BY <1>2, <1>3, <2>1
  <1>6. a * N <= q * N /\ q * N + N <= (a + d) * N
    <2>1. a + d \in Int
      BY <1>2
    <2> QED
      BY <1>2, <1>4, <1>5, <2>1, Multiples
  <1>7. w \in s .. s + e - 1
    BY <1>2, <1>3, <1>6
  <1>8. (v - s) \div N = q - a
    <2>1. PICK u, z : u = v - s /\ z = q - a
      OBVIOUS
    <2>2. u \in Int /\ z \in Int /\ u = z * N + r /\ r \in 0 .. N - 1
      BY <1>2, <1>3, <2>1
    <2>3. u \div N = z
      BY <2>2, Unique
    <2> QED
      BY <2>1, <2>3
  <1>9. ((v - s) \div N) * N + x = w - s
    BY <1>2, <1>3, <1>8
  <1> QED
    BY <1>1, <1>7, <1>9 DEF InPiece

LEMMA Multiple ==
    ASSUME NEW E \in Nat \ {0}, NEW s \in Nat, s % (E * E) = 0
    PROVE  s % E = 0
  <1>1. PICK N : N = E * E
    OBVIOUS
  <1>2. PICK z : z = s \div N
    OBVIOUS
  <1>3. z \in Nat /\ s = z * (E * E) + 0
    <2>1. N \in Nat \ {0} /\ s % N = 0
      BY <1>1
    <2>2. s = (s \div N) * N + (s % N) /\ s \div N \in Nat
      BY <2>1
    <2> QED
      BY <1>1, <1>2, <2>1, <2>2
  <1>4. PICK q : q = z * E
    OBVIOUS
  <1>5. s = q * E + 0 /\ q \in Int /\ 0 \in 0 .. E - 1 /\ s \in Int
    BY <1>3, <1>4
  <1> QED
    BY <1>5, Unique


-----------------------------------------------------------------------------
(* Pages, their indices in the tables, and the places of blocks. *)
LEMMA PageIndex ==
    ASSUME NEW v \in VirtualPage
    PROVE  /\ v \in Nat
           /\ v \div (Entries * Entries) \in 0 .. Regions - 1
           /\ (v \div Entries) % Entries \in 0 .. Entries - 1
           /\ v % Entries \in 0 .. Entries - 1
  <1>1. Entries \in Nat \ {0} /\ Regions \in Nat \ {0}
    BY Sizes
  <1>2. PICK N : N = Entries * Entries
    OBVIOUS
  <1>3. N \in Nat \ {0} /\ Regions * Entries * Entries = Regions * N
    BY <1>1, <1>2
  <1>4. v \in Nat /\ v < Regions * N
    BY <1>1, <1>3 DEF VirtualPage
  <1>5. PICK q, r : q = v \div N /\ r = v % N
    OBVIOUS
  <1>6. q \in Nat /\ r \in 0 .. N - 1 /\ v = q * N + r
    BY <1>3, <1>4, <1>5
  <1>7. q < Regions
    <2>1. Regions <= q => Regions * N <= q * N
      BY <1>1, <1>3, <1>6, Multiples
    <2> QED
      BY <1>1, <1>3, <1>4, <1>6, <2>1
  <1>8. v \div Entries \in Nat
    BY <1>1, <1>4
  <1>9. (v \div Entries) % Entries \in 0 .. Entries - 1 /\ v % Entries \in 0 .. Entries - 1
    BY <1>1, <1>4, <1>8
  <1> QED
    BY <1>1, <1>2, <1>4, <1>5, <1>6, <1>7, <1>9

LEMMA SameTable ==
    ASSUME NEW v \in VirtualPage, NEW w \in VirtualPage,
           v \div (Entries * Entries) = w \div (Entries * Entries),
           (v \div Entries) % Entries = (w \div Entries) % Entries
    PROVE  v \div Entries = w \div Entries
  <1>1. Entries \in Nat \ {0} /\ v \in Nat /\ w \in Nat
    BY Sizes, PageIndex
  <1>2. PICK z, q : z = v \div Entries /\ q = w \div Entries
    OBVIOUS
  <1>3. z \in Nat /\ q \in Nat
    BY <1>1, <1>2
  <1>4. z \div Entries = q \div Entries
    BY <1>1, <1>2, DivideTwice
  <1>5. z % Entries = q % Entries
    BY <1>2
  <1>6. z = q
    BY <1>1, <1>3, <1>4, <1>5, SamePage
  <1> QED
    BY <1>2, <1>6

LEMMA BlockPages ==
    ASSUME BlocksInv, NEW m \in Driver, NEW b \in mapped[m], NEW v \in PagesOf(b)
    PROVE  /\ b \in Blocks(m) /\ b \in AllBlocks /\ v \in VirtualPage /\ v \in Nat
           /\ b.memory + (v - b.start) \in Place(m, v)
           /\ b.memory + (v - b.start) \in Memory
           /\ b.memory + (v - b.start) # None
  <1>1. b \in Blocks(m) /\ b \in AllBlocks
    BY DEF BlocksInv
  <1>2. b.start \in Nat /\ b.count \in Nat \ {0} /\ b.memory \in Nat \ {0} /\ PagesOf(b) \subseteq VirtualPage
    BY <1>1, BlockFacts
  <1>3. v \in b.start .. b.start + b.count - 1
    BY DEF PagesOf
  <1>4. v \in Nat /\ v - b.start \in 0 .. b.count - 1
    BY <1>2, <1>3
  <1>5. /\ b.memory + (v - b.start) \in b.memory .. b.memory + b.count - 1
        /\ b.memory + (v - b.start) # None
    BY <1>2, <1>4 DEF None
  <1>6. b.memory + (v - b.start) \in Memory
    BY <1>1, <1>5 DEF Memory
  <1> QED
    BY <1>1, <1>2, <1>4, <1>5, <1>6 DEF Place

LEMMA PlaceInMemory ==
    ASSUME BlocksInv, NEW m \in Driver, NEW v, NEW z \in Place(m, v)
    PROVE  z \in Memory /\ z # None
  <1>1. PICK b \in mapped[m] : v \in PagesOf(b) /\ z = b.memory + (v - b.start)
    BY DEF Place
  <1> QED
    BY <1>1, BlockPages

(* What find_and_map_memory puts in an entry is right for every page that  *)
(* the entry translates.                                                   *)
Piece(b, v, extent) == b.memory + (Offset(b, v) \div extent) * extent

LEMMA PieceIsRight ==
    ASSUME BlocksInv, NEW m \in Driver, NEW b \in mapped[m], NEW v \in PagesOf(b),
           NEW extent \in Nat \ {0}, b.start % extent = 0, b.count % extent = 0
    PROVE  /\ \A w \in VirtualPage : w \div extent = v \div extent =>
                 Piece(b, v, extent) + (w % extent) \in Place(m, w)
           /\ Piece(b, v, extent) \in Memory /\ Piece(b, v, extent) # None
  <1>1. b \in AllBlocks /\ v \in VirtualPage /\ v \in Nat
    BY BlockPages
  <1>2. PICK s, e, z : s = b.start /\ e = b.count /\ z = b.memory
    OBVIOUS
  <1>3. s \in Nat /\ e \in Nat /\ z \in Nat /\ s % extent = 0 /\ e % extent = 0
    BY <1>1, <1>2, BlockFacts
  <1>4. PagesOf(b) = s .. s + e - 1
    BY <1>2 DEF PagesOf
  <1>5. PICK d : d = ((v - s) \div extent) * extent
    OBVIOUS
  <1>6. d \in Int /\ Piece(b, v, extent) = z + d
    <2>1. v - s \in Int
      BY <1>1, <1>3
    <2>2. (v - s) \div extent \in Int
      BY <2>1
    <2>3. d \in Int
      BY <1>5, <2>2
    <2> QED
      BY <1>2, <1>5, <2>3 DEF Piece, Offset
  <1>7. ASSUME NEW w \in Nat, w \div extent = v \div extent
        PROVE  w \in PagesOf(b) /\ d + (w % extent) = w - s /\ w % extent \in Nat
    <2>1. v \in s .. s + e - 1 /\ w \div extent = v \div extent
      BY <1>4, <1>7
    <2>2. InPiece(extent, s, e, v, w)
      BY <1>3, <2>1, WholePiece
    <2> QED
      BY <1>4, <1>5, <2>2 DEF InPiece
  <1>8. ASSUME NEW w \in VirtualPage, w \div extent = v \div extent
        PROVE  Piece(b, v, extent) + (w % extent) \in Place(m, w)
    <2>1. w \in Nat
      BY PageIndex
    <2>2. w \in PagesOf(b) /\ d + (w % extent) = w - s /\ w % extent \in Nat
      BY <1>7, <1>8, <2>1
    <2>3. Piece(b, v, extent) + (w % extent) = b.memory + (w - b.start)
      BY <1>2, <1>3, <1>6, <2>1, <2>2
    <2> QED
      BY <2>2, <2>3, BlockPages
  <1>9. Piece(b, v, extent) \in Memory /\ Piece(b, v, extent) # None
    <2>1. PICK w : w = (v \div extent) * extent
      OBVIOUS
    <2>2. v \div extent \in Nat
      BY <1>1
    <2>3. w \in Nat /\ w \in Int /\ v \div extent \in Int /\ 0 \in 0 .. extent - 1 /\ w = (v \div extent) * extent + 0
      BY <2>1, <2>2
    <2>4. w \div extent = v \div extent /\ w % extent = 0
      BY <2>3, Unique
    <2>5. w \in PagesOf(b) /\ d + 0 = w - s
      BY <1>7, <2>3, <2>4
    <2>6. Piece(b, v, extent) = b.memory + (w - b.start)
      BY <1>2, <1>3, <1>6, <2>5
    <2> QED
      BY <2>5, <2>6, BlockPages
  <1> QED
    BY <1>8, <1>9

LEMMA SmallIsMedium ==
    ASSUME NEW m \in Driver
    PROVE  Small(m) \subseteq Medium(m)
  <1>1. ASSUME NEW b \in Blocks(m), IsAligned(b, Entries * Entries) PROVE IsAligned(b, Entries)
    <2>1. /\ b.start \in Nat /\ b.count \in Nat /\ b.memory \in Nat /\ Entries \in Nat \ {0}
      BY MapFacts, BlockFacts, Sizes
    <2> QED
      BY <1>1, <2>1, Multiple DEF IsAligned
  <1> QED
    BY <1>1 DEF Small, Medium

(* All that needs a third level table is within the reach of one, and all  *)
(* that needs a second level table within one of those.                    *)
LEMMA OneTable ==
    ASSUME NEW m \in Driver, NEW v, NEW w
    PROVE  /\ Used(m, Small(m), v) /\ Used(m, Small(m), w) => v \div Entries = w \div Entries
           /\ Used(m, Medium(m), v) /\ Used(m, Medium(m), w) =>
                 v \div (Entries * Entries) = w \div (Entries * Entries)
           /\ Used(m, Small(m), v) => Used(m, Medium(m), v)
  <1>1. Within(Small(m), Entries) /\ Within(Medium(m), Entries * Entries)
    BY LayoutAssumption
  <1>2. Used(m, Small(m), v) /\ Used(m, Small(m), w) => v \div Entries = w \div Entries
    BY <1>1 DEF Used, Within
  <1>3. Used(m, Medium(m), v) /\ Used(m, Medium(m), w) =>
           v \div (Entries * Entries) = w \div (Entries * Entries)
    BY <1>1 DEF Used, Within
  <1>4. Used(m, Small(m), v) => Used(m, Medium(m), v)
    BY SmallIsMedium DEF Used
  <1> QED
    BY <1>2, <1>3, <1>4


-----------------------------------------------------------------------------
(* What the MMU finds in the tables of the loaded map is right. *)
LEMMA WalkIsRight ==
    ASSUME BlocksInv, TableTypes, NEW m \in Driver, Tables(m), NEW v \in VirtualPage, Walk(v) # None
    PROVE  Walk(v) \in Place(m, v)
  <1>1. PICK i1, i2, i3 : i1 = v \div (Entries * Entries) /\ i2 = (v \div Entries) % Entries /\ i3 = v % Entries
    OBVIOUS
  <1>2. i1 \in 0 .. Regions - 1 /\ i2 \in 0 .. Entries - 1 /\ i3 \in 0 .. Entries - 1
    BY <1>1, PageIndex
  <1>3. Walk(v) = CASE l1[i1].type = "block" -> l1[i1].at + (v % (Entries * Entries))
                    [] l1[i1].type = "table" /\ l2[i2].type = "block" -> l2[i2].at + (v % Entries)
                    [] l1[i1].type = "table" /\ l2[i2].type = "table" -> l3[i3].at
                    [] OTHER -> None
    BY <1>1 DEF Walk
  <1>4. CASE l1[i1].type = "block"
    <2>1. Walk(v) = l1[i1].at + (v % (Entries * Entries))
      BY <1>3, <1>4
    <2> QED
      BY <1>1, <1>2, <1>4, <2>1 DEF Tables, L1Inv
  <1>5. CASE l1[i1].type = "table" /\ l2[i2].type = "block"
    <2>1. Walk(v) = l2[i2].at + (v % Entries)
      BY <1>3, <1>5
    <2>2. PICK w \in VirtualPage : Used(m, Medium(m), w) /\ w \div (Entries * Entries) = i1
      BY <1>2, <1>5 DEF Tables, L1Inv
    <2>3. PICK x \in VirtualPage :
             /\ Used(m, Medium(m), x) /\ (x \div Entries) % Entries = i2
             /\ \A u \in VirtualPage : u \div Entries = x \div Entries =>
                   l2[i2].at + (u % Entries) \in Place(m, u)
      BY <1>2, <1>5 DEF Tables, L2Inv
    <2>4. v \div (Entries * Entries) = x \div (Entries * Entries)
      BY <1>1, <2>2, <2>3, OneTable
    <2>5. v \div Entries = x \div Entries
      BY <1>1, <2>3, <2>4, SameTable
    <2> QED
      BY <2>1, <2>3, <2>5
  <1>6. CASE l1[i1].type = "table" /\ l2[i2].type = "table"
    <2>1. Walk(v) = l3[i3].at
      BY <1>3, <1>6
    <2>2. PICK w \in VirtualPage : Used(m, Medium(m), w) /\ w \div (Entries * Entries) = i1
      BY <1>2, <1>6 DEF Tables, L1Inv
    <2>3. PICK x \in VirtualPage : Used(m, Small(m), x) /\ (x \div Entries) % Entries = i2
      BY <1>2, <1>6 DEF Tables, L2Inv
    <2>4. l3[i3].type = "block"
      <3>1. l3[i3] \in Entry /\ l3[i3].type # "table"
        BY <1>2 DEF TableTypes, Tables, L3Inv
      <3>2. l3[i3] # Invalid
        BY <2>1 DEF Invalid
      <3> QED
        BY <3>1, <3>2 DEF Entry, Subtable, BlockAt
    <2>5. PICK y \in VirtualPage : Used(m, Small(m), y) /\ y % Entries = i3 /\ l3[i3].at \in Place(m, y)
      BY <1>2, <2>4 DEF Tables, L3Inv
    <2>6. v \div (Entries * Entries) = x \div (Entries * Entries)
      BY <1>1, <2>2, <2>3, OneTable
    <2>7. v \div Entries = x \div Entries
      BY <1>1, <2>3, <2>6, SameTable
    <2>8. v \div Entries = y \div Entries
      BY <2>3, <2>5, <2>7, OneTable
    <2>9. v = y
      BY <1>1, <2>5, <2>8, Sizes, PageIndex, SamePage
    <2> QED
      BY <2>1, <2>5, <2>9
  <1>7. CASE l1[i1].type # "block" /\ ~(l1[i1].type = "table" /\ l2[i2].type \in {"block", "table"})
    BY <1>3, <1>7
  <1> QED
    BY <1>4, <1>5, <1>6, <1>7

(* find_vmb finds the one block that has the page. *)
LEMMA FindsTheBlock ==
    ASSUME ListsInv, NEW m \in Driver, NEW e \in mapped[m], NEW v \in PagesOf(e)
    PROVE  FindVmb(m, v) = e
  <1>1. PICK n \in 1 .. Vmbs - 1 : Lists(list[m], n, mapped[m]) /\ Listed(m) = 0 .. n - 1
    BY TheList
  <1>2. PICK h \in Listed(m) : list[m][h] = e
    BY <1>1 DEF Lists
  <1>3. ASSUME NEW j \in Listed(m), v \in PagesOf(list[m][j]) PROVE j = h
    <2>1. list[m][j] \in mapped[m]
      BY <1>1 DEF Lists
    <2>2. list[m][j] = e
      BY <1>3, <2>1 DEF ListsInv, BlocksInv, Apart
    <2> QED
      BY <1>1, <1>2, <2>2 DEF Lists
  <1>4. h \in Int /\ v \in PagesOf(list[m][h])
    BY <1>1, <1>2
  <1>5. \A k \in Listed(m) : (/\ v \in PagesOf(list[m][k])
                              /\ \A j \in Listed(m) : v \in PagesOf(list[m][j]) => k <= j) <=> k = h
    <2>1. \A j \in Listed(m) : v \in PagesOf(list[m][j]) => h <= j
      BY <1>3, <1>4
    <2> QED
      BY <1>3, <1>4, <2>1, Zenon
  <1>6. h = CHOOSE k \in Listed(m) : /\ v \in PagesOf(list[m][k])
                                     /\ \A j \in Listed(m) : v \in PagesOf(list[m][j]) => k <= j
    BY <1>5
  <1> QED
    BY <1>2, <1>6 DEF FindVmb

(* The three ways find_and_map_memory fills the tables. *)
FillsL1(b, v) ==
    /\ l1' = [l1 EXCEPT ![v \div (Entries * Entries)] = BlockAt(Piece(b, v, Entries * Entries))]
    /\ UNCHANGED <<l2, l3>>

FillsL2(b, v) ==
    /\ l1' = [l1 EXCEPT ![v \div (Entries * Entries)] = Subtable]
    /\ l2' = [l2 EXCEPT ![(v \div Entries) % Entries] = BlockAt(Piece(b, v, Entries))]
    /\ l3' = l3

FillsL3(b, v) ==
    /\ l1' = [l1 EXCEPT ![v \div (Entries * Entries)] = Subtable]
    /\ l2' = [l2 EXCEPT ![(v \div Entries) % Entries] = Subtable]
    /\ l3' = [l3 EXCEPT ![v % Entries] = BlockAt(Piece(b, v, 1))]

LEMMA FaultIs ==
    ASSUME ListsInv, NEW t \in Thread, NEW v \in Touched, Fault(t, v)
    PROVE  /\ Home[t] \in Driver /\ loaded_map = Home[t]
           /\ UNCHANGED <<tlb, loaded_map, mapped>>
           /\ \E b \in mapped[Home[t]] :
                /\ v \in PagesOf(b)
                /\ \/ IsAligned(b, Entries * Entries) /\ FillsL1(b, v)
                   \/ b \in Medium(Home[t]) /\ IsAligned(b, Entries) /\ FillsL2(b, v)
                   \/ b \in Medium(Home[t]) /\ b \in Small(Home[t]) /\ FillsL3(b, v)
  <1>1. Home[t] \in Driver
    BY Sizes
  <1>2. PICK b \in mapped[Home[t]] : v \in PagesOf(b)
    BY DEF Fault, Uses
  <1>3. FindVmb(Home[t], v) = b
    BY <1>1, <1>2, FindsTheBlock
  <1>4. b \in Blocks(Home[t])
    BY <1>1, <1>2, BlockPages DEF ListsInv
  <1>5. loaded_map = Home[t]
    BY DEF Fault, Uses, ListsInv, ThreadTypes
  <1>6. CASE IsAligned(b, Entries * Entries)
    <2>1. FillsL1(b, v)
      BY <1>3, <1>6 DEF Fault, FillsL1, Piece
    <2> QED
      BY <1>1, <1>2, <1>5, <1>6, <2>1 DEF Fault
  <1>7. CASE ~IsAligned(b, Entries * Entries) /\ IsAligned(b, Entries)
    <2>1. FillsL2(b, v) /\ b \in Medium(Home[t])
      BY <1>3, <1>4, <1>7 DEF Fault, FillsL2, Piece, Medium
    <2> QED
      BY <1>1, <1>2, <1>5, <1>7, <2>1 DEF Fault
  <1>8. CASE ~IsAligned(b, Entries * Entries) /\ ~IsAligned(b, Entries)
    <2>1. FillsL3(b, v) /\ b \in Medium(Home[t]) /\ b \in Small(Home[t])
      BY <1>3, <1>4, <1>8 DEF Fault, FillsL3, Piece, Medium, Small, Link
    <2> QED
      BY <1>1, <1>2, <1>5, <1>8, <2>1 DEF Fault
  <1> QED
    BY <1>6, <1>7, <1>8


-----------------------------------------------------------------------------
(* The tables, step by step. *)
LEMMA EntryFacts ==
    /\ Invalid \in Entry /\ Subtable \in Entry
    /\ \A z \in Memory : BlockAt(z) \in Entry
    /\ Invalid.type = "invalid" /\ Invalid.at = None /\ Subtable.type = "table"
    /\ \A z : BlockAt(z).type = "block" /\ BlockAt(z).at = z
  BY DEF Entry, Invalid, Subtable, BlockAt

LEMMA FaultTables ==
    ASSUME ListsInv, TablesInv, NEW t \in Thread, NEW v \in Touched, Fault(t, v)
    PROVE  TablesInv' /\ Walk(v)' # None
  <1>1. PICK m \in Driver : m = Home[t]
    BY Sizes
  <1>2. loaded_map = m /\ UNCHANGED <<tlb, loaded_map, mapped>>
    BY <1>1, FaultIs
  <1>3. PICK b \in mapped[m] :
           /\ v \in PagesOf(b)
           /\ \/ IsAligned(b, Entries * Entries) /\ FillsL1(b, v)
              \/ b \in Medium(m) /\ IsAligned(b, Entries) /\ FillsL2(b, v)
              \/ b \in Medium(m) /\ b \in Small(m) /\ FillsL3(b, v)
    BY <1>1, FaultIs
  <1>4. BlocksInv /\ BlocksInv'
    BY <1>2 DEF ListsInv, BlocksInv
  <1>5. /\ Entries \in Nat \ {0} /\ Entries * Entries \in Nat \ {0}
        /\ v \in VirtualPage /\ v \in Nat
        /\ b.start \in Nat /\ b.count \in Nat /\ b.memory \in Nat
    BY <1>3, <1>4, Sizes, BlockPages, BlockFacts
  <1>6. PICK i1, i2, i3 : i1 = v \div (Entries * Entries) /\ i2 = (v \div Entries) % Entries /\ i3 = v % Entries
    OBVIOUS
  <1>7. i1 \in 0 .. Regions - 1 /\ i2 \in 0 .. Entries - 1 /\ i3 \in 0 .. Entries - 1
    BY <1>5, <1>6, PageIndex
  <1>8. TableTypes /\ L1Inv(m) /\ L2Inv(m) /\ L3Inv(m)
    BY <1>2 DEF TablesInv, Tables
  <1>9. /\ \A w : Place(m, w)' = Place(m, w)
        /\ \A w : Used(m, Medium(m), w)' <=> Used(m, Medium(m), w)
        /\ \A w : Used(m, Small(m), w)' <=> Used(m, Small(m), w)
    BY <1>2 DEF Place, Used
  <1>10. /\ b \in Medium(m) => Used(m, Medium(m), v)
         /\ b \in Small(m) => Used(m, Small(m), v)
    BY <1>3 DEF Used
  <1>11. /\ l1 \in [0 .. Regions - 1 -> Entry]
         /\ l2 \in [0 .. Entries - 1 -> Entry]
         /\ l3 \in [0 .. Entries - 1 -> Entry]
    BY <1>8 DEF TableTypes
  <1>12. /\ TlbInv'
         /\ \A d \in Driver : loaded_map' = d => d = m
    BY <1>2, <1>9 DEF TablesInv, TlbInv, Place
  <1>13. SUFFICES /\ TableTypes' /\ Walk(v)' # None
                  /\ L1Inv(m)' /\ L2Inv(m)' /\ L3Inv(m)'
    BY <1>12 DEF TablesInv, Tables
  <1>14. Walk(v)' = CASE l1'[i1].type = "block" -> l1'[i1].at + (v % (Entries * Entries))
                      [] l1'[i1].type = "table" /\ l2'[i2].type = "block" -> l2'[i2].at + (v % Entries)
                      [] l1'[i1].type = "table" /\ l2'[i2].type = "table" -> l3'[i3].at
                      [] OTHER -> None
    BY <1>6 DEF Walk
  <1>15. l1' = l1 => L1Inv(m)'
    BY <1>8, <1>9 DEF L1Inv
  <1>16. l2' = l2 => L2Inv(m)'
    BY <1>8, <1>9 DEF L2Inv
  <1>17. l3' = l3 => L3Inv(m)'
    BY <1>8, <1>9 DEF L3Inv
  <1>18. b \in Medium(m) /\ l1' = [l1 EXCEPT ![i1] = Subtable] =>
            L1Inv(m)' /\ l1' \in [0 .. Regions - 1 -> Entry] /\ l1'[i1].type = "table"
    <2> SUFFICES ASSUME b \in Medium(m), l1' = [l1 EXCEPT ![i1] = Subtable]
                 PROVE  L1Inv(m)' /\ l1' \in [0 .. Regions - 1 -> Entry] /\ l1'[i1].type = "table"
      OBVIOUS
    <2>1. /\ l1'[i1] = Subtable /\ \A h \in 0 .. Regions - 1 : h # i1 => l1'[h] = l1[h]
          /\ l1' \in [0 .. Regions - 1 -> Entry]
      BY <1>7, <1>11, EntryFacts
    <2>2. ASSUME NEW h \in 0 .. Regions - 1, h # i1
          PROVE  /\ l1'[h].type = "table" =>
                      \E w \in VirtualPage : Used(m, Medium(m), w)' /\ w \div (Entries * Entries) = h
                 /\ l1'[h].type = "block" =>
                      \A w \in VirtualPage : w \div (Entries * Entries) = h =>
                         l1'[h].at + (w % (Entries * Entries)) \in Place(m, w)'
      BY <1>8, <1>9, <2>1, <2>2 DEF L1Inv
    <2>3. l1'[i1].type = "table"
      BY <2>1, EntryFacts
    <2>4. v \in VirtualPage /\ Used(m, Medium(m), v)' /\ v \div (Entries * Entries) = i1
      BY <1>5, <1>6, <1>9, <1>10
    <2>5. L1Inv(m)'
      BY <2>2, <2>3, <2>4 DEF L1Inv
    <2> QED
      BY <2>1, <2>3, <2>5
  <1>19. CASE IsAligned(b, Entries * Entries) /\ FillsL1(b, v)
    <2>1. PICK z : z = Piece(b, v, Entries * Entries)
      OBVIOUS
    <2>2. /\ \A w \in VirtualPage : w \div (Entries * Entries) = i1 =>
                z + (w % (Entries * Entries)) \in Place(m, w)
          /\ z \in Memory /\ z # None
      <3>1. PICK N : N = Entries * Entries
        OBVIOUS
      <3>2. N \in Nat \ {0} /\ b.start % N = 0 /\ b.count % N = 0
        BY <1>5, <1>19, <3>1 DEF IsAligned
      <3>3. /\ \A w \in VirtualPage : w \div N = v \div N => Piece(b, v, N) + (w % N) \in Place(m, w)
            /\ Piece(b, v, N) \in Memory /\ Piece(b, v, N) # None
        BY <1>3, <1>4, <3>2, PieceIsRight
      <3> QED
        BY <1>6, <2>1, <3>1, <3>3
    <2>3. l1' = [l1 EXCEPT ![i1] = BlockAt(z)] /\ l2' = l2 /\ l3' = l3
      BY <1>6, <1>19, <2>1 DEF FillsL1
    <2>4. /\ l1'[i1] = BlockAt(z) /\ \A h \in 0 .. Regions - 1 : h # i1 => l1'[h] = l1[h]
          /\ l1' \in [0 .. Regions - 1 -> Entry]
      BY <1>7, <1>11, <2>2, <2>3, EntryFacts
    <2>5. L1Inv(m)'
      BY <1>8, <1>9, <2>2, <2>4, EntryFacts DEF L1Inv
    <2>6. Walk(v)' # None
      <3>1. Walk(v)' = z + (v % (Entries * Entries))
        BY <1>14, <2>4, EntryFacts
      <3> QED
        BY <1>4, <1>5, <1>6, <2>2, <3>1, PlaceInMemory
    <2> QED
      BY <1>11, <1>16, <1>17, <2>3, <2>4, <2>5, <2>6 DEF TableTypes
  <1>20. CASE b \in Medium(m) /\ IsAligned(b, Entries) /\ FillsL2(b, v)
    <2>1. PICK z : z = Piece(b, v, Entries)
      OBVIOUS
    <2>2. /\ \A w \in VirtualPage : w \div Entries = v \div Entries =>
                z + (w % Entries) \in Place(m, w)
          /\ z \in Memory /\ z # None
      BY <1>3, <1>4, <1>5, <1>20, <2>1, PieceIsRight DEF IsAligned
    <2>3. /\ l1' = [l1 EXCEPT ![i1] = Subtable]
          /\ l2' = [l2 EXCEPT ![i2] = BlockAt(z)] /\ l3' = l3
      BY <1>6, <1>20, <2>1 DEF FillsL2
    <2>4. /\ l2'[i2] = BlockAt(z) /\ \A h \in 0 .. Entries - 1 : h # i2 => l2'[h] = l2[h]
          /\ l2' \in [0 .. Entries - 1 -> Entry]
      BY <1>7, <1>11, <2>2, <2>3, EntryFacts
    <2>5. L2Inv(m)'
      <3>1. ASSUME NEW j \in 0 .. Entries - 1, j # i2
            PROVE  /\ l2'[j].type = "table" =>
                        \E w \in VirtualPage : Used(m, Small(m), w)' /\ (w \div Entries) % Entries = j
                   /\ l2'[j].type = "block" =>
                        \E w \in VirtualPage :
                           /\ Used(m, Medium(m), w)' /\ (w \div Entries) % Entries = j
                           /\ \A u \in VirtualPage : u \div Entries = w \div Entries =>
                                 l2'[j].at + (u % Entries) \in Place(m, u)'
        BY <1>8, <1>9, <2>4, <3>1 DEF L2Inv
      <3>2. l2'[i2].type = "block" /\ l2'[i2].at = z
        BY <2>4, EntryFacts
      <3>3. /\ Used(m, Medium(m), v)' /\ (v \div Entries) % Entries = i2
            /\ \A u \in VirtualPage : u \div Entries = v \div Entries =>
                  z + (u % Entries) \in Place(m, u)'
        BY <1>6, <1>9, <1>10, <1>20, <2>2
      <3> QED
        BY <1>5, <3>1, <3>2, <3>3 DEF L2Inv
    <2>6. Walk(v)' # None
      <3>1. Walk(v)' = z + (v % Entries)
        BY <1>14, <1>18, <1>20, <2>3, <2>4, EntryFacts
      <3> QED
        BY <1>4, <1>5, <2>2, <3>1, PlaceInMemory
    <2> QED
      BY <1>11, <1>17, <1>18, <1>20, <2>3, <2>4, <2>5, <2>6 DEF TableTypes
  <1>21. CASE b \in Medium(m) /\ b \in Small(m) /\ FillsL3(b, v)
    <2>1. PICK z : z = Piece(b, v, 1)
      OBVIOUS
    <2>2. z \in Place(m, v) /\ z \in Memory /\ z # None
      <3>1. 1 \in Nat \ {0} /\ b.start % 1 = 0 /\ b.count % 1 = 0 /\ v % 1 = 0
        BY <1>5
      <3>2. /\ \A w \in VirtualPage : w \div 1 = v \div 1 => Piece(b, v, 1) + (w % 1) \in Place(m, w)
            /\ Piece(b, v, 1) \in Memory /\ Piece(b, v, 1) # None
        BY <1>3, <1>4, <3>1, PieceIsRight
      <3>3. z + 0 \in Place(m, v)
        BY <1>5, <2>1, <3>1, <3>2
      <3>4. z \in Int
        BY <1>5, <2>1 DEF Piece, Offset
      <3> QED
        BY <2>1, <3>2, <3>3, <3>4
    <2>3. /\ l1' = [l1 EXCEPT ![i1] = Subtable] /\ l2' = [l2 EXCEPT ![i2] = Subtable]
          /\ l3' = [l3 EXCEPT ![i3] = BlockAt(z)]
      BY <1>6, <1>21, <2>1 DEF FillsL3
    <2>4. /\ l3'[i3] = BlockAt(z) /\ \A h \in 0 .. Entries - 1 : h # i3 => l3'[h] = l3[h]
          /\ l3' \in [0 .. Entries - 1 -> Entry]
      BY <1>7, <1>11, <2>2, <2>3, EntryFacts
    <2>5. /\ l2'[i2] = Subtable /\ \A h \in 0 .. Entries - 1 : h # i2 => l2'[h] = l2[h]
          /\ l2' \in [0 .. Entries - 1 -> Entry]
      BY <1>7, <1>11, <2>3, EntryFacts
    <2>6. L2Inv(m)'
      <3>1. ASSUME NEW j \in 0 .. Entries - 1, j # i2
            PROVE  /\ l2'[j].type = "table" =>
                        \E w \in VirtualPage : Used(m, Small(m), w)' /\ (w \div Entries) % Entries = j
                   /\ l2'[j].type = "block" =>
                        \E w \in VirtualPage :
                           /\ Used(m, Medium(m), w)' /\ (w \div Entries) % Entries = j
                           /\ \A u \in VirtualPage : u \div Entries = w \div Entries =>
                                 l2'[j].at + (u % Entries) \in Place(m, u)'
        BY <1>8, <1>9, <2>5, <3>1 DEF L2Inv
      <3>2. l2'[i2].type = "table"
        BY <2>5, EntryFacts
      <3>3. v \in VirtualPage /\ Used(m, Small(m), v)' /\ (v \div Entries) % Entries = i2
        BY <1>5, <1>6, <1>9, <1>10, <1>21
      <3> QED
        BY <3>1, <3>2, <3>3 DEF L2Inv
    <2>7. L3Inv(m)'
      <3>1. ASSUME NEW k \in 0 .. Entries - 1, k # i3
            PROVE  /\ l3'[k].type # "table"
                   /\ l3'[k].type = "block" =>
                        \E w \in VirtualPage : /\ Used(m, Small(m), w)' /\ w % Entries = k
                                        /\ l3'[k].at \in Place(m, w)'
        BY <1>8, <1>9, <2>4, <3>1 DEF L3Inv
      <3>2. l3'[i3].type = "block" /\ l3'[i3].at = z
        BY <2>4, EntryFacts
      <3>3. v \in VirtualPage /\ Used(m, Small(m), v)' /\ v % Entries = i3 /\ z \in Place(m, v)'
        BY <1>5, <1>6, <1>9, <1>10, <1>21, <2>2
      <3> QED
        BY <3>1, <3>2, <3>3 DEF L3Inv
    <2>8. Walk(v)' # None
      <3>1. Walk(v)' = z
        BY <1>14, <1>18, <1>21, <2>3, <2>4, <2>5, EntryFacts
      <3> QED
        BY <2>2, <3>1
    <2> QED
      BY <1>18, <1>21, <2>3, <2>4, <2>5, <2>6, <2>7, <2>8 DEF TableTypes
  <1> QED
    BY <1>3, <1>19, <1>20, <1>21


LEMMA SameTables ==
    ASSUME TablesInv, UNCHANGED <<l1, l2, l3, tlb, loaded_map, mapped>>
    PROVE  TablesInv'
  <1>1. TableTypes' /\ TlbInv'
    BY DEF TablesInv, TableTypes, TlbInv, Place
  <1>2. ASSUME NEW m \in Driver, loaded_map' = m PROVE Tables(m)'
    BY <1>2 DEF TablesInv, Tables, L1Inv, L2Inv, L3Inv, Place, Used
  <1> QED
    BY <1>1, <1>2 DEF TablesInv

LEMMA EmptyTables == \A n : \A h \in 0 .. n - 1 : Empty(n)[h] = Invalid
  BY DEF Empty

(* load_this_map empties the tables unless the map is the one they are of. *)
LEMMA LoadMapTables ==
    ASSUME TablesInv, NEW m, LoadMap(m), UNCHANGED <<tlb, mapped>>
    PROVE  TablesInv'
  <1>1. CASE m = loaded_map
    <2>1. UNCHANGED <<l1, l2, l3, loaded_map>>
      BY <1>1 DEF LoadMap, Cleared, tables
    <2> QED
      BY <2>1, SameTables
  <1>2. CASE m # loaded_map
    <2>1. l1' = Empty(Regions) /\ l2' = Empty(Entries) /\ l3' = Empty(Entries)
      BY <1>2 DEF LoadMap, Cleared
    <2>2. TlbInv'
      BY DEF TablesInv, TlbInv, Place
    <2>3. TableTypes'
      BY <2>1, EntryFacts DEF TableTypes, Empty
    <2>4. /\ \A h \in 0 .. Regions - 1 : l1'[h].type = "invalid"
          /\ \A h \in 0 .. Entries - 1 : l2'[h].type = "invalid" /\ l3'[h].type = "invalid"
      BY <2>1, EmptyTables, EntryFacts
    <2>5. ASSUME NEW d \in Driver PROVE Tables(d)'
      BY <2>4 DEF Tables, L1Inv, L2Inv, L3Inv
    <2> QED
      BY <2>2, <2>3, <2>5 DEF TablesInv
  <1> QED
    BY <1>1, <1>2

LEMMA TableWalkTables ==
    ASSUME ListsInv, TablesInv, NEW t \in Thread, NEW v \in Touched, TableWalk(t, v)
    PROVE  TablesInv'
  <1>1. PICK m \in Driver : m = Home[t]
    BY Sizes
  <1>2. PICK z : z = Walk(v)
    OBVIOUS
  <1>3. /\ z # None /\ tlb' = [tlb EXCEPT ![m][v] = z] /\ loaded_map = m
        /\ UNCHANGED <<l1, l2, l3, loaded_map, mapped>>
    BY <1>1, <1>2 DEF TableWalk, Uses, ListsInv, ThreadTypes, tables
  <1>4. BlocksInv /\ TableTypes /\ Tables(m) /\ v \in VirtualPage
    BY <1>3, Sizes DEF ListsInv, TablesInv
  <1>5. z \in Place(m, v)
    BY <1>2, <1>3, <1>4, WalkIsRight
  <1>6. z \in Memory
    BY <1>4, <1>5, PlaceInMemory
  <1>7. tlb \in [Driver -> [Touched -> Memory \union {None}]]
    BY DEF TablesInv, TlbInv
  <1>8. /\ tlb'[m][v] = z
        /\ \A d \in Driver : \A w \in Touched : d # m \/ w # v => tlb'[d][w] = tlb[d][w]
        /\ tlb' \in [Driver -> [Touched -> Memory \union {None}]]
    BY <1>3, <1>6, <1>7
  <1>9. \A d : \A w : Place(d, w)' = Place(d, w)
    BY <1>3 DEF Place
  <1>10. TlbInv'
    <2>1. ASSUME NEW d \in Driver, NEW w \in Touched, tlb'[d][w] # None
          PROVE  tlb'[d][w] \in Place(d, w)'
      <3>1. CASE d = m /\ w = v
        BY <1>5, <1>8, <1>9, <3>1
      <3>2. CASE ~(d = m /\ w = v)
        <4>1. tlb'[d][w] = tlb[d][w]
          BY <1>8, <3>2
        <4> QED
          BY <1>9, <2>1, <4>1 DEF TablesInv, TlbInv
      <3> QED
        BY <3>1, <3>2
    <2> QED
      BY <1>8, <2>1 DEF TlbInv
  <1>11. TableTypes'
    BY <1>3 DEF TablesInv, TableTypes
  <1>12. ASSUME NEW d \in Driver, loaded_map' = d PROVE Tables(d)'
    BY <1>3, <1>12 DEF TablesInv, Tables, L1Inv, L2Inv, L3Inv, Place, Used
  <1> QED
    BY <1>10, <1>11, <1>12 DEF TablesInv

(* WriteHeap drops what the MMU remembers of the one map that changes, and *)
(* the tables are not that map's, since the system map is loaded.          *)
LEMMA WriteHeapTables ==
    ASSUME ListsInv, TablesInv, NEW t \in Thread, WriteHeap(t)
    PROVE  TablesInv'
  <1>1. PICK m \in Driver : m = Home[t]
    BY Sizes
  <1>2. /\ tlb' = [tlb EXCEPT ![m] = [v \in Touched |-> None]]
        /\ UNCHANGED <<l1, l2, l3, loaded_map>>
        /\ runnable = t /\ pc[t] = "write"
        /\ mapped \in [Driver -> SUBSET AllBlocks]
    BY <1>1 DEF WriteHeap, Invalidated, tables, ListsInv, BlocksInv
  <1>3. \A d \in Driver : d # m => mapped'[d] = mapped[d]
    BY <1>1, <1>2 DEF WriteHeap
  <1>4. loaded_map = System /\ System \notin Driver
    BY <1>2, Sizes DEF ListsInv, ThreadTypes
  <1>5. tlb \in [Driver -> [Touched -> Memory \union {None}]]
    BY DEF TablesInv, TlbInv
  <1>6. /\ tlb' \in [Driver -> [Touched -> Memory \union {None}]]
        /\ \A v \in Touched : tlb'[m][v] = None
        /\ \A d \in Driver : d # m => tlb'[d] = tlb[d]
    BY <1>2, <1>5
  <1>7. ASSUME NEW d \in Driver, NEW v \in Touched, tlb'[d][v] # None
        PROVE  tlb'[d][v] \in Place(d, v)'
    <2>1. d # m
      BY <1>6, <1>7
    <2>2. tlb[d][v] \in Place(d, v)
      BY <1>6, <1>7, <2>1 DEF TablesInv, TlbInv
    <2> QED
      BY <1>3, <1>6, <2>1, <2>2 DEF Place
  <1>8. TlbInv'
    BY <1>6, <1>7 DEF TlbInv
  <1>9. TableTypes' /\ loaded_map' \notin Driver
    BY <1>2, <1>4 DEF TablesInv, TableTypes
  <1> QED
    BY <1>8, <1>9 DEF TablesInv

LEMMA InitTables == Init => TablesInv
  <1> SUFFICES ASSUME Init PROVE TablesInv
    OBVIOUS
  <1>1. l1 = Empty(Regions) /\ l2 = Empty(Entries) /\ l3 = Empty(Entries)
    BY DEF Init
  <1>2. TableTypes
    BY <1>1, EntryFacts DEF TableTypes, Empty
  <1>3. TlbInv
    BY DEF Init, TlbInv
  <1>4. /\ \A h \in 0 .. Regions - 1 : l1[h].type = "invalid"
        /\ \A h \in 0 .. Entries - 1 : l2[h].type = "invalid" /\ l3[h].type = "invalid"
    BY <1>1, EmptyTables, EntryFacts
  <1>5. ASSUME NEW d \in Driver PROVE Tables(d)
    BY <1>4 DEF Tables, L1Inv, L2Inv, L3Inv
  <1> QED
    BY <1>2, <1>3, <1>5 DEF TablesInv

LEMMA NextTables ==
    ASSUME ListsInv, TablesInv, [Next]_vars
    PROVE  TablesInv'
  <1>1. CASE UNCHANGED vars
    BY <1>1, SameTables DEF vars, tables
  <1>2. CASE Next
    <2>1. PICK t \in Thread :
             \/ Switch(t)
             \/ \E v \in Touched : TableWalk(t, v) \/ Fault(t, v)
             \/ \E b \in Extra[Home[t]] : CallMapAt(t, b)
             \/ CallUnmap(t)
             \/ ReadHeap(t) \/ MapAt(t) \/ Unmap(t) \/ WriteHeap(t)
             \/ ReleaseLock(t) \/ Return(t)
      BY <1>2 DEF Next
    <2>2. CASE Switch(t)
      BY <2>2, LoadMapTables DEF Switch
    <2>3. ASSUME NEW v \in Touched, TableWalk(t, v) \/ Fault(t, v) PROVE TablesInv'
      BY <2>3, TableWalkTables, FaultTables
    <2>4. ASSUME NEW b \in Extra[Home[t]], CallMapAt(t, b) PROVE TablesInv'
      BY <2>4, LoadMapTables DEF CallMapAt, Enter
    <2>5. CASE CallUnmap(t)
      BY <2>5, LoadMapTables DEF CallUnmap, Enter
    <2>6. CASE ReadHeap(t) \/ MapAt(t) \/ Unmap(t) \/ ReleaseLock(t)
      <3>1. UNCHANGED <<l1, l2, l3, tlb, loaded_map, mapped>>
        BY <2>6 DEF ReadHeap, MapAt, Unmap, ReleaseLock, tables
      <3> QED
        BY <3>1, SameTables
    <2>7. CASE WriteHeap(t)
      BY <2>7, WriteHeapTables
    <2>8. CASE Return(t)
      BY <2>8, LoadMapTables DEF Return
    <2> QED
      BY <2>1, <2>2, <2>3, <2>4, <2>5, <2>6, <2>7, <2>8
  <1> QED
    BY <1>1, <1>2

(* The inductive invariant of the tables, which needs that of the lists.   *)
THEOREM TranslationTables == Spec => [](ListsInv /\ TablesInv)
  <1>1. ListsInv /\ TablesInv /\ [Next]_vars => ListsInv' /\ TablesInv'
    BY NextLists, NextTables
  <1> QED
    BY <1>1, InitLists, InitTables, PTL DEF Spec

(* No translation is stale, neither in what the MMU remembers of any map   *)
(* nor in the tables of the loaded one.                                    *)
THEOREM TranslationNoStale == Spec => []NoStale
  <1>1. ListsInv /\ TablesInv => NoStale
    <2> SUFFICES ASSUME ListsInv, TablesInv PROVE NoStale
      OBVIOUS
    <2>1. TypeOK
      <3>1. At = {"run", "map_at", "unmap", "map_at2", "unmap2", "write", "leave", "return"}
        BY DEF At, Holding
      <3>2. pc \in [Thread -> {"run", "map_at", "unmap", "map_at2", "unmap2", "write",
                               "leave", "return"}]
        BY <3>1 DEF ListsInv, ThreadTypes
      <3>3. /\ current_map \in [Thread -> Driver \union {System}]
            /\ loaded_map \in Driver \union {System}
        BY Sizes DEF ListsInv, ThreadTypes
      <3> QED
        BY <3>2, <3>3 DEF TypeOK, ListsInv, ThreadTypes, ListInv, BlocksInv,
           TablesInv, TableTypes, TlbInv
    <2>2. ASSUME NEW m \in Driver, loaded_map = m, NEW v \in VirtualPage, Walk(v) # None
          PROVE  Walk(v) \in Place(m, v)
      BY <2>2, WalkIsRight DEF ListsInv, TablesInv
    <2> QED
      BY <2>1, <2>2 DEF NoStale, TablesInv, TlbInv
  <1> QED
    BY <1>1, TranslationTables, PTL

(* The access that a fault interrupted succeeds when it is tried again.    *)
THEOREM TranslationFaultsRepaired == Spec => FaultsRepaired
  <1>1. ListsInv /\ TablesInv /\ [Next]_vars => [Repaired]_vars
    BY FaultTables DEF Repaired
  <1> QED
    BY <1>1, TranslationTables, PTL DEF Spec, FaultsRepaired

-----------------------------------------------------------------------------
(* Boot: the roll call of the cores. *)

USE BootAssumption

Whereabouts == Unanswered \union Making \union
         {"loop", "scan", "read", "reread", "decide", "clear", "el1", "himem", "maps", "idle",
          "parked", "stopped", "watchdog"}

Scanning == {"scan", "read", "reread", "decide"}
Beyond == {"clear", "el1", "himem", "maps", "idle", "parked", "stopped"}
Stored == {"maps", "idle", "stopped"}

(* Types of what the roll call uses. *)
BootTypes ==
    /\ hardware \in Nat \ {0} /\ drivers \in Nat /\ number_of_cores \in Nat
    /\ loads \in {1, 2}
    /\ at \in [Core -> Whereabouts]
    /\ present \in [Core -> CoreType]
    /\ i \in [Core -> Nat]
    /\ lowest_normal \in [Core -> BOOLEAN] /\ all_present \in [Core -> BOOLEAN]
    /\ first_free_page \in Nat /\ start_roll_call \in BOOLEAN

(* Nobody passes core 0 before it has prepared the array. *)
Called ==
    /\ at[0] # "count" => number_of_cores = hardware
    /\ start_roll_call <=> at[0] \notin {"count", "start"}
    /\ at[0] \notin {"look", "wfe"}
    /\ \A n \in Core \ {0} : at[n] \notin {"count", "start", "sev"}
    /\ ~start_roll_call => \A n \in Core \ {0} : at[n] \in {"look", "wfe"}

(* The array says where the cores are. *)
Answers ==
    \A n \in Core :
        /\ at[0] # "count" /\ at[n] \in Unanswered => present[n] = "WAITING"
        /\ at[n] = "watchdog" => n = Watchdog /\ present[n] = "SPECIAL"
        /\ at[n] \notin Unanswered \union {"watchdog"} =>
              n # Watchdog /\ present[n] = "NORMAL"

(* While nothing is published, what a core remembers of the array is still *)
(* so: a core that has answered does not take it back.  With two loads, a  *)
(* core may have overlooked one that is before it.                         *)
Seen ==
    \A n \in Core : at[n] \in Scanning /\ first_free_page = 0 =>
        /\ all_present[n] =>
              \A k \in Core : k < i[n] => present[k] # "WAITING"
        /\ loads = 1 /\ all_present[n] /\ lowest_normal[n] =>
              \A k \in Core : k < i[n] /\ k < n => present[k] # "NORMAL"
        /\ at[n] \in {"read", "reread"} => i[n] < hardware
        /\ at[n] = "decide" => i[n] >= hardware

Second == \A n \in Core : at[n] = "reread" => loads = 2 /\ all_present[n]

(* Who makes the tables knows that all are there and, if every entry is    *)
(* loaded once, is the lowest.                                             *)
Maker ==
    \A n \in Core : at[n] \in Making =>
        /\ \A k \in Core : present[k] # "WAITING"
        /\ loads = 1 => /\ first_free_page = 0
                        /\ \A k \in Core : k < n => present[k] # "NORMAL"

Late == \A n \in Core : at[n] \in Beyond => first_free_page # 0

(* The set of normal cores is complete before anybody uses it, and nothing *)
(* is added to it before the array's page is used for something else.      *)
Bits ==
    /\ at[0] \notin Stored =>
          first_free_page \in {0, PresentPage} /\ present_bits \subseteq Core \ {Watchdog}
    /\ (first_free_page # 0 \/ \E n \in Core : at[n] = "publish") =>
          Core \ {Watchdog} \subseteq present_bits
    /\ at[0] \in Stored \union {"himem"} => standard_isambard_cores = Core \ {Watchdog}

BootInv == /\ BootTypes /\ Called /\ Answers
           /\ Seen /\ Second /\ Maker /\ Late /\ Bits /\ RollCallOver
-----------------------------------------------------------------------------
(* The reset state. *)
LEMMA InitBootInv == BootInit => BootInv
  <1> SUFFICES ASSUME BootInit PROVE BootInv
    OBVIOUS
  <1>1. hardware \in Nat \ {0} /\ drivers \in Nat /\ loads \in {1, 2}
    BY DEF BootInit
  <1>2. BootTypes
    BY <1>1 DEF BootInit, BootTypes, Core, CoreType, Whereabouts, Unanswered, Making
  <1>3. at \in [Core -> {"count", "look"}] /\ 0 \in Core
    BY <1>1 DEF BootInit, Core
  <1>4. Called /\ Answers
    BY <1>1, <1>3 DEF BootInit, Called, Answers, Core, Unanswered
  <1>5. Seen /\ Second /\ Maker /\ Late /\ RollCallOver
    BY <1>3 DEF BootInit, Seen, Second, Maker, Late, RollCallOver, Scanning, Making, Beyond
  <1>6. Bits
    BY <1>3 DEF BootInit, Bits, Stored
  <1> QED
    BY <1>2, <1>4, <1>5, <1>6 DEF BootInv

(* A core is where the step takes it, and the others stay. *)
LEMMA GotoFacts ==
    ASSUME BootTypes, NEW n \in Core, NEW from, NEW to \in Whereabouts, Goto(n, from, to)
    PROVE  /\ at[n] = from /\ at'[n] = to
           /\ at' \in [Core -> Whereabouts]
           /\ \A k \in Core : k # n => at'[k] = at[k]
  BY DEF BootTypes, Goto

(* Core 0 always exists. *)
LEMMA CoreZero == ASSUME BootTypes PROVE 0 \in Core /\ Core \subseteq Nat
  BY DEF BootTypes, Core

(* Steps that change the array or the place of core 0 before the roll.     *)
LEMMA CountCoresInv == ASSUME BootInv, CountCores PROVE BootInv'
  <1> USE DEF BootInv
  <1>1. 0 \in Core /\ Core \subseteq Nat
    BY CoreZero
  <1>2. /\ at[0] = "count" /\ at'[0] = "start" /\ at' \in [Core -> Whereabouts]
        /\ \A k \in Core : k # 0 => at'[k] = at[k]
    BY <1>1, GotoFacts DEF CountCores, Whereabouts, Unanswered
  <1>3. Core' = Core
    BY DEF CountCores, Core
  <1>4. ~start_roll_call /\ \A n \in Core \ {0} : at[n] \in {"look", "wfe"}
    BY <1>2 DEF Called, BootTypes
  <1>5. \A n \in Core : at'[n] \in Unanswered
    BY <1>2, <1>4 DEF Unanswered
  <1>6. BootTypes'
    BY <1>2, <1>3 DEF CountCores, BootTypes, CoreType, loopVars
  <1>7. Called'
    BY <1>1, <1>2, <1>3, <1>4 DEF CountCores, Called, BootTypes
  <1>8. Answers'
    BY <1>3, <1>5 DEF CountCores, Answers, Unanswered
  <1>9. Seen' /\ Second' /\ Maker' /\ Late'
    BY <1>3, <1>5 DEF Seen, Second, Maker, Late, Unanswered, Scanning, Making, Beyond
  <1>10. first_free_page = 0 /\ first_free_page' = 0
    BY <1>1, <1>2 DEF CountCores, RollCallOver, Unanswered
  <1>10a. RollCallOver'
    BY <1>10 DEF RollCallOver
  <1>11. Bits'
    BY <1>1, <1>2, <1>3, <1>5, <1>10 DEF CountCores, Bits, Stored, Unanswered
  <1> QED
    BY <1>6, <1>7, <1>8, <1>9, <1>10a, <1>11

(* The roll call begins. *)
LEMMA StartInv == ASSUME BootInv, StartRollCall \/ SendEvent PROVE BootInv'
  <1> USE DEF BootInv
  <1>1. 0 \in Core /\ Core \subseteq Nat
    BY CoreZero
  <1>2. /\ at[0] \in {"start", "sev"} /\ at'[0] \in {"sev", "roll"}
        /\ at[0] = "start" => start_roll_call' = TRUE
        /\ at[0] = "sev" => start_roll_call' = start_roll_call
        /\ at' \in [Core -> Whereabouts]
        /\ \A k \in Core : k # 0 => at'[k] = at[k]
    BY <1>1, GotoFacts DEF StartRollCall, SendEvent, Whereabouts, Unanswered
  <1>3. /\ Core' = Core /\ hardware' = hardware /\ drivers' = drivers /\ loads' = loads
        /\ number_of_cores' = number_of_cores /\ present' = present
        /\ first_free_page' = first_free_page /\ start_roll_call' \in BOOLEAN
        /\ start_roll_call' = start_roll_call \/ start_roll_call' = TRUE
        /\ i' = i /\ lowest_normal' = lowest_normal /\ all_present' = all_present
        /\ present_bits' = present_bits
        /\ standard_isambard_cores' = standard_isambard_cores
    BY DEF StartRollCall, SendEvent, Core, loopVars, BootTypes
  <1>4. at'[0] \in Unanswered /\ at[0] \in Unanswered
    BY <1>2 DEF Unanswered
  <1>5. BootTypes' 
    BY <1>2, <1>3 DEF BootTypes
  <1>6. Called'
    BY <1>1, <1>2, <1>3 DEF Called, BootTypes
  <1>7. Answers'
    BY <1>1, <1>2, <1>3, <1>4 DEF Answers, Unanswered
  <1>8. Seen' /\ Second' /\ Maker' /\ Late'
    BY <1>1, <1>2, <1>3, <1>4 DEF Seen, Second, Maker, Late, Unanswered, Scanning, Making, Beyond
  <1>9. RollCallOver'
    BY <1>1, <1>2, <1>3, <1>4 DEF RollCallOver
  <1>10. Bits'
    <2>1. PresentPage' = PresentPage
      BY <1>3 DEF PresentPage, Core0
    <2> QED
      BY <1>1, <1>2, <1>3, <2>1 DEF Bits, Stored
  <1> QED
    BY <1>5, <1>6, <1>7, <1>8, <1>9, <1>10

(* A core that waits for the roll call looks again or goes on to answer.   *)
LEMMA WaitInv ==
    ASSUME BootInv, NEW n \in Core, n # 0, LookForStart(n) \/ WaitForEvent(n)
    PROVE  BootInv'
  <1> USE DEF BootInv
  <1>1. 0 \in Core /\ Core \subseteq Nat
    BY CoreZero
  <1>2. /\ at[n] \in {"look", "wfe"} /\ at'[n] \in {"look", "wfe", "roll"}
        /\ at'[n] = "roll" => start_roll_call
        /\ at' \in [Core -> Whereabouts]
        /\ \A k \in Core : k # n => at'[k] = at[k]
    BY <1>1, GotoFacts DEF LookForStart, WaitForEvent, Whereabouts, Unanswered
  <1>3. /\ Core' = Core /\ hardware' = hardware /\ drivers' = drivers /\ loads' = loads
        /\ number_of_cores' = number_of_cores /\ present' = present
        /\ first_free_page' = first_free_page /\ start_roll_call' = start_roll_call
        /\ i' = i /\ lowest_normal' = lowest_normal /\ all_present' = all_present
        /\ present_bits' = present_bits
        /\ standard_isambard_cores' = standard_isambard_cores
    BY DEF LookForStart, WaitForEvent, Core, loopVars, sharedVars
  <1>4. at'[n] \in Unanswered /\ at[n] \in Unanswered
    BY <1>2 DEF Unanswered
  <1>5. BootTypes' 
    BY <1>2, <1>3 DEF BootTypes
  <1>6. Called'
    BY <1>1, <1>2, <1>3 DEF Called, BootTypes
  <1>7. Answers'
    BY <1>1, <1>2, <1>3, <1>4 DEF Answers, Unanswered
  <1>8. Seen' /\ Second' /\ Maker' /\ Late'
    BY <1>1, <1>2, <1>3, <1>4 DEF Seen, Second, Maker, Late, Unanswered, Scanning, Making, Beyond
  <1>9. RollCallOver'
    BY <1>1, <1>2, <1>3, <1>4 DEF RollCallOver
  <1>10. Bits'
    <2>1. PresentPage' = PresentPage
      BY <1>3 DEF PresentPage, Core0
    <2> QED
      BY <1>1, <1>2, <1>3, <2>1 DEF Bits, Stored
  <1> QED
    BY <1>5, <1>6, <1>7, <1>8, <1>9, <1>10

(* A core answers; no core that has looked at the array before is wrong    *)
(* for it.                                                                 *)
LEMMA RollInv == ASSUME BootInv, NEW n \in Core, roll_call(n) PROVE BootInv'
  <1> USE DEF BootInv
  <1>1. 0 \in Core /\ Core \subseteq Nat
    BY CoreZero
  <1>2. /\ at[n] = "roll" /\ at'[n] = (IF n = Watchdog THEN "watchdog" ELSE "loop")
        /\ at' \in [Core -> Whereabouts]
        /\ \A k \in Core : k # n => at'[k] = at[k]
    BY GotoFacts DEF roll_call, Whereabouts
  <1>3. /\ Core' = Core /\ hardware' = hardware /\ drivers' = drivers /\ loads' = loads
        /\ number_of_cores' = number_of_cores
        /\ first_free_page' = first_free_page /\ start_roll_call' = start_roll_call
        /\ i' = i /\ lowest_normal' = lowest_normal /\ all_present' = all_present
        /\ present_bits' = present_bits
        /\ standard_isambard_cores' = standard_isambard_cores
    BY DEF roll_call, Core, loopVars
  <1>4. /\ present' \in [Core -> CoreType]
        /\ present'[n] = (IF n = Watchdog THEN "SPECIAL" ELSE "NORMAL")
        /\ \A k \in Core : k # n => present'[k] = present[k]
    BY DEF roll_call, BootTypes, CoreType
  <1>5. first_free_page = 0
    BY <1>2 DEF RollCallOver, Unanswered
  <1>6. start_roll_call /\ at[0] # "count" /\ present[n] = "WAITING"
    BY <1>1, <1>2 DEF Called, Answers, Unanswered, BootTypes
  <1>7. BootTypes'
    BY <1>2, <1>3, <1>4 DEF BootTypes
  <1>8. Called'
    BY <1>1, <1>2, <1>3, <1>6 DEF Called
  <1>9. Answers'
    BY <1>1, <1>2, <1>3, <1>4, <1>6 DEF Answers, Unanswered
  <1>10. Seen' /\ Second'
    BY <1>2, <1>3, <1>4, <1>5, <1>6 DEF Seen, Second, Scanning
  <1>11. Maker'
    <2>1. \A k \in Core : at[k] \notin Making
      BY <1>6 DEF Maker
    <2> QED
      BY <1>2, <1>3, <2>1 DEF Maker, Making
  <1>12. Late' /\ RollCallOver'
    BY <1>1, <1>2, <1>3, <1>5 DEF Late, RollCallOver, Beyond
  <1>13. Bits'
    BY <1>1, <1>2, <1>3, <1>5 DEF Bits, Stored
  <1> QED
    BY <1>7, <1>8, <1>9, <1>10, <1>11, <1>12, <1>13

(* The loop in which the cores watch the array and first_free_page.        *)
LEMMA LoopInv ==
    ASSUME BootInv, NEW n \in Core,
           Loop(n) \/ Scan(n) \/ ReadPresent(n) \/ RereadPresent(n) \/ Decide(n)
    PROVE  BootInv'
  <1> USE DEF BootInv
  <1>1. 0 \in Core /\ Core \subseteq Nat
    BY CoreZero
  <1>2. /\ at[n] \in {"loop", "scan", "read", "reread", "decide"}
        /\ at'[n] \in {"loop", "scan", "read", "reread", "decide", "clear", "build"}
        /\ at' \in [Core -> Whereabouts]
        /\ \A k \in Core : k # n => at'[k] = at[k]
    BY GotoFacts DEF Loop, Scan, ReadPresent, RereadPresent, Decide, Whereabouts, Making
  <1>3. /\ Core' = Core /\ hardware' = hardware /\ drivers' = drivers /\ loads' = loads
        /\ number_of_cores' = number_of_cores /\ present' = present
        /\ first_free_page' = first_free_page /\ start_roll_call' = start_roll_call
        /\ present_bits' = present_bits
        /\ standard_isambard_cores' = standard_isambard_cores
    BY DEF Loop, Scan, ReadPresent, RereadPresent, Decide, Core, sharedVars
  <1>4. ASSUME ReadPresent(n)
        PROVE  /\ i' = [i EXCEPT ![n] = IF loads = 1 \/ ~all_present[n] THEN i[n] + 1 ELSE i[n]]
               /\ \E v \in ValueRead(i[n]) :
                     /\ lowest_normal' = [lowest_normal EXCEPT
                           ![n] = lowest_normal[n] /\ ~(v = "NORMAL" /\ i[n] < n)]
                     /\ all_present' = [all_present EXCEPT
                           ![n] = all_present[n] /\ (loads = 1 => v # "WAITING")]
    <2>1. PICK v \in ValueRead(i[n]) :
             /\ lowest_normal' = [lowest_normal EXCEPT
                   ![n] = lowest_normal[n] /\ ~(v = "NORMAL" /\ i[n] < n)]
             /\ all_present' = [all_present EXCEPT
                   ![n] = all_present[n] /\ (loads = 1 \/ ~all_present[n] => v # "WAITING")]
      BY <1>4 DEF ReadPresent
    <2>2. (all_present[n] /\ (loads = 1 \/ ~all_present[n] => v # "WAITING"))
             = (all_present[n] /\ (loads = 1 => v # "WAITING"))
      OBVIOUS
    <2> QED
      BY <1>4, <2>1, <2>2 DEF ReadPresent
  <1>5. /\ i' \in [Core -> Nat]
        /\ lowest_normal' \in [Core -> BOOLEAN] /\ all_present' \in [Core -> BOOLEAN]
        /\ \A k \in Core : k # n => /\ i'[k] = i[k] /\ lowest_normal'[k] = lowest_normal[k]
                                    /\ all_present'[k] = all_present[k]
    <2>1. CASE Loop(n)
      BY <2>1 DEF Loop, BootTypes
    <2>2. CASE Scan(n) \/ Decide(n)
      BY <2>2 DEF Scan, Decide, loopVars, BootTypes
    <2>3. CASE ReadPresent(n)
      <3>1. PICK v :
              /\ lowest_normal' = [lowest_normal EXCEPT
                    ![n] = lowest_normal[n] /\ ~(v = "NORMAL" /\ i[n] < n)]
              /\ all_present' = [all_present EXCEPT
                    ![n] = all_present[n] /\ (loads = 1 => v # "WAITING")]
        BY <1>4, <2>3
      <3>2. /\ (lowest_normal[n] /\ ~(v = "NORMAL" /\ i[n] < n)) \in BOOLEAN
            /\ (all_present[n] /\ (loads = 1 => v # "WAITING")) \in BOOLEAN
        OBVIOUS
      <3>3. lowest_normal' \in [Core -> BOOLEAN] /\ all_present' \in [Core -> BOOLEAN]
        BY <3>1, <3>2 DEF BootTypes
      <3>4. i' \in [Core -> Nat] /\ \A k \in Core : k # n => i'[k] = i[k]
        BY <1>4, <2>3 DEF BootTypes
      <3> QED
        BY <3>1, <3>3, <3>4 DEF BootTypes
    <2>4. CASE RereadPresent(n)
      <3>1. PICK v : all_present' = [all_present EXCEPT ![n] = v # "WAITING"]
        BY <2>4 DEF RereadPresent
      <3>2. (v # "WAITING") \in BOOLEAN
        OBVIOUS
      <3>3. /\ all_present' \in [Core -> BOOLEAN]
            /\ \A k \in Core : k # n => all_present'[k] = all_present[k]
        BY <3>1, <3>2 DEF BootTypes
      <3>4. i' = [i EXCEPT ![n] = i[n] + 1] /\ lowest_normal' = lowest_normal
        BY <2>4 DEF RereadPresent
      <3> QED
        BY <3>3, <3>4 DEF BootTypes
    <2> QED
      BY <2>1, <2>2, <2>3, <2>4
  <1>6. at[0] # "count" /\ start_roll_call /\ number_of_cores = hardware
    BY <1>1, <1>2 DEF Called, BootTypes
  <1>7. n # Watchdog /\ present[n] = "NORMAL"
    BY <1>2 DEF Answers, Unanswered
  <1>8. BootTypes'
    BY <1>2, <1>3, <1>5 DEF BootTypes
  <1>9. Called'
    BY <1>1, <1>2, <1>3, <1>6 DEF Called
  <1>10. Answers'
    BY <1>1, <1>2, <1>3, <1>6, <1>7 DEF Answers, Unanswered
  <1>11. ASSUME at[n] \in {"read", "reread"}, first_free_page = 0
         PROVE  i[n] \in Core /\ i[n] \in Nat /\ ValueRead(i[n]) = {present[i[n]]}
    <2>1. i[n] \in Nat /\ i[n] < hardware
      BY <1>11 DEF BootTypes, Seen, Scanning
    <2>2. i[n] \in Core
      BY <2>1 DEF Core, BootTypes
    <2>3. ~(first_free_page > PresentPage)
      BY <1>11 DEF PresentPage, Core0, writable_area_end, BootTypes
    <2> QED
      BY <2>1, <2>2, <2>3 DEF ValueRead
  <1>12. Seen'
    <2> SUFFICES ASSUME at'[n] \in Scanning, first_free_page = 0
                 PROVE  /\ all_present'[n] =>
                              \A k \in Core : k < i'[n] => present[k] # "WAITING"
                        /\ loads = 1 /\ all_present'[n] /\ lowest_normal'[n] =>
                              \A k \in Core : k < i'[n] /\ k < n => present[k] # "NORMAL"
                        /\ at'[n] \in {"read", "reread"} => i'[n] < hardware
                        /\ at'[n] = "decide" => i'[n] >= hardware
      BY <1>2, <1>3, <1>5 DEF Seen
    <2>1. CASE Loop(n)
      <3>1. i'[n] = 0 /\ at'[n] = "scan"
        BY <2>1 DEF Loop, Goto, BootTypes, Scanning
      <3> QED
        BY <1>1, <3>1
    <2>2. CASE Scan(n)
      <3>1. /\ at[n] = "scan" /\ at'[n] = (IF i[n] < hardware THEN "read" ELSE "decide")
            /\ i' = i /\ lowest_normal' = lowest_normal /\ all_present' = all_present
        BY <2>2, <1>6 DEF Scan, Goto, BootTypes, loopVars
      <3> QED
        BY <3>1, <1>1 DEF Seen, Scanning, BootTypes, Core
    <2>3. CASE ReadPresent(n)
      <3>1. /\ at[n] = "read" /\ at'[n] = (IF loads = 1 \/ ~all_present[n] THEN "scan" ELSE "reread")
            /\ i[n] < hardware
        BY <2>3 DEF ReadPresent, Goto, BootTypes, Seen, Scanning
      <3>2. /\ lowest_normal'[n] = (lowest_normal[n] /\ ~(present[i[n]] = "NORMAL" /\ i[n] < n))
            /\ all_present'[n] = (all_present[n] /\ (loads = 1 => present[i[n]] # "WAITING"))
        BY <1>4, <1>11, <2>3, <3>1 DEF BootTypes
      <3>3. i[n] \in Nat
        BY DEF BootTypes
      <3>4. i'[n] = (IF loads = 1 \/ ~all_present[n] THEN i[n] + 1 ELSE i[n])
        BY <1>4, <2>3 DEF BootTypes
      <3>5. CASE loads = 1
        <4>1. i'[n] = i[n] + 1 /\ at'[n] = "scan"
          BY <3>1, <3>4, <3>5
        <4>2. \A k \in Core : k < i'[n] => k < i[n] \/ k = i[n]
          BY <1>1, <3>3, <4>1
        <4> QED
          BY <3>1, <3>2, <3>5, <4>1, <4>2 DEF Seen, Scanning
      <3>6. CASE loads # 1 /\ all_present[n]
        <4>1. i'[n] = i[n] /\ at'[n] = "reread"
          BY <3>1, <3>4, <3>6
        <4> QED
          BY <3>1, <3>6, <4>1 DEF Seen, Scanning
      <3>7. CASE loads # 1 /\ ~all_present[n]
        BY <3>1, <3>2, <3>7
      <3> QED
        BY <3>5, <3>6, <3>7
    <2>4. CASE RereadPresent(n)
      <3>1. at[n] = "reread" /\ at'[n] = "scan" /\ loads = 2 /\ all_present[n]
        BY <2>4 DEF RereadPresent, Goto, BootTypes, Second
      <3>2. all_present'[n] = (present[i[n]] # "WAITING") /\ i'[n] = i[n] + 1 /\ i[n] \in Nat
        BY <1>11, <2>4, <3>1 DEF RereadPresent, BootTypes
      <3>3. \A k \in Core : k < i'[n] => k < i[n] \/ k = i[n]
        BY <1>1, <3>2
      <3>4. \A k \in Core : k < i[n] => present[k] # "WAITING"
        BY <3>1 DEF Seen, Scanning
      <3>5. all_present'[n] => \A k \in Core : k < i'[n] => present[k] # "WAITING"
        BY <3>2, <3>3, <3>4
      <3>6. at'[n] # "decide" /\ at'[n] \notin {"read", "reread"} /\ loads # 1
        BY <3>1
      <3> QED
        BY <3>5, <3>6
    <2>5. CASE Decide(n)
      BY <2>5 DEF Decide, Goto, BootTypes, Scanning
    <2> QED
      BY <2>1, <2>2, <2>3, <2>4, <2>5
  <1>13. Second'
    <2> SUFFICES ASSUME at'[n] = "reread" PROVE loads = 2 /\ all_present'[n]
      BY <1>2, <1>3, <1>5 DEF Second
    <2>1. ReadPresent(n)
      BY DEF Loop, Scan, ReadPresent, RereadPresent, Decide, Goto, BootTypes
    <2>2. loads # 1 /\ all_present[n]
      BY <2>1 DEF ReadPresent, Goto, BootTypes
    <2> QED
      BY <1>4, <2>1, <2>2 DEF BootTypes
  <1>14. Maker'
    <2> SUFFICES ASSUME at'[n] \in Making
                 PROVE  /\ first_free_page = 0
                        /\ \A k \in Core : present[k] # "WAITING"
                        /\ loads = 1 => \A k \in Core : k < n => present[k] # "NORMAL"
      BY <1>2, <1>3 DEF Maker
    <2>1. Decide(n) /\ at[n] = "decide" /\ IsMine(n)
      BY <1>2 DEF Loop, Scan, ReadPresent, RereadPresent, Decide, Goto, BootTypes, Making
    <2>2. first_free_page = 0 /\ all_present[n] /\ lowest_normal[n]
      BY <2>1 DEF IsMine
    <2>3. \A k \in Core : k < i[n]
      BY <2>1, <2>2 DEF Seen, Scanning, BootTypes, Core
    <2> QED
      BY <2>1, <2>2, <2>3 DEF Seen, Scanning
  <1>15. Late'
    BY <1>2, <1>3 DEF Late, Loop, Scan, ReadPresent, RereadPresent, Decide, Goto, BootTypes, Beyond
  <1>16. RollCallOver'
    <2>1. at'[n] \in Making /\ loads = 1 => first_free_page = 0
      BY <1>14, <1>3 DEF Maker
    <2> QED
      BY <1>2, <1>3, <2>1 DEF RollCallOver, Unanswered, Making
  <1>17. Bits'
    <2>1. PresentPage' = PresentPage
      BY <1>3 DEF PresentPage, Core0
    <2> QED
      BY <1>1, <1>2, <1>3, <2>1 DEF Bits, Stored
  <1> QED
    BY <1>8, <1>9, <1>10, <1>12, <1>13, <1>14, <1>15, <1>16, <1>17

(* The tables are made.  Before core 0 has used the page of the array, its *)
(* entries are what the cores have answered.                               *)
LEMMA BuildInv == ASSUME BootInv, NEW n \in Core, Build(n) PROVE BootInv'
  <1> USE DEF BootInv
  <1>1. 0 \in Core /\ Core \subseteq Nat
    BY CoreZero
  <1>2. /\ at[n] = "build" /\ at'[n] = "publish" /\ at' \in [Core -> Whereabouts]
        /\ \A k \in Core : k # n => at'[k] = at[k]
    BY GotoFacts DEF Build, Whereabouts, Making
  <1>3. /\ Core' = Core /\ hardware' = hardware /\ drivers' = drivers /\ loads' = loads
        /\ number_of_cores' = number_of_cores /\ present' = present
        /\ first_free_page' = first_free_page /\ start_roll_call' = start_roll_call
        /\ i' = i /\ lowest_normal' = lowest_normal /\ all_present' = all_present
        /\ standard_isambard_cores' = standard_isambard_cores
    BY DEF Build, Core, loopVars
  <1>4. /\ \A k \in Core : present[k] # "WAITING"
        /\ loads = 1 => /\ first_free_page = 0
                        /\ \A k \in Core : k < n => present[k] # "NORMAL"
    BY <1>2 DEF Maker, Making
  <1>5. at[0] # "count"
    BY <1>1, <1>2 DEF Called, BootTypes
  <1>6. \A k \in Core : at[k] \notin Unanswered /\ (present[k] = "NORMAL" <=> k # Watchdog)
    BY <1>4, <1>5 DEF Answers
  <1>7. PresentPage \in Nat /\ PresentPage' = PresentPage
    BY <1>3 DEF PresentPage, Core0, writable_area_end, BootTypes
  <1>8. ~(first_free_page > PresentPage) => present_bits' = present_bits \union (Core \ {Watchdog})
    <2>1. {k \in Core : present[k] = "NORMAL"} = Core \ {Watchdog}
      BY <1>6
    <2> QED
      BY <2>1 DEF Build
  <1>9. present_bits \subseteq present_bits'
    BY DEF Build
  <1>10. BootTypes'
    BY <1>2, <1>3 DEF BootTypes
  <1>11. Called'
    BY <1>1, <1>2, <1>3 DEF Called
  <1>12. Answers' /\ Seen' /\ Second'
    BY <1>1, <1>2, <1>3, <1>5 DEF Answers, Seen, Second, Unanswered, Scanning
  <1>13. Maker'
    BY <1>2, <1>3, <1>4 DEF Maker
  <1>14. Late'
    BY <1>2, <1>3 DEF Late, Beyond
  <1>15. RollCallOver'
    BY <1>2, <1>3, <1>4, <1>6 DEF RollCallOver, Unanswered
  <1>16. Bits'
    <2>1. at'[0] \in Stored \union {"himem"} => at[0] = at'[0]
      BY <1>1, <1>2 DEF Stored
    <2>2. at[0] \notin Stored => ~(first_free_page > PresentPage)
      BY <1>7 DEF Bits
    <2>3. at'[0] \notin Stored =>
            first_free_page \in {0, PresentPage} /\ present_bits' \subseteq Core \ {Watchdog}
      <3>1. at'[0] \notin Stored => at[0] \notin Stored
        BY <1>1, <1>2 DEF Stored
      <3> QED
        BY <1>8, <2>2, <3>1 DEF Bits
    <2>4. Core \ {Watchdog} \subseteq present_bits'
      <3>1. first_free_page > PresentPage => first_free_page # 0
        BY <1>7
      <3> QED
        BY <1>8, <1>9, <3>1 DEF Bits
    <2>5. at'[0] \in Stored \union {"himem"} => standard_isambard_cores = Core \ {Watchdog}
      BY <2>1 DEF Bits
    <2> QED
      BY <1>3, <1>7, <2>3, <2>4, <2>5 DEF Bits
  <1> QED
    BY <1>10, <1>11, <1>12, <1>13, <1>14, <1>15, <1>16

(* If the array is loaded once, the core that publishes is the only one    *)
(* that makes tables.                                                      *)
LEMMA PublishInv == ASSUME BootInv, NEW n \in Core, Publish(n) PROVE BootInv'
  <1> USE DEF BootInv
  <1>1. 0 \in Core /\ Core \subseteq Nat
    BY CoreZero
  <1>2. /\ at[n] = "publish" /\ at'[n] = "loop" /\ at' \in [Core -> Whereabouts]
        /\ \A k \in Core : k # n => at'[k] = at[k]
    BY GotoFacts DEF Publish, Whereabouts
  <1>3. /\ Core' = Core /\ hardware' = hardware /\ drivers' = drivers /\ loads' = loads
        /\ number_of_cores' = number_of_cores /\ present' = present
        /\ start_roll_call' = start_roll_call
        /\ i' = i /\ lowest_normal' = lowest_normal /\ all_present' = all_present
        /\ present_bits' = present_bits
        /\ standard_isambard_cores' = standard_isambard_cores
    BY DEF Publish, Core, loopVars
  <1>4. first_free_page' \in Nat \ {0} /\ first_free_page' = PresentPage
        /\ PresentPage' = PresentPage
    BY <1>3 DEF Publish, PresentPage, Core0, writable_area_end, BootTypes
  <1>5. /\ \A k \in Core : present[k] # "WAITING"
        /\ loads = 1 => \A k \in Core : k < n => present[k] # "NORMAL"
    BY <1>2 DEF Maker, Making
  <1>6. at[0] # "count" /\ present[n] = "NORMAL"
    BY <1>1, <1>2 DEF Called, Answers, Unanswered, BootTypes
  <1>7. \A k \in Core : at[k] \notin Unanswered
    BY <1>5, <1>6 DEF Answers
  <1>8. loads = 1 => \A k \in Core : at[k] \in Making => k = n
    <2> SUFFICES ASSUME loads = 1, NEW k \in Core, at[k] \in Making, k # n PROVE FALSE
      OBVIOUS
    <2>1. present[k] = "NORMAL" /\ \A j \in Core : j < k => present[j] # "NORMAL"
      BY DEF Maker, Answers, Making, Unanswered
    <2>2. k < n \/ n < k
      BY <1>1
    <2> QED
      BY <1>5, <1>6, <2>1, <2>2
  <1>9. BootTypes'
    BY <1>2, <1>3, <1>4 DEF BootTypes
  <1>10. Called'
    BY <1>1, <1>2, <1>3 DEF Called
  <1>11. Answers'
    BY <1>1, <1>2, <1>3, <1>6 DEF Answers, Unanswered
  <1>12. Seen' /\ Second' /\ Late'
    BY <1>2, <1>3, <1>4 DEF Seen, Second, Late
  <1>13. \A k \in Core : at'[k] \notin Unanswered /\ (loads = 1 => at'[k] \notin Making)
    BY <1>2, <1>7, <1>8 DEF Unanswered, Making
  <1>14. Maker' /\ RollCallOver'
    <2>1. Maker'
      BY <1>3, <1>5, <1>13 DEF Maker
    <2> QED
      BY <1>3, <1>13, <2>1 DEF RollCallOver
  <1>15. Bits'
    <2>1. at'[0] \in Stored \union {"himem"} => at[0] = at'[0]
      BY <1>1, <1>2 DEF Stored
    <2>2. at'[0] \notin Stored => at[0] \notin Stored
      BY <1>1, <1>2 DEF Stored
    <2>3. Core \ {Watchdog} \subseteq present_bits
      BY <1>2 DEF Bits
    <2> QED
      BY <1>3, <1>4, <2>1, <2>2, <2>3 DEF Bits
  <1> QED
    BY <1>9, <1>10, <1>11, <1>12, <1>14, <1>15

(* After the roll call, core 0 takes pages at first_free_page. *)
LEMMA BeyondInv ==
    ASSUME BootInv, NEW n \in Core,
           ClearCore(n) \/ (n = 0 /\ (EnterSecureEL1 \/ MapInitialStorage
                                       \/ \E top \in Top : IdleThread(top)))
    PROVE  BootInv'
  <1> USE DEF BootInv
  <1>1. 0 \in Core /\ Core \subseteq Nat
    BY CoreZero
  <1>2. /\ at[n] \in Beyond /\ at'[n] \in Beyond /\ at' \in [Core -> Whereabouts]
        /\ at[n] = "clear" => at'[n] \in {"el1", "parked"}
        /\ \A k \in Core : k # n => at'[k] = at[k]
    <2>1. CASE ClearCore(n)
      BY <2>1, GotoFacts DEF ClearCore, Whereabouts, Beyond
    <2>2. CASE n = 0 /\ EnterSecureEL1
      BY <2>2, GotoFacts DEF EnterSecureEL1, Whereabouts, Beyond
    <2>3. CASE n = 0 /\ MapInitialStorage
      <3>1. Goto(0, "himem", "maps") \/ Goto(0, "himem", "stopped")
        BY <2>3 DEF MapInitialStorage
      <3> QED
        BY <2>3, <3>1, GotoFacts DEF Whereabouts, Beyond
    <2>4. CASE n = 0 /\ \E top \in Top : IdleThread(top)
      BY <2>4, GotoFacts DEF IdleThread, Whereabouts, Beyond
    <2> QED
      BY <2>1, <2>2, <2>3, <2>4
  <1>3. /\ Core' = Core /\ hardware' = hardware /\ drivers' = drivers /\ loads' = loads
        /\ number_of_cores' = number_of_cores /\ present' = present
        /\ start_roll_call' = start_roll_call
        /\ i' = i /\ lowest_normal' = lowest_normal /\ all_present' = all_present
        /\ present_bits' = present_bits
    BY DEF ClearCore, EnterSecureEL1, MapInitialStorage, IdleThread, Core, loopVars, sharedVars
  <1>4. first_free_page # 0 /\ first_free_page' \in Nat \ {0}
    <2>1. first_free_page \in Nat \ {0}
      BY <1>2 DEF Late, BootTypes
    <2>2. \/ first_free_page' = first_free_page
          \/ first_free_page' = first_free_page + InterfacePages + HeapPages
      BY DEF ClearCore, EnterSecureEL1, MapInitialStorage, AfterStorage, IdleThread, sharedVars
    <2> QED
      BY <2>1, <2>2
  <1>5. at[0] # "count" /\ n # Watchdog /\ present[n] = "NORMAL"
    BY <1>1, <1>2 DEF Called, Answers, Unanswered, Beyond, BootTypes
  <1>6. BootTypes'
    BY <1>2, <1>3, <1>4 DEF BootTypes
  <1>7. Called'
    BY <1>1, <1>2, <1>3 DEF Called, Beyond
  <1>8. Answers'
    BY <1>1, <1>2, <1>3, <1>5 DEF Answers, Unanswered, Beyond
  <1>9. Seen' /\ Second' /\ Late'
    BY <1>2, <1>3, <1>4 DEF Seen, Second, Late, Beyond
  <1>10. \A k \in Core : at'[k] \notin Unanswered /\ (loads = 1 => at'[k] \notin Making)
    BY <1>2, <1>4 DEF RollCallOver, Unanswered, Making, Beyond
  <1>10a. \A k \in Core : at'[k] \in Making => at[k] \in Making
    BY <1>2 DEF Making, Beyond
  <1>11. Maker' /\ RollCallOver'
    <2>1. Maker'
      BY <1>3, <1>10, <1>10a DEF Maker
    <2> QED
      BY <1>3, <1>10, <2>1 DEF RollCallOver
  <1>12. Bits'
    <2> DEFINE all == Core \ {Watchdog}
    <2>0. PresentPage' = PresentPage
      BY <1>3 DEF PresentPage, Core0
    <2>1. all \subseteq present_bits
      BY <1>4 DEF Bits
    <2>2. CASE ClearCore(n)
      <3>1. standard_isambard_cores' = standard_isambard_cores /\ first_free_page' = first_free_page
        BY <2>2 DEF ClearCore, sharedVars
      <3>2. /\ at'[0] \in Stored \union {"himem"} => at'[0] = at[0]
            /\ at'[0] \notin Stored => at[0] \notin Stored
        BY <2>2, <1>1, <1>2, GotoFacts DEF ClearCore, Goto, Stored
      <3> QED
        BY <1>3, <2>0, <2>1, <3>1, <3>2 DEF Bits
    <2>3. CASE EnterSecureEL1
      <3>1. at[0] = "el1" /\ at'[0] = "himem" /\ first_free_page' = first_free_page
            /\ standard_isambard_cores' = present_bits
        BY <2>3, <1>1 DEF EnterSecureEL1, Goto, BootTypes
      <3>2. present_bits = all /\ first_free_page \in {0, PresentPage}
        BY <2>1, <3>1 DEF Bits, Stored
      <3> QED
        BY <1>3, <2>0, <3>1, <3>2 DEF Bits
    <2>4. CASE MapInitialStorage \/ \E top \in Top : IdleThread(top)
      <3>1. /\ at[0] \in {"himem", "maps"} /\ standard_isambard_cores' = standard_isambard_cores
            /\ at'[0] \in Stored
        BY <2>4, <1>1 DEF MapInitialStorage, IdleThread, Goto, sharedVars, BootTypes, Stored
      <3> QED
        BY <1>3, <2>1, <3>1 DEF Bits, Stored
    <2> QED
      BY <2>2, <2>3, <2>4
  <1> QED
    BY <1>6, <1>7, <1>8, <1>9, <1>11, <1>12

(* The allocator leaves the state of the roll call alone. *)
LEMMA BootStutter == ASSUME BootInv, UNCHANGED bootVars PROVE BootInv'
  <1>1. /\ Core' = Core /\ hardware' = hardware /\ drivers' = drivers /\ loads' = loads
        /\ number_of_cores' = number_of_cores /\ present' = present /\ at' = at
        /\ start_roll_call' = start_roll_call /\ first_free_page' = first_free_page
        /\ i' = i /\ lowest_normal' = lowest_normal /\ all_present' = all_present
        /\ present_bits' = present_bits
        /\ standard_isambard_cores' = standard_isambard_cores
    BY DEF bootVars, sharedVars, loopVars, Core
  <1>2. BootTypes' /\ Called' /\ Answers'
    BY <1>1 DEF BootInv, BootTypes, Called, Answers
  <1>3. Seen' /\ Second' /\ Maker' /\ Late' /\ RollCallOver'
    BY <1>1 DEF BootInv, Seen, Second, Maker, Late, RollCallOver
  <1>4. Bits'
    BY <1>1 DEF BootInv, Bits, PresentPage, Core0
  <1> QED
    BY <1>2, <1>3, <1>4 DEF BootInv

(* The inductive invariant of the start of the machine (el3.c), for any    *)
(* number of cores, any watchdog but core 0, any sizes of the image, and   *)
(* one load of present[i] or two: what depends on there being one says so. *)
THEOREM BootInvariant == BootSpec => []BootInv
  <1>1. BootInit => BootInv
    BY InitBootInv
  <1>2. BootInv /\ [BootNext]_<<bootVars, memoryVars>> => BootInv'
    <2> SUFFICES ASSUME BootInv, [BootNext]_<<bootVars, memoryVars>> PROVE BootInv'
      OBVIOUS
    <2>1. 0 \in Core
      BY CoreZero DEF BootInv
    <2>2. CASE Core0Step
      BY <2>1, <2>2, CountCoresInv, StartInv, BeyondInv DEF Core0Step
    <2>3. ASSUME NEW n \in Core, CoreStep(n) PROVE BootInv'
      BY <2>3, WaitInv, RollInv, LoopInv, BuildInv, PublishInv, BeyondInv DEF CoreStep
    <2>4. CASE Allocator \/ UNCHANGED <<bootVars, memoryVars>>
      BY <2>4, BootStutter DEF Allocator
    <2> QED
      BY <2>2, <2>3, <2>4 DEF BootNext
  <1> QED
    BY <1>1, <1>2, PTL DEF BootSpec

(* Once first_free_page is published, no core writes to the array of the   *)
(* roll call, whose page is about to be used for interfaces, however often *)
(* the loop loads present[i] (el3.c:91, 92); and if that is once, none     *)
(* makes the tables again, however late it looks.                          *)
THEOREM BootRollCallOver == BootSpec => []RollCallOver
  <1>1. BootInv => RollCallOver
    BY DEF BootInv
  <1> QED
    BY <1>1, BootInvariant, PTL

(* If present[i] is loaded once, the kernel makes idle threads for all     *)
(* cores but the watchdog: the bits that isambard_secure_el1 reads are     *)
(* complete.                                                               *)
THEOREM BootCoresCounted == BootSpec => []CoresCounted
  <1>1. BootInv => CoresCounted
    BY DEF BootInv, Bits, CoresCounted, Stored
  <1> QED
    BY <1>1, BootInvariant, PTL

-----------------------------------------------------------------------------
(* The kernel's memory.  The table that the first core makes: the image at *)
(* its own address and the Core structures moved down.                     *)
Built ==
    [v \in 0 .. CoresEnd(hardware) - 1 |->
        IF v < writable_area_end THEN v ELSE Core0 + v - writable_area_end]

(* Until map_initial_storage the table is empty or this one, and it is     *)
(* there when first_free_page is published.                                *)
TablesMade ==
    at[0] \notin Stored =>
        /\ kernel_tt_l3 = << >> \/ kernel_tt_l3 = Built
        /\ first_free_page \in {0, PresentPage}
        /\ (first_free_page # 0 \/ \E n \in Core : at[n] = "publish") =>
              kernel_tt_l3 = Built

(* After it no page is mapped twice, and all are below first_free_page, if *)
(* nobody publishes that once more.                                        *)
CoresReached ==
    \A n \in Core, k \in 0 .. CorePages - 1 :
        LET physical == Core0 + n * CorePages + k
        IN  kernel_tt_l3[MovedDown(physical)] = physical

MappedOnce ==
    \A v, w \in DOMAIN kernel_tt_l3 : kernel_tt_l3[v] = kernel_tt_l3[w] => v = w

MappedBelow ==
    \A v \in DOMAIN kernel_tt_l3 : kernel_tt_l3[v] \in 0 .. first_free_page - 1

StorageMapped ==
    loads = 1 /\ at[0] \in {"maps", "idle"} =>
        /\ CoresReached /\ MappedOnce /\ MappedBelow
        /\ Core0 <= first_free_page

(* The allocator is given what lies above, and once more from the same     *)
(* base by set_memory_top.                                                 *)
GivenAbove ==
    /\ at[0] # "idle" => given = {}
    /\ loads = 1 /\ at[0] = "idle" =>
          base = first_free_page /\ \A a \in given : a \in Int /\ a >= first_free_page

(* The pages of the kernel, its Core structures, its interfaces and its    *)
(* heap have an entry each.                                                *)
TablesFit == CoresEnd(MaxCores) + InterfacePages + HeapPages <= TablePages

NotStopped == TablesFit => at[0] # "stopped"

LayoutInv == /\ hardware <= MaxCores /\ at[0] # "parked"
             /\ TablesMade /\ StorageMapped /\ GivenAbove /\ NotStopped
-----------------------------------------------------------------------------
(* More cores need more pages. *)
LEMMA Rows ==
    ASSUME NEW n \in Nat, NEW h \in Nat, n < h, NEW w \in Nat
    PROVE  n * w \in Nat /\ n * w + w <= h * w
  <1>1. PICK d \in Nat : h = n + 1 + d
    <2>1. h - n - 1 \in Nat /\ h = n + 1 + (h - n - 1)
      OBVIOUS
    <2> QED
      BY <2>1
  <1>2. h * w = n * w + w + d * w /\ d * w \in Nat /\ n * w \in Nat
    BY <1>1
  <1> QED
    BY <1>2

(* The sizes that the layout is made of. *)
LEMMA ImageSizes ==
    ASSUME BootTypes, hardware <= MaxCores
    PROVE  /\ writable_area_end \in Nat \ {0} /\ Core0 \in Nat
           /\ hardware * CorePages \in Nat /\ number_of_cores * CorePages \in Nat
           /\ Core0 = writable_area_end + drivers
           /\ CoresEnd(hardware) = writable_area_end + hardware * CorePages
           /\ CoresEnd(hardware) <= CoresEnd(MaxCores) /\ CoresEnd(MaxCores) \in Nat
  <1>1. writable_area_end \in Nat \ {0} /\ Core0 = writable_area_end + drivers
    BY DEF writable_area_end, Core0
  <1>2. hardware * CorePages \in Nat /\ number_of_cores * CorePages \in Nat
    BY DEF BootTypes
  <1>3. hardware * CorePages <= MaxCores * CorePages /\ MaxCores * CorePages \in Nat
    <2>1. CASE hardware = MaxCores
      BY <2>1
    <2>2. CASE hardware < MaxCores
      BY <2>2, Rows DEF BootTypes
    <2> QED
      BY <2>1, <2>2 DEF BootTypes
  <1> QED
    BY <1>1, <1>2, <1>3 DEF CoresEnd, BootTypes

LEMMA BuiltDomain ==
    ASSUME BootTypes, hardware <= MaxCores
    PROVE  /\ DOMAIN Built = 0 .. CoresEnd(hardware) - 1
           /\ DOMAIN Built # {}
  <1>1. 0 \in 0 .. CoresEnd(hardware) - 1
    BY ImageSizes DEF BootTypes
  <1> QED
    BY <1>1 DEF Built

(* Steps that touch neither the table nor the allocator. *)
LEMMA LayoutFrame ==
    ASSUME BootInv, LayoutInv,
           UNCHANGED <<hardware, drivers, loads, number_of_cores, first_free_page,
                       kernel_tt_l3, base, given>>,
           \/ at'[0] = at[0]
           \/ at[0] \notin Stored /\ at'[0] \notin Stored \union {"parked"},
           \A n \in Core : at'[n] = "publish" => at[n] = "publish"
    PROVE  LayoutInv'
  <1>1. /\ Core' = Core /\ Built' = Built /\ Core0' = Core0 /\ PresentPage' = PresentPage
        /\ \A a : MovedDown(a)' = MovedDown(a)
    BY DEF Core, Built, CoresEnd, Core0, PresentPage, MovedDown
  <1>2. TablesMade'
    BY <1>1 DEF LayoutInv, TablesMade
  <1>3. CoresReached' = CoresReached /\ MappedOnce' = MappedOnce /\ MappedBelow' = MappedBelow
    <2>1. CoresReached' = CoresReached
      BY <1>1 DEF CoresReached, MovedDown, Core0
    <2> QED
      BY <2>1 DEF MappedOnce, MappedBelow
  <1>4. StorageMapped'
    BY <1>1, <1>3 DEF LayoutInv, StorageMapped, Stored
  <1>5. GivenAbove' /\ NotStopped'
    BY DEF LayoutInv, GivenAbove, NotStopped, Stored, TablesFit, CoresEnd
  <1> QED
    BY <1>2, <1>4, <1>5 DEF LayoutInv

LEMMA InitLayout == BootInit => LayoutInv
  <1> SUFFICES ASSUME BootInit PROVE LayoutInv
    OBVIOUS
  <1>1. hardware \in 1 .. MaxCores /\ drivers \in Nat
    BY DEF BootInit
  <1>2. 0 \in Core /\ at[0] = "count" /\ \A n \in Core : at[n] # "publish"
    BY <1>1 DEF BootInit, Core
  <1>3. first_free_page = 0 /\ kernel_tt_l3 = << >> /\ given = {}
    BY DEF BootInit, MemoryInit
  <1> QED
    BY <1>1, <1>2, <1>3
    DEF LayoutInv, TablesMade, StorageMapped, GivenAbove, NotStopped, Stored

(* Core 0 counts before anybody makes a table. *)
LEMMA CountCoresLayout == ASSUME BootInv, LayoutInv, CountCores PROVE LayoutInv'
  <1>1. 0 \in Core
    BY CoreZero DEF BootInv
  <1>2. at[0] = "count" /\ at'[0] = "start" /\ first_free_page = 0
    BY <1>1 DEF CountCores, Goto, BootInv, BootTypes, RollCallOver, Unanswered
  <1>3. /\ UNCHANGED <<hardware, drivers, loads, first_free_page, kernel_tt_l3, base, given>>
        /\ Core' = Core /\ Built' = Built
    BY DEF CountCores, Core, Built, CoresEnd, Core0, memoryVars, historyVars
  <1>4. \A n \in Core : at'[n] = "publish" => at[n] = "publish"
    BY <1>1, <1>2 DEF CountCores, Goto, BootInv, BootTypes
  <1>5. TablesMade'
    BY <1>2, <1>3, <1>4 DEF LayoutInv, TablesMade, Stored
  <1> QED
    BY <1>2, <1>3, <1>5 DEF LayoutInv, StorageMapped, GivenAbove, NotStopped, Stored

(* The roll call and the loop. *)
LEMMA RollLayout ==
    ASSUME BootInv, LayoutInv, NEW n \in Core,
           \/ n = 0 /\ (StartRollCall \/ SendEvent)
           \/ LookForStart(n) \/ WaitForEvent(n) \/ roll_call(n)
           \/ Loop(n) \/ Scan(n) \/ ReadPresent(n) \/ RereadPresent(n) \/ Decide(n)
           \/ ClearCore(n)
    PROVE  LayoutInv'
  <1>1. UNCHANGED <<hardware, drivers, loads, number_of_cores, first_free_page,
                    kernel_tt_l3, base, given>>
    BY DEF StartRollCall, SendEvent, LookForStart, WaitForEvent, roll_call, Loop, Scan,
           ReadPresent, RereadPresent, Decide, ClearCore, sharedVars, memoryVars, historyVars
  <1>2. PICK from, to : /\ Goto(n, from, to)
                        /\ from \notin Stored /\ to \notin Stored \union {"publish"}
                        /\ n = 0 => to # "parked"
    BY DEF StartRollCall, SendEvent, LookForStart, WaitForEvent, roll_call, Loop, Scan,
           ReadPresent, RereadPresent, Decide, ClearCore, Stored
  <1>3. at[n] = from /\ at'[n] = to /\ \A k \in Core : k # n => at'[k] = at[k]
    BY <1>2 DEF Goto, BootInv, BootTypes
  <1>4. 0 \in Core
    BY CoreZero DEF BootInv
  <1> QED
    BY <1>1, <1>2, <1>3, <1>4, LayoutFrame

(* The tables are the same, whoever makes them and however often. *)
LEMMA SharedTables ==
    ASSUME BootInv, LayoutInv, at[0] \notin Stored \union {"count"}
    PROVE  SharedKernelTables = Built
  <1>1. number_of_cores = hardware
    BY DEF BootInv, Called
  <1>2. kernel_tt_l3 = << >> \/ kernel_tt_l3 = Built
    BY DEF LayoutInv, TablesMade
  <1>3. DOMAIN Built # {}
    BY BuiltDomain DEF BootInv, LayoutInv
  <1>4. CASE kernel_tt_l3 = << >>
    <2>1. DOMAIN kernel_tt_l3 = {}
      BY <1>4
    <2> QED
      BY <1>1, <2>1 DEF SharedKernelTables, Built
  <1>5. CASE kernel_tt_l3 = Built
    BY <1>3, <1>5 DEF SharedKernelTables
  <1> QED
    BY <1>2, <1>4, <1>5

(* A core that makes tables when core 0 has gone on has loaded the array   *)
(* twice.                                                                  *)
LEMMA MakerLate ==
    ASSUME BootInv, NEW n \in Core, at[n] \in Making, at[0] \in Stored
    PROVE  loads = 2 /\ n # 0
  <1>1. 0 \in Core
    BY CoreZero DEF BootInv
  <1>2. first_free_page # 0
    BY <1>1 DEF BootInv, Late, Beyond, Stored
  <1> QED
    BY <1>2 DEF BootInv, BootTypes, Maker, Making, Stored

LEMMA BuildLayout == ASSUME BootInv, LayoutInv, NEW n \in Core, Build(n) PROVE LayoutInv'
  <1>1. 0 \in Core
    BY CoreZero DEF BootInv
  <1>2. /\ at[n] = "build" /\ at'[n] = "publish"
        /\ \A k \in Core : k # n => at'[k] = at[k]
    BY DEF Build, Goto, BootInv, BootTypes
  <1>3. UNCHANGED <<hardware, drivers, loads, number_of_cores, first_free_page, base, given>>
    BY DEF Build, memoryVars, historyVars
  <1>4. CASE at[0] \in Stored
    <2>1. loads = 2 /\ at'[0] = at[0]
      BY <1>1, <1>2, <1>4, MakerLate DEF Making
    <2> QED
      BY <1>3, <1>4, <2>1
      DEF LayoutInv, TablesMade, StorageMapped, GivenAbove, NotStopped, TablesFit, CoresEnd
  <1>5. CASE at[0] \notin Stored
    <2>1. at[0] # "count" /\ at'[0] \notin Stored \union {"parked"}
      BY <1>1, <1>2, <1>5 DEF BootInv, Called, Stored, LayoutInv
    <2>2. kernel_tt_l3' = Built
      BY <1>5, <2>1, SharedTables DEF Build
    <2>3. Built' = Built /\ PresentPage' = PresentPage
      BY <1>3 DEF Built, CoresEnd, Core0, PresentPage
    <2>4. TablesMade'
      BY <1>3, <1>5, <2>2, <2>3 DEF LayoutInv, TablesMade
    <2> QED
      BY <1>3, <1>5, <2>1, <2>4
      DEF LayoutInv, StorageMapped, GivenAbove, NotStopped, Stored
  <1> QED
    BY <1>4, <1>5

LEMMA PublishLayout == ASSUME BootInv, LayoutInv, NEW n \in Core, Publish(n) PROVE LayoutInv'
  <1>1. 0 \in Core
    BY CoreZero DEF BootInv
  <1>2. /\ at[n] = "publish" /\ at'[n] = "loop"
        /\ \A k \in Core : k # n => at'[k] = at[k]
    BY DEF Publish, Goto, BootInv, BootTypes
  <1>3. /\ first_free_page' = PresentPage
        /\ UNCHANGED <<hardware, drivers, loads, number_of_cores, kernel_tt_l3, base, given>>
    BY DEF Publish, memoryVars, historyVars
  <1>4. CASE at[0] \in Stored
    <2>1. loads = 2 /\ at'[0] = at[0]
      BY <1>1, <1>2, <1>4, MakerLate DEF Making
    <2> QED
      BY <1>3, <1>4, <2>1
      DEF LayoutInv, TablesMade, StorageMapped, GivenAbove, NotStopped, TablesFit, CoresEnd
  <1>5. CASE at[0] \notin Stored
    <2>1. at'[0] \notin Stored \union {"parked"}
      BY <1>1, <1>2, <1>5 DEF Stored, LayoutInv
    <2>2. Built' = Built /\ PresentPage' = PresentPage
      BY <1>3 DEF Built, CoresEnd, Core0, PresentPage
    <2>3. kernel_tt_l3 = Built
      BY <1>2, <1>5 DEF LayoutInv, TablesMade
    <2>4. TablesMade'
      BY <1>3, <2>2, <2>3 DEF TablesMade
    <2> QED
      BY <1>3, <1>5, <2>1, <2>4
      DEF LayoutInv, StorageMapped, GivenAbove, NotStopped, Stored
  <1> QED
    BY <1>4, <1>5

LEMMA EnterLayout == ASSUME BootInv, LayoutInv, EnterSecureEL1 PROVE LayoutInv'
  <1>1. 0 \in Core
    BY CoreZero DEF BootInv
  <1>2. /\ at[0] = "el1" /\ at'[0] = "himem"
        /\ \A k \in Core : k # 0 => at'[k] = at[k]
    BY <1>1 DEF EnterSecureEL1, Goto, BootInv, BootTypes
  <1>3. first_free_page # 0
    BY <1>1, <1>2 DEF BootInv, Late, Beyond
  <1>4. kernel_tt_l3 = Built
    BY <1>2, <1>3 DEF LayoutInv, TablesMade, Stored
  <1>5. SharedKernelTables = Built
    BY <1>2, SharedTables DEF Stored
  <1>6. UNCHANGED <<hardware, drivers, loads, number_of_cores, first_free_page,
                    kernel_tt_l3, base, given>>
    BY <1>4, <1>5 DEF EnterSecureEL1, memoryVars, historyVars
  <1> QED
    BY <1>1, <1>2, <1>6, LayoutFrame DEF Stored

(* The two pieces that map_initial_storage adds. *)
NewPages == CoresEnd(hardware) .. CoresEnd(hardware) + InterfacePages - 1
TopPages == TablePages - HeapPages .. TablePages - 1

Free == /\ NewPages \intersect TopPages = {}
        /\ (NewPages \union TopPages) \intersect DOMAIN kernel_tt_l3 = {}
        /\ NewPages \union TopPages \subseteq 0 .. TablePages - 1

LEMMA StorageFacts ==
    ASSUME BootInv, LayoutInv, MapInitialStorage
    PROVE  /\ at[0] = "himem" /\ at' = [at EXCEPT ![0] = IF Free THEN "maps" ELSE "stopped"]
           /\ kernel_tt_l3' =
                [v \in DOMAIN kernel_tt_l3 \union NewPages \union TopPages |->
                    CASE v \in DOMAIN kernel_tt_l3 -> kernel_tt_l3[v]
                      [] v \in NewPages \ DOMAIN kernel_tt_l3 ->
                            first_free_page + v - CoresEnd(hardware)
                      [] OTHER ->
                            first_free_page + InterfacePages + v - (TablePages - HeapPages)]
           /\ first_free_page' = first_free_page + InterfacePages + HeapPages
           /\ UNCHANGED <<hardware, drivers, loads, number_of_cores, base, given>>
  <1>1. 0 \in Core /\ at[0] = "himem"
    BY CoreZero DEF BootInv, MapInitialStorage, Goto
  <1>2. number_of_cores = hardware
    BY <1>1 DEF BootInv, Called
  <1>3. CoresEnd(hardware) \in Nat
    BY ImageSizes DEF BootInv, BootTypes, LayoutInv
  <1> DEFINE e == CoresEnd(hardware)
             new == [v \in NewPages |-> first_free_page + v - e]
             top == [v \in TopPages |-> first_free_page + InterfacePages + v - (TablePages - HeapPages)]
  <1>4. /\ {InterfacesAt[k] : k \in DOMAIN InterfacesAt} = NewPages
        /\ InterfacesAt[0] = e
    <2>1. InterfacesAt = [k \in 0 .. InterfacePages - 1 |-> e + k]
      BY <1>2 DEF InterfacesAt
    <2>2. \A v \in NewPages : v - e \in 0 .. InterfacePages - 1 /\ e + (v - e) = v
      BY <1>3 DEF NewPages
    <2>3. \A k \in 0 .. InterfacePages - 1 : e + k \in NewPages
      BY <1>3 DEF NewPages
    <2>4. 0 \in 0 .. InterfacePages - 1 /\ e + 0 = e
      BY <1>3
    <2> HIDE DEF e
    <2> QED
      BY <2>1, <2>2, <2>3, <2>4
  <1>5. /\ {HeapAt[k] : k \in DOMAIN HeapAt} = TopPages
        /\ HeapAt[0] = TablePages - HeapPages
    <2>1. HeapAt = [k \in 0 .. HeapPages - 1 |-> TablePages - HeapPages + k]
      BY DEF HeapAt
    <2>2. \A v \in TopPages : /\ v - (TablePages - HeapPages) \in 0 .. HeapPages - 1
                              /\ TablePages - HeapPages + (v - (TablePages - HeapPages)) = v
      BY DEF TopPages
    <2>3. \A k \in 0 .. HeapPages - 1 : TablePages - HeapPages + k \in TopPages
      BY DEF TopPages
    <2>4. 0 \in 0 .. HeapPages - 1 /\ TablePages - HeapPages + 0 = TablePages - HeapPages
      OBVIOUS
    <2> QED
      BY <2>1, <2>2, <2>3, <2>4
  <1>6. /\ at' = [at EXCEPT ![0] = IF Free THEN "maps" ELSE "stopped"]
        /\ kernel_tt_l3' =
                [v \in DOMAIN kernel_tt_l3 \union NewPages \union TopPages |->
                    CASE v \in DOMAIN kernel_tt_l3 -> kernel_tt_l3[v]
                      [] v \in NewPages \ DOMAIN kernel_tt_l3 -> new[v]
                      [] OTHER -> top[v]]
    BY <1>4, <1>5 DEF MapInitialStorage, Free, Goto
  <1>7. kernel_tt_l3' =
                [v \in DOMAIN kernel_tt_l3 \union NewPages \union TopPages |->
                    CASE v \in DOMAIN kernel_tt_l3 -> kernel_tt_l3[v]
                      [] v \in NewPages \ DOMAIN kernel_tt_l3 -> first_free_page + v - e
                      [] OTHER ->
                            first_free_page + InterfacePages + v - (TablePages - HeapPages)]
    <2>1. \A v \in NewPages : new[v] = first_free_page + v - e
      OBVIOUS
    <2>2. \A v \in TopPages :
             top[v] = first_free_page + InterfacePages + v - (TablePages - HeapPages)
      OBVIOUS
    <2> HIDE DEF new, top
    <2> QED
      BY <1>6, <2>1, <2>2
  <1> QED
    BY <1>1, <1>6, <1>7 DEF MapInitialStorage, AfterStorage, memoryVars, historyVars

(* Each page gets an entry of its own, and the Core structures keep theirs. *)
LEMMA StorageLayout == ASSUME BootInv, LayoutInv, MapInitialStorage PROVE LayoutInv'
  <1> DEFINE e == CoresEnd(hardware)
             f == first_free_page
             t == kernel_tt_l3'
  <1>1. /\ at[0] = "himem" /\ at'[0] = IF Free THEN "maps" ELSE "stopped"
    BY StorageFacts, CoreZero DEF BootInv, BootTypes
  <1>2. /\ f # 0 /\ f = PresentPage /\ kernel_tt_l3 = Built
    BY <1>1, CoreZero DEF BootInv, Late, Beyond, LayoutInv, TablesMade, Stored
  <1>3. /\ number_of_cores = hardware /\ hardware \in Nat \ {0} /\ drivers \in Nat
    BY <1>1 DEF BootInv, BootTypes, Called
  <1>4. /\ writable_area_end \in Nat \ {0} /\ Core0 \in Nat /\ e \in Nat
        /\ Core0 = writable_area_end + drivers
        /\ hardware * CorePages \in Nat
        /\ e = writable_area_end + hardware * CorePages
        /\ e <= CoresEnd(MaxCores) /\ CoresEnd(MaxCores) \in Nat
    BY ImageSizes DEF BootInv, BootTypes, LayoutInv
  <1>5. f = Core0 + hardware * CorePages /\ f \in Nat
    BY <1>2, <1>3, <1>4 DEF PresentPage
  <1>6. /\ DOMAIN kernel_tt_l3 = 0 .. e - 1
        /\ \A v \in 0 .. e - 1 :
              kernel_tt_l3[v] = IF v < writable_area_end THEN v ELSE Core0 + v - writable_area_end
    BY <1>2 DEF Built
  <1>7. NotStopped'
    <2> SUFFICES ASSUME TablesFit PROVE Free
      BY <1>1 DEF NotStopped, TablesFit, CoresEnd, writable_area_end
    <2>1. e + InterfacePages + HeapPages <= TablePages
      BY <1>4 DEF TablesFit
    <2>2. \A v \in NewPages : v \in Nat /\ v >= e /\ v < TablePages - HeapPages
      BY <1>4, <2>1 DEF NewPages
    <2>3. \A v \in TopPages : v \in Nat /\ v >= TablePages - HeapPages /\ v < TablePages
      BY <1>4, <2>1 DEF TopPages
    <2>4. e <= TablePages - HeapPages
      BY <1>4, <2>1
    <2> HIDE DEF e
    <2> QED
      BY <1>4, <1>6, <2>2, <2>3, <2>4, SMTT(30) DEF Free
  <1>8. /\ UNCHANGED <<hardware, drivers, loads, base, given>>
        /\ first_free_page' = f + InterfacePages + HeapPages
        /\ Core' = Core /\ Core0' = Core0
        /\ \A a : MovedDown(a)' = MovedDown(a)
    BY StorageFacts DEF Core, Core0, MovedDown
  <1>9. GivenAbove' /\ TablesMade'
    BY <1>1, <1>8 DEF LayoutInv, GivenAbove, TablesMade, Stored
  <1>10. CASE ~Free
    BY <1>1, <1>7, <1>8, <1>9, <1>10 DEF LayoutInv, StorageMapped
  <1>11. CASE Free
    <2>1. /\ DOMAIN t = (0 .. e - 1) \union NewPages \union TopPages
          /\ \A v \in 0 .. e - 1 : t[v] = kernel_tt_l3[v]
          /\ \A v \in NewPages : t[v] = f + v - e
          /\ \A v \in TopPages : t[v] = f + InterfacePages + v - (TablePages - HeapPages)
      <3>1. NewPages \intersect (0 .. e - 1) = {} /\ TopPages \intersect (0 .. e - 1) = {}
            /\ NewPages \intersect TopPages = {}
        BY <1>6, <1>11 DEF Free
      <3> HIDE DEF e
      <3> QED
        BY <1>6, <3>1, StorageFacts DEF e
    <2>2. \A v \in 0 .. e - 1 : /\ t[v] \in 0 .. f - 1
                                /\ v < writable_area_end => t[v] = v
                                /\ v >= writable_area_end => t[v] = v + drivers
      BY <1>3, <1>4, <1>5, <1>6, <2>1
    <2>3. \A v \in NewPages : t[v] = f + (v - e) /\ v - e \in 0 .. InterfacePages - 1
      BY <1>4, <1>5, <2>1 DEF NewPages
    <2>4. \A v \in TopPages : /\ t[v] = f + InterfacePages + (v - (TablePages - HeapPages))
                              /\ v - (TablePages - HeapPages) \in 0 .. HeapPages - 1
                              /\ v \in Int
      BY <1>5, <2>1 DEF TopPages
    <2>5. MappedBelow'
      <3> SUFFICES ASSUME NEW v \in DOMAIN t
                   PROVE  t[v] \in 0 .. first_free_page' - 1
        BY DEF MappedBelow
      <3>1. CASE v \in 0 .. e - 1
        BY <3>1, <2>2, <1>5, <1>8
      <3>2. CASE v \in NewPages
        BY <3>2, <2>3, <1>5, <1>8
      <3>3. CASE v \in TopPages
        BY <3>3, <2>4, <1>5, <1>8
      <3> QED
        BY <2>1, <3>1, <3>2, <3>3
    <2>6. MappedOnce'
      <3> SUFFICES ASSUME NEW v \in DOMAIN t, NEW w \in DOMAIN t, t[v] = t[w]
                   PROVE  v = w
        BY DEF MappedOnce
      <3>0. f \in Nat /\ e \in Nat /\ \A x \in NewPages : x \in Nat
        BY <1>4, <1>5 DEF NewPages
      <3> HIDE DEF f, e, t
      <3>1. /\ \A x \in 0 .. e - 1 : t[x] < f
            /\ \A x \in NewPages : t[x] >= f /\ t[x] < f + InterfacePages
            /\ \A x \in TopPages : t[x] >= f + InterfacePages
        BY <3>0, <2>2, <2>3, <2>4
      <3>2. CASE v \in 0 .. e - 1 /\ w \in 0 .. e - 1
        BY <3>0, <3>2, <1>3, <1>4, <2>2
      <3>3. CASE v \in NewPages /\ w \in NewPages
        <4>1. f + (v - e) = f + (w - e) /\ v \in Nat /\ w \in Nat
          BY <3>0, <3>3, <2>3
        <4>2. \A a, b, x, y \in Nat : a + (x - b) = a + (y - b) => x = y
          OBVIOUS
        <4> QED
          BY <3>0, <4>1, <4>2, Zenon
      <3>4. CASE v \in TopPages /\ w \in TopPages
        BY <3>0, <3>4, <2>4
      <3>5. t[v] \in Int /\ t[w] \in Int
        BY <3>0, <2>1, <2>2, <2>3, <2>4
      <3> QED
        BY <3>0, <3>1, <3>2, <3>3, <3>4, <3>5, <2>1
    <2>7. CoresReached'
      <3> SUFFICES ASSUME NEW n \in Core, NEW k \in 0 .. CorePages - 1
                   PROVE  t[MovedDown(Core0 + n * CorePages + k)] = Core0 + n * CorePages + k
        BY <1>8 DEF CoresReached, MovedDown, Core0
      <3>1. /\ n * CorePages \in Nat
            /\ n * CorePages + CorePages <= hardware * CorePages
        BY Rows, <1>3 DEF Core
      <3>2. MovedDown(Core0 + n * CorePages + k) = writable_area_end + n * CorePages + k
        BY <1>3, <1>4, <3>1 DEF MovedDown
      <3>3. writable_area_end + n * CorePages + k \in 0 .. e - 1
        BY <1>4, <3>1
      <3> QED
        BY <1>3, <1>4, <2>2, <3>1, <3>2, <3>3
    <2> QED
      BY <1>1, <1>4, <1>5, <1>7, <1>8, <1>9, <2>5, <2>6, <2>7 DEF LayoutInv, StorageMapped
  <1> QED
    BY <1>10, <1>11

(* The idle thread gives away what lies above first_free_page. *)
LEMMA IdleLayout ==
    ASSUME BootInv, LayoutInv, NEW top \in Top, IdleThread(top)
    PROVE  LayoutInv'
  <1>1. 0 \in Core
    BY CoreZero DEF BootInv
  <1>2. at[0] = "maps" /\ at'[0] = "idle"
    BY <1>1 DEF IdleThread, Goto, BootInv, BootTypes
  <1>3. /\ UNCHANGED <<hardware, drivers, loads, number_of_cores, first_free_page, kernel_tt_l3>>
        /\ base' = first_free_page
        /\ given' = given \union first_free_page .. top - 1
    BY DEF IdleThread, Initialise, FreeArea
  <1>4. given = {} /\ first_free_page \in Nat /\ top \in Nat
    BY <1>2, MemoryAssumption DEF LayoutInv, GivenAbove, BootInv, BootTypes
  <1>5. GivenAbove'
    BY <1>2, <1>3, <1>4 DEF GivenAbove
  <1>6. /\ CoresReached' = CoresReached /\ MappedOnce' = MappedOnce /\ MappedBelow' = MappedBelow
        /\ Core0' = Core0
    <2>1. Core' = Core /\ Core0' = Core0 /\ \A a : MovedDown(a)' = MovedDown(a)
      BY <1>3 DEF Core, Core0, MovedDown
    <2> QED
      BY <1>3, <2>1 DEF CoresReached, MappedOnce, MappedBelow, MovedDown, Core0
  <1> QED
    BY <1>2, <1>3, <1>5, <1>6
    DEF LayoutInv, StorageMapped, NotStopped, TablesMade, Stored

(* The allocator is given memory from the same base again, or none. *)
LEMMA AllocatorLayout == ASSUME BootInv, LayoutInv, Allocator PROVE LayoutInv'
  <1>1. 0 \in Core
    BY CoreZero DEF BootInv
  <1>2. /\ UNCHANGED <<hardware, drivers, loads, number_of_cores, first_free_page,
                       kernel_tt_l3, at>>
        /\ at[0] \in {"idle", "parked", "watchdog"}
    BY <1>1 DEF Allocator, Settled, bootVars, sharedVars
  <1>3. CASE \E top \in Top : set_memory_top(top)
    <2>1. PICK top \in Top : set_memory_top(top)
      BY <1>3
    <2>2. base' = base /\ given' = given \union base .. top - 1 /\ top \in Nat
      BY <2>1, MemoryAssumption DEF set_memory_top, FreeArea
    <2>3. CASE at[0] = "idle"
      <3>1. GivenAbove'
        BY <1>2, <2>2, <2>3 DEF LayoutInv, GivenAbove, BootInv, BootTypes
      <3>2. /\ CoresReached' = CoresReached /\ MappedOnce' = MappedOnce
            /\ MappedBelow' = MappedBelow /\ Core0' = Core0
        <4>1. Core' = Core /\ Core0' = Core0 /\ \A a : MovedDown(a)' = MovedDown(a)
          BY <1>2 DEF Core, Core0, MovedDown
        <4> QED
          BY <1>2, <4>1 DEF CoresReached, MappedOnce, MappedBelow, MovedDown, Core0
      <3> QED
        BY <1>2, <2>3, <3>1, <3>2
        DEF LayoutInv, StorageMapped, NotStopped, TablesMade, Stored
    <2>4. CASE at[0] # "idle"
      <3>1. FALSE
        BY <1>1, <1>2, <2>4 DEF BootInv, Answers, LayoutInv
      <3> QED
        BY <3>1
    <2> QED
      BY <2>3, <2>4
  <1>4. CASE UNCHANGED <<base, given>>
    BY <1>2, <1>4, LayoutFrame
  <1> QED
    BY <1>3, <1>4 DEF Allocator, Serve, CarveUp, CarveChunk, CarveDown, AllReleased,
       ReleaseFirst, InsertWalk, InsertHere, Allocate, SearchOn, NothingFound, TakeWhole,
       TakeTop, HandOut, SplitOff, SplitOn, SplitDone, Exception, memoryVars, historyVars

(* The layout of the kernel's memory, from reset to the allocator's work. *)
THEOREM BootLayout == BootSpec => []LayoutInv
  <1>1. BootInit => LayoutInv
    BY InitLayout
  <1>2. BootInv /\ LayoutInv /\ [BootNext]_<<bootVars, memoryVars>> => LayoutInv'
    <2> SUFFICES ASSUME BootInv, LayoutInv, [BootNext]_<<bootVars, memoryVars>> PROVE LayoutInv'
      OBVIOUS
    <2>1. 0 \in Core
      BY CoreZero DEF BootInv
    <2>2. CASE Core0Step
      BY <2>1, <2>2, CountCoresLayout, RollLayout, EnterLayout, StorageLayout, IdleLayout
      DEF Core0Step
    <2>3. ASSUME NEW n \in Core, CoreStep(n) PROVE LayoutInv'
      BY <2>3, RollLayout, BuildLayout, PublishLayout DEF CoreStep
    <2>4. CASE Allocator
      BY <2>4, AllocatorLayout
    <2>5. CASE UNCHANGED <<bootVars, memoryVars>>
      BY <2>1, <2>5, LayoutFrame DEF bootVars, sharedVars, memoryVars, historyVars
    <2> QED
      BY <2>2, <2>3, <2>4, <2>5 DEF BootNext
  <1> QED
    BY <1>1, <1>2, BootInvariant, PTL DEF BootSpec

(* When the table has an entry for every page (the code checks that and    *)
(* stops otherwise), core 0 does not stop in map_initial_storage.  If the  *)
(* code loads present[i] once (el3.c:91), every Core structure is where    *)
(* switch_to_running_in_high_memory moves it, no page is mapped twice, and *)
(* neither the kernel's pages nor the image are ever given to the          *)
(* allocator, whatever the number of cores and the size of the image.      *)
THEOREM BootKernelApart == ASSUME TablesFit PROVE BootSpec => []KernelApart
  <1>1. BootInv /\ LayoutInv => KernelApart
    <2> SUFFICES ASSUME BootInv, LayoutInv PROVE KernelApart
      OBVIOUS
    <2>1. at[0] # "stopped"
      BY DEF LayoutInv, NotStopped
    <2>2. ASSUME loads = 1, at[0] = "idle"
          PROVE  /\ CoresReached /\ MappedOnce
                 /\ {kernel_tt_l3[v] : v \in DOMAIN kernel_tt_l3} \intersect given = {}
                 /\ (0 .. Core0 - 1) \intersect given = {}
      <3>1. /\ CoresReached /\ MappedOnce /\ MappedBelow /\ Core0 <= first_free_page
            /\ \A a \in given : a \in Int /\ a >= first_free_page
        BY <2>2 DEF LayoutInv, StorageMapped, GivenAbove
      <3>2. Core0 \in Nat /\ first_free_page \in Nat
        BY ImageSizes DEF BootInv, BootTypes, LayoutInv
      <3>3. \A v \in DOMAIN kernel_tt_l3 : kernel_tt_l3[v] \notin given
        BY <3>1, <3>2 DEF MappedBelow
      <3>4. \A a \in 0 .. Core0 - 1 : a \notin given
        BY <3>1, <3>2
      <3> QED
        BY <3>1, <3>3, <3>4
    <2> QED
      BY <2>1, <2>2 DEF KernelApart, CoresReached, MappedOnce
  <1> QED
    BY <1>1, BootInvariant, BootLayout, PTL

-----------------------------------------------------------------------------
(* The allocator.  Its lists are walked by Chain, a recursive function;    *)
(* what is said of every number of steps is proved as a statement about    *)
(* the set of those numbers.                                               *)
(* A set of numbers has a least one, by the well-foundedness of <. *)
LEMMA LeastNumber ==
    ASSUME NEW T \in SUBSET Nat, T # {}
    PROVE  \E m \in T : \A n \in T : m <= n
  <1> DEFINE R == {ss \in Nat \X Nat : ss[1] < ss[2]}
  <1>2. IsWellFoundedOn(R, Nat)
    BY NatLessThanWellFounded, Zenon DEF OpToRel
  <1>1. \A m, n \in Nat : <<n, m>> \in R <=> n < m
    OBVIOUS
  <1> HIDE DEF R
  <1>3. PICK m \in T : \A n \in T : ~(<<n, m>> \in R)
    BY <1>2, WFMin
  <1>4. ASSUME NEW n \in T PROVE m <= n
    <2>1. m \in Nat /\ n \in Nat
      OBVIOUS
    <2>2. ~(<<n, m>> \in R)
      BY <1>3
    <2>3. ~(n < m)
      BY <1>1, <2>1, <2>2
    <2>4. QED
      BY <2>1, <2>3
  <1>5. QED
    BY <1>4

(* Induction over a set of numbers. *)
LEMMA NumbersInduction ==
    ASSUME NEW S \in SUBSET Nat, 0 \in S, \A n \in S : n + 1 \in S
    PROVE  S = Nat
  <1>1. SUFFICES ASSUME Nat \ S # {} PROVE FALSE
    OBVIOUS
  <1>2. PICK m \in Nat \ S : \A n \in Nat \ S : m <= n
    BY <1>1, LeastNumber
  <1>3. m # 0 /\ m - 1 \in Nat
    BY <1>2
  <1>4. m - 1 \in S
    BY <1>2, <1>3
  <1>5. QED
    BY <1>2, <1>3, <1>4

(* A chunk of order n has as many pages as n numbers have subsets. *)
LEMMA PowerSize ==
    ASSUME NEW n \in Nat
    PROVE  /\ IsFiniteSet(SUBSET (1 .. n)) /\ Pow2(n) = Cardinality(SUBSET (1 .. n))
           /\ Pow2(n) \in Nat \ {0}
  <1>1. IsFiniteSet(1 .. n) /\ Cardinality(1 .. n) = n
    BY FS_Interval
  <1>2. IsFiniteSet(SUBSET (1 .. n)) /\ Cardinality(SUBSET (1 .. n)) = 2 ^ n
    BY <1>1, FS_SUBSET
  <1>3. Cardinality(SUBSET (1 .. n)) \in Nat /\ Cardinality(SUBSET (1 .. n)) # 0
    <2>1. {} \in SUBSET (1 .. n)
      OBVIOUS
    <2>2. PICK A : A = SUBSET (1 .. n)
      OBVIOUS
    <2>3. IsFiniteSet(A) /\ A # {}
      BY <1>2, <2>1, <2>2
    <2>4. Cardinality(A) \in Nat /\ Cardinality(A) # 0
      BY <2>3, FS_CardinalityType, FS_EmptySet
    <2>5. QED
      BY <2>2, <2>4
  <1>4. QED
    BY <1>2, <1>3 DEF Pow2

(* Twice as many sets have one number more. *)
LEMMA PowerDoubles ==
    ASSUME NEW n \in Nat
    PROVE  Pow2(n + 1) = 2 * Pow2(n)
  <1> DEFINE A == SUBSET (1 .. n)
             B == {X \union {n + 1} : X \in A}
             f == [X \in A |-> X \union {n + 1}]
  <1>1. IsFiniteSet(A) /\ Cardinality(A) = Pow2(n) /\ Pow2(n) \in Nat
    BY PowerSize
  <1>2. n + 1 \notin 1 .. n /\ 1 .. n + 1 = (1 .. n) \union {n + 1} /\ n + 1 \in Nat
    OBVIOUS
  <1>3. \A X \in A : n + 1 \notin X
    BY <1>2
  <1>4. f \in Bijection(A, B)
    <2>1. f \in [A -> B] /\ \A X \in A : f[X] = X \union {n + 1}
      OBVIOUS
    <2>2. \A Y \in B : \E X \in A : f[X] = Y
      BY <2>1
    <2>3. ASSUME NEW X \in A, NEW Y \in A, f[X] = f[Y] PROVE X = Y
      <3>1. X \union {n + 1} = Y \union {n + 1} /\ n + 1 \notin X /\ n + 1 \notin Y
        BY <1>3, <2>1, <2>3
      <3>2. QED
        BY <3>1
    <2> HIDE DEF A, B, f
    <2>4. f \in Injection(A, B)
      BY <2>1, <2>3 DEF Injection, IsInjective
    <2>5. f \in Surjection(A, B)
      BY <2>1, <2>2 DEF Surjection
    <2>6. QED
      BY <2>4, <2>5 DEF Bijection
  <1>5. IsFiniteSet(B) /\ Cardinality(B) = Pow2(n)
    BY <1>1, <1>4, FS_Bijection DEF ExistsBijection
  <1>6. A \intersect B = {} /\ A \union B = SUBSET (1 .. n + 1)
    <2>1. A \intersect B = {}
      BY <1>3
    <2>2. ASSUME NEW Y \in SUBSET (1 .. n + 1) PROVE Y \in A \union B
      <3>1. CASE n + 1 \in Y
        <4>1. Y \ {n + 1} \in A /\ Y = (Y \ {n + 1}) \union {n + 1}
          BY <1>2, <3>1
        <4>2. QED
          BY <4>1
      <3>2. CASE n + 1 \notin Y
        BY <1>2, <3>2
      <3>3. QED
        BY <3>1, <3>2
    <2>3. A \subseteq SUBSET (1 .. n + 1) /\ B \subseteq SUBSET (1 .. n + 1)
      BY <1>2
    <2>4. QED
      BY <2>1, <2>2, <2>3
  <1>7. Cardinality(A \union B) = Pow2(n) + Pow2(n)
    <2>1. Cardinality(A \intersect B) = 0
      BY <1>6, FS_EmptySet
    <2>2. Cardinality(A \union B) = Cardinality(A) + Cardinality(B) - Cardinality(A \intersect B)
      BY <1>1, <1>5, FS_Union
    <2>3. QED
      BY <1>1, <1>5, <2>1, <2>2
  <1>8. Pow2(n + 1) = Cardinality(SUBSET (1 .. n + 1))
    BY <1>2, PowerSize
  <1> HIDE DEF A, B
  <1>9. Pow2(n + 1) = Pow2(n) + Pow2(n)
    BY <1>6, <1>7, <1>8
  <1>10. QED
    BY <1>1, <1>9

-----------------------------------------------------------------------------
(* The chunks that the chunks of X lead to in one step. *)
Reach(X) == (UNION {{x, header[x].next} : x \in X}) \ {0}

LEMMA ReachIs ==
    ASSUME NEW X, NEW y
    PROVE  y \in Reach(X) <=> y # 0 /\ \E x \in X : y = x \/ y = header[x].next
  <1> DEFINE U == {{x, header[x].next} : x \in X}
  <1>1. ASSUME NEW x \in X PROVE {x, header[x].next} \in U
    OBVIOUS
  <1>2. ASSUME NEW s \in U PROVE \E x \in X : s = {x, header[x].next}
    OBVIOUS
  <1>3. y \in (UNION U) <=> \E s \in U : y \in s
    OBVIOUS
  <1>4. Reach(X) = (UNION U) \ {0}
    BY Zenon DEF Reach
  <1> HIDE DEF U
  <1>5. y \in (UNION U) <=> \E x \in X : y = x \/ y = header[x].next
    <2>1. ASSUME y \in (UNION U) PROVE \E x \in X : y = x \/ y = header[x].next
      <3>1. PICK s \in U : y \in s
        BY <1>3, <2>1
      <3>2. PICK x \in X : s = {x, header[x].next}
        BY <1>2
      <3>3. QED
        BY <3>1, <3>2
    <2>2. ASSUME NEW x \in X, y = x \/ y = header[x].next PROVE y \in (UNION U)
      <3>1. {x, header[x].next} \in U /\ y \in {x, header[x].next}
        BY <1>1, <2>2
      <3>2. QED
        BY <1>3, <3>1
    <2>3. QED
      BY <2>1, <2>2
  <1>6. QED
    BY <1>4, <1>5

(* f is the function that Chain(a) defines, up to n. *)
Walks(f, a, n) ==
    f = [m \in 0 .. n |-> IF m = 0 THEN {a} \ {0}
                          ELSE (UNION {{x, header[x].next} : x \in f[m - 1]}) \ {0}]

LEMMA WalkStep ==
    ASSUME NEW f, NEW a, NEW n \in Nat, Walks(f, a, n)
    PROVE  /\ f[0] = {a} \ {0}
           /\ \A m \in 0 .. n : m # 0 => f[m] = Reach(f[m - 1])
  <1>1. \A m \in 0 .. n : f[m] = IF m = 0 THEN {a} \ {0}
                                  ELSE (UNION {{x, header[x].next} : x \in f[m - 1]}) \ {0}
    BY Zenon DEF Walks
  <1>2. \A m \in 0 .. n : f[m] = IF m = 0 THEN {a} \ {0} ELSE Reach(f[m - 1])
    BY <1>1, Zenon DEF Reach
  <1>3. 0 \in 0 .. n
    OBVIOUS
  <1>4. QED
    BY <1>2, <1>3

(* The recursive definition has a solution. *)
LEMMA WalkExists ==
    ASSUME NEW a, NEW n \in Nat
    PROVE  \E f : Walks(f, a, n)
  <1> DEFINE S == {m \in Nat : \E f : Walks(f, a, m)}
  <1>1. 0 \in S
    <2> DEFINE g == [m \in 0 .. 0 |-> {a} \ {0}]
    <2>1. 0 .. 0 = {0}
      OBVIOUS
    <2>2. Walks(g, a, 0)
      BY <2>1 DEF Walks
    <2>3. QED
      BY <2>2
  <1>2. ASSUME NEW k \in S PROVE k + 1 \in S
    <2>1. PICK f : Walks(f, a, k)
      OBVIOUS
    <2>2. k \in Nat
      OBVIOUS
    <2> DEFINE g == [m \in 0 .. k + 1 |-> IF m <= k THEN f[m] ELSE Reach(f[k])]
               G(m) == IF m = 0 THEN {a} \ {0} ELSE Reach(g[m - 1])
    <2>3. f[0] = {a} \ {0} /\ \A m \in 0 .. k : m # 0 => f[m] = Reach(f[m - 1])
      BY <2>1, <2>2, WalkStep
    <2>4. ASSUME NEW m \in 0 .. k + 1 PROVE g[m] = G(m)
      <3>1. CASE m = 0
        BY <2>2, <2>3, <3>1
      <3>2. CASE m # 0 /\ m <= k
        <4>1. m - 1 \in 0 .. k + 1 /\ m - 1 <= k /\ m \in 0 .. k
          BY <2>2, <3>2
        <4>2. g[m - 1] = f[m - 1] /\ g[m] = f[m]
          BY <3>2, <4>1
        <4>3. QED
          BY <2>3, <3>2, <4>1, <4>2
      <3>3. CASE m = k + 1
        <4>1. m - 1 \in 0 .. k + 1 /\ m - 1 <= k /\ m - 1 = k /\ ~(m <= k) /\ m # 0
          BY <2>2, <3>3
        <4>2. g[m - 1] = f[k] /\ g[m] = Reach(f[k])
          BY <4>1
        <4>3. QED
          BY <4>1, <4>2
      <3>4. QED
        BY <2>2, <3>1, <3>2, <3>3
    <2>5. g = [m \in 0 .. k + 1 |-> g[m]]
      OBVIOUS
    <2> HIDE DEF g
    <2>6. g = [m \in 0 .. k + 1 |-> G(m)]
      BY <2>4, <2>5
    <2>7. Walks(g, a, k + 1)
      BY <2>6, Zenon DEF Walks, Reach
    <2>8. QED
      BY <2>2, <2>7
  <1> HIDE DEF S
  <1>3. S \in SUBSET Nat
    BY DEF S
  <1>4. S = Nat
    BY <1>1, <1>2, <1>3, NumbersInduction
  <1>5. QED
    BY <1>4 DEF S

(* So Chain is the last step of such a walk. *)
LEMMA ChainSteps ==
    ASSUME PageMax \in Nat, NEW a
    PROVE  \E f : /\ Chain(a) = f[PageMax] /\ f[0] = {a} \ {0}
                  /\ \A m \in 0 .. PageMax : m # 0 => f[m] = Reach(f[m - 1])
  <1> DEFINE g == CHOOSE f : Walks(f, a, PageMax)
  <1>1. Walks(g, a, PageMax)
    BY WalkExists, Zenon
  <1>2. Chain(a) = g[PageMax]
    BY Zenon DEF Chain, Walks
  <1> HIDE DEF g
  <1>3. QED
    BY <1>1, <1>2, WalkStep

(* A set that the list does not leave holds the whole list. *)
LEMMA ChainInside ==
    ASSUME PageMax \in Nat, NEW a, NEW Q, a \in Q \union {0},
           \A x \in Q : header[x].next \in Q \union {0}
    PROVE  Chain(a) \subseteq Q
  <1>1. PICK f : /\ Chain(a) = f[PageMax] /\ f[0] = {a} \ {0}
                 /\ \A m \in 0 .. PageMax : m # 0 => f[m] = Reach(f[m - 1])
    BY ChainSteps
  <1> DEFINE S == {m \in Nat : m <= PageMax => f[m] \subseteq Q}
  <1>2. 0 \in S
    BY <1>1
  <1>3. ASSUME NEW m \in S PROVE m + 1 \in S
    <2>1. SUFFICES ASSUME m + 1 <= PageMax PROVE f[m + 1] \subseteq Q
      OBVIOUS
    <2>2. m \in Nat /\ m + 1 \in 0 .. PageMax /\ m + 1 # 0 /\ (m + 1) - 1 = m
      BY <2>1
    <2>3. f[m + 1] = Reach(f[m]) /\ f[m] \subseteq Q
      BY <1>1, <2>2
    <2>4. ASSUME NEW y \in Reach(f[m]) PROVE y \in Q
      <3>1. PICK x \in f[m] : (y = x \/ y = header[x].next) /\ y # 0
        BY ReachIs
      <3>2. x \in Q /\ header[x].next \in Q \union {0}
        BY <2>3
      <3>3. QED
        BY <3>1, <3>2
    <2>5. QED
      BY <2>3, <2>4
  <1> HIDE DEF S
  <1>4. S \in SUBSET Nat
    BY DEF S
  <1>5. PageMax \in S
    BY <1>2, <1>3, <1>4, NumbersInduction
  <1>6. QED
    BY <1>1, <1>5 DEF S

-----------------------------------------------------------------------------
(* A page whose header is stale stands for no more than itself, but for u, *)
(* and a next never leads out of the memory that was given.                *)
Headers(h, G, u) ==
    /\ h \in [Page -> [log2size : Nat, next : Nat]]
    /\ \A a \in Page :
          /\ h[a].next \in G \union {0}
          /\ a # u => a .. a + Pow2(h[a].log2size) - 1 \subseteq G \union {a}

HeapInside ==
    /\ given \in SUBSET Page
    /\ taken \subseteq given
    /\ freed_chunks \in given \union {0} /\ available_chunks \in given \union {0}
    /\ unsized \in given \union {0}
    /\ Headers(header, given, unsized)

InsideInv ==
    /\ HeapInside
    /\ unsized # 0 => size = 0
    /\ phase # "boot" => base \in given
    /\ phase = "carve" =>
          /\ order \in Nat /\ p \in Nat /\ end \in Nat
          /\ base <= p /\ p <= end /\ base .. end - 1 \subseteq given
    /\ phase = "insert" => cur \in given /\ ref \in given \union {0}
    /\ phase = "search" => /\ cur \in given \union {0} /\ ref \in given \union {0}
                           /\ size \in Nat /\ unsized = 0
    /\ phase = "split" =>
          /\ cur \in given /\ c \in given /\ c <= cur
          /\ remainder \in Nat /\ order \in Int /\ order >= -1
          /\ c .. cur + remainder - 1 \subseteq given
          /\ size # 0 => remainder < Pow2(order + 1)
          /\ order >= 0 => unsized = 0

-----------------------------------------------------------------------------
(* What the first call makes of the memory.  The list that starts at F     *)
(* holds the chunks from lo up to hi, the last one first.                  *)
Extent(h, a) == Pow2(h[a].log2size)

Aligned(h, L) == \A a \in L : a % Extent(h, a) = 0

Falling(h, L, lo, hi, F) ==
    /\ L \subseteq lo .. hi - 1 /\ Aligned(h, L)
    /\ \/ lo = hi /\ F = 0
       \/ F \in L /\ F + Extent(h, F) = hi
    /\ \A a \in L : \/ a = lo /\ h[a].next = 0
                    \/ h[a].next \in L /\ h[a].next + Extent(h, h[a].next) = a

(* The list that starts at A holds them in the order of their addresses. *)
Rising(h, L, lo, hi, A) ==
    /\ L \subseteq lo .. hi - 1 /\ Aligned(h, L)
    /\ \/ lo = hi /\ A = 0
       \/ A = lo /\ lo \in L
    /\ \A a \in L : \/ a + Extent(h, a) = hi /\ h[a].next = 0
                    \/ h[a].next \in L /\ h[a].next = a + Extent(h, a)

(* The first call moves the chunks from one list to the other. *)
FirstCarve(L) ==
    /\ available_chunks = 0 /\ given = base .. end - 1
    /\ Falling(header, L, base, p, freed_chunks)

FirstRelease(L, M, mid) ==
    /\ given = base .. end - 1
    /\ Falling(header, L, base, mid, freed_chunks)
    /\ Rising(header, M, mid, end, available_chunks)

FirstInsert(L, M) ==
    /\ given = base .. end - 1 /\ ref = 0
    /\ cur % Extent(header, cur) = 0 /\ base <= cur /\ cur + Extent(header, cur) <= end
    /\ Falling(header, L, base, cur, freed_chunks)
    /\ Rising(header, M, cur + Extent(header, cur), end, available_chunks)

FirstDone(M) ==
    /\ given = base .. end - 1 /\ freed_chunks = 0
    /\ Rising(header, M, base, end, available_chunks)

(* A second call while nothing is allocated carves the same memory up      *)
(* again; when it comes to the first chunk, that is still the first of the *)
(* available ones, and the driver ends in its exception.                   *)
Again(L) ==
    /\ available_chunks = base /\ base \in L /\ freed_chunks \in L
    /\ \A a \in L : base <= a
    /\ \A a \in L : a # base => header[a].next \in L /\ header[a].next < a

Below(L, top) == \A a \in L : a < top

AgainCarve(L) ==
    \/ available_chunks = base /\ p = base /\ freed_chunks = 0
    \/ Again(L) /\ Below(L, p) /\ header[base].next = 0

AgainRelease(L) ==
    /\ Again(L)
    /\ header[base].next = 0 \/ Below(L, header[base].next)

AgainInsert(L) ==
    \/ available_chunks = base /\ cur = base /\ ref = 0
    \/ /\ Again(L) /\ Below(L, cur) /\ ref \in {0, base}
       /\ header[base].next = 0 \/ cur < header[base].next

CarveFresh ==
    /\ p % Pow2(order) = 0
    /\ (\E L \in SUBSET Page : FirstCarve(L)) \/ (\E L \in SUBSET Page : AgainCarve(L))

ReleaseFresh ==
    \/ \E L, M \in SUBSET Page : \E mid \in base .. end : FirstRelease(L, M, mid)
    \/ \E L \in SUBSET Page : AgainRelease(L)

InsertFresh ==
    \/ \E L, M \in SUBSET Page : FirstInsert(L, M)
    \/ \E L \in SUBSET Page : AgainInsert(L)

DoneFresh == \E M \in SUBSET Page : FirstDone(M)

FreshInv ==
    taken = {} /\ c = 0 =>
        /\ phase # "split"
        /\ phase = "boot" => freed_chunks = 0 /\ available_chunks = 0 /\ given = {}
        /\ phase # "boot" => base \in Nat \ {0} /\ end \in Nat /\ base < end
        /\ phase = "carve" => CarveFresh
        /\ phase = "release" => ReleaseFresh
        /\ phase = "insert" => InsertFresh
        /\ phase \in {"idle", "search"} => DoneFresh

-----------------------------------------------------------------------------
(* The sizes of chunks. *)
LEMMA Orders ==
    /\ \A n \in Nat : Pow2(n) \in Nat \ {0}
    /\ \A n \in Nat : Pow2(n + 1) = 2 * Pow2(n)
    /\ Pow2(0) = 1
  <1>1. Pow2(0) = 1
    <2>1. SUBSET (1 .. 0) = {{}}
      <3>1. 1 .. 0 = {}
        OBVIOUS
      <3>2. QED
        BY <3>1
    <2>2. Cardinality(SUBSET (1 .. 0)) = 1
      BY <2>1, FS_Singleton
    <2>3. QED
      BY <2>2, PowerSize
  <1>2. QED
    BY <1>1, PowerSize, PowerDoubles

(* Writing to a header. *)
LEMMA HeaderSet ==
    ASSUME PageMax \in Nat, NEW h, NEW G \in SUBSET Page, NEW u, Headers(h, G, u),
           NEW a \in Page, NEW l \in Nat, NEW n \in G \union {0},
           a # u => a .. a + Pow2(l) - 1 \subseteq G \union {a}
    PROVE  Headers([h EXCEPT ![a] = [log2size |-> l, next |-> n]], G, u)
  <1> DEFINE g == [h EXCEPT ![a] = [log2size |-> l, next |-> n]]
  <1>1. G \subseteq Nat /\ n \in Nat
    BY DEF Page
  <1>2. h \in [Page -> [log2size : Nat, next : Nat]]
    BY DEF Headers
  <1>3. g \in [Page -> [log2size : Nat, next : Nat]]
    BY <1>1, <1>2
  <1>4. g[a].log2size = l /\ g[a].next = n /\ \A k \in Page : k # a => g[k] = h[k]
    BY <1>2
  <1> HIDE DEF g
  <1>5. ASSUME NEW k \in Page
        PROVE  /\ g[k].next \in G \union {0}
               /\ k # u => k .. k + Pow2(g[k].log2size) - 1 \subseteq G \union {k}
    <2>1. CASE k = a
      BY <1>4, <2>1
    <2>2. CASE k # a
      BY <1>4, <2>2 DEF Headers
    <2>3. QED
      BY <2>1, <2>2
  <1>6. Headers(g, G, u)
    BY <1>3, <1>5 DEF Headers
  <1>7. QED
    BY <1>6 DEF g

LEMMA NextSet ==
    ASSUME PageMax \in Nat, NEW h, NEW G \in SUBSET Page, NEW u, Headers(h, G, u),
           NEW a \in Page, NEW n \in G \union {0}
    PROVE  Headers([h EXCEPT ![a].next = n], G, u)
  <1>1. h \in [Page -> [log2size : Nat, next : Nat]]
    BY DEF Headers
  <1>2. [h EXCEPT ![a].next = n] = [h EXCEPT ![a] = [log2size |-> h[a].log2size, next |-> n]]
    <2>1. h[a] \in [log2size : Nat, next : Nat]
      BY <1>1
    <2>2. [h[a] EXCEPT !.next = n] = [log2size |-> h[a].log2size, next |-> n]
      BY <2>1
    <2>3. QED
      BY <2>2, Zenon
  <1>3. /\ a # u => a .. a + Pow2(h[a].log2size) - 1 \subseteq G \union {a}
        /\ h[a].log2size \in Nat
    BY <1>1 DEF Headers
  <1>4. QED
    BY <1>2, <1>3, HeaderSet

LEMMA SizeSet ==
    ASSUME PageMax \in Nat, NEW h, NEW G \in SUBSET Page, NEW u, Headers(h, G, u),
           NEW a \in Page, NEW l \in Nat, a .. a + Pow2(l) - 1 \subseteq G \union {a}
    PROVE  Headers([h EXCEPT ![a].log2size = l], G, u)
  <1>1. h \in [Page -> [log2size : Nat, next : Nat]]
    BY DEF Headers
  <1>2. [h EXCEPT ![a].log2size = l] = [h EXCEPT ![a] = [log2size |-> l, next |-> h[a].next]]
    <2>1. h[a] \in [log2size : Nat, next : Nat]
      BY <1>1
    <2>2. [h[a] EXCEPT !.log2size = l] = [log2size |-> l, next |-> h[a].next]
      BY <2>1
    <2>3. QED
      BY <2>2, Zenon
  <1>3. h[a].next \in G \union {0}
    BY DEF Headers
  <1>4. QED
    BY <1>2, <1>3, HeaderSet

LEMMA HeadersGrow ==
    ASSUME NEW h, NEW G \in SUBSET Page, NEW K, G \subseteq K, NEW u, Headers(h, G, u)
    PROVE  Headers(h, K, u)
  BY DEF Headers

LEMMA HeadersBut ==
    ASSUME NEW h, NEW G, Headers(h, G, 0), NEW u
    PROVE  Headers(h, G, u)
  BY DEF Headers, Page

(* The driver is given memory, from a base that is not the null pointer. *)
LEMMA AreaInside ==
    ASSUME InsideInv, NEW start, NEW top \in Top, FreeArea(start, top),
           start \in Nat \ {0}
    PROVE  InsideInv'
  <1>1. PageMax \in Nat /\ top \in 1 .. PageMax + 1
    BY MemoryAssumption
  <1>2. /\ base' = start /\ phase' = "carve" /\ p' = start /\ end' = top /\ order' = 0
        /\ given' = given \union start .. top - 1 /\ start < top
        /\ header' = header /\ freed_chunks' = freed_chunks
        /\ available_chunks' = available_chunks /\ taken' = taken
        /\ unsized' = unsized /\ size' = size
    BY Zenon DEF FreeArea, heap, splitVars
  <1>3. start .. top - 1 \subseteq Page /\ start \in start .. top - 1
    BY <1>1, <1>2 DEF Page
  <1>4. given' \in SUBSET Page /\ given \subseteq given' /\ start .. top - 1 \subseteq given'
    BY <1>2, <1>3 DEF InsideInv, HeapInside
  <1>5. Headers(header, given', unsized)
    BY <1>4, HeadersGrow DEF InsideInv, HeapInside
  <1>6. HeapInside'
    BY <1>2, <1>4, <1>5 DEF InsideInv, HeapInside
  <1>7. base' \in given'
    BY <1>2, <1>3, <1>4
  <1>8. phase' = "carve" /\ (order' \in Nat /\ p' \in Nat /\ end' \in Nat
          /\ base' <= p' /\ p' <= end' /\ base' .. end' - 1 \subseteq given')
    BY <1>1, <1>2, <1>4
  <1>9. QED
    BY <1>2, <1>6, <1>7, <1>8 DEF InsideInv

(* Only the loops of the driver change. *)
LEMMA HeapFrame ==
    ASSUME HeapInside, UNCHANGED <<heap, historyVars>>
    PROVE  HeapInside'
  BY DEF HeapInside, heap, historyVars

LEMMA CarveInside ==
    ASSUME InsideInv, CarveUp \/ CarveDown PROVE InsideInv'
  <1>1. /\ UNCHANGED <<heap, historyVars>> /\ base' = base /\ p' = p /\ end' = end
        /\ phase = "carve" /\ size' = size
    BY DEF CarveUp, CarveDown, carveVars, splitVars
  <1>2. HeapInside' /\ given' = given /\ unsized' = unsized
    BY <1>1, HeapFrame DEF InsideInv, historyVars
  <1>3. /\ order \in Nat /\ p \in Nat /\ end \in Nat
        /\ base <= p /\ p <= end /\ base .. end - 1 \subseteq given /\ base \in given
    BY <1>1 DEF InsideInv
  <1>4. \/ phase' = "carve" /\ order' \in Nat
        \/ phase' = "release"
    <2>1. CASE CarveUp
      BY <1>1, <1>3, <2>1 DEF CarveUp
    <2>2. CASE CarveDown
      <3>1. CASE order = 0
        BY <2>2, <3>1 DEF CarveDown
      <3>2. CASE order # 0
        <4>1. order' = order - 1 /\ phase' = phase
          BY <2>2, <3>2 DEF CarveDown
        <4>2. QED
          BY <1>1, <1>3, <3>2, <4>1
      <3>3. QED
        BY <3>1, <3>2
    <2>3. QED
      BY <2>1, <2>2
  <1>5. QED
    BY <1>1, <1>2, <1>3, <1>4 DEF InsideInv

LEMMA ChunkInside == ASSUME InsideInv, CarveChunk PROVE InsideInv'
  <1>1. PageMax \in Nat
    BY MemoryAssumption
  <1>2. /\ phase = "carve" /\ end - p >= Pow2(order) /\ phase' = "carve"
        /\ header' = [header EXCEPT ![p] = [log2size |-> order, next |-> freed_chunks]]
        /\ freed_chunks' = p /\ p' = p + Pow2(order)
        /\ available_chunks' = available_chunks /\ base' = base /\ end' = end
        /\ order' = order /\ given' = given /\ taken' = taken /\ unsized' = unsized
        /\ size' = size
    BY DEF CarveChunk, historyVars, splitVars
  <1>3. /\ order \in Nat /\ p \in Nat /\ end \in Nat
        /\ base <= p /\ p <= end /\ base .. end - 1 \subseteq given /\ base \in given
    BY <1>2 DEF InsideInv
  <1>4. Pow2(order) \in Nat \ {0}
    BY <1>3, Orders
  <1>5. base \in Nat /\ given \in SUBSET Page
    BY <1>1, <1>3 DEF InsideInv, HeapInside, Page
  <1>6. p .. p + Pow2(order) - 1 \subseteq base .. end - 1 /\ p \in base .. end - 1
    BY <1>2, <1>3, <1>4, <1>5
  <1>7. p \in Page /\ p \in given /\ p .. p + Pow2(order) - 1 \subseteq given \union {p}
    BY <1>3, <1>5, <1>6
  <1>8. Headers(header, given, unsized) /\ freed_chunks \in given \union {0}
    BY DEF InsideInv, HeapInside
  <1>9. Headers(header', given', unsized')
    BY <1>1, <1>2, <1>3, <1>5, <1>7, <1>8, HeaderSet
  <1>10. HeapInside'
    BY <1>2, <1>7, <1>9 DEF InsideInv, HeapInside
  <1>11. base' <= p' /\ p' <= end' /\ p' \in Nat
    BY <1>2, <1>3, <1>4, <1>5
  <1>12. QED
    BY <1>2, <1>3, <1>10, <1>11 DEF InsideInv

LEMMA ReleaseInside ==
    ASSUME InsideInv, AllReleased \/ ReleaseFirst \/ InsertWalk PROVE InsideInv'
  <1>1. CASE AllReleased
    <2>1. /\ UNCHANGED <<heap, historyVars>> /\ base' = base /\ phase = "release" /\ phase' = "idle"
          /\ size' = size
      BY <1>1 DEF AllReleased, splitVars
    <2>2. HeapInside' /\ given' = given /\ unsized' = unsized
      BY <2>1, HeapFrame DEF InsideInv, historyVars
    <2>3. QED
      BY <2>1, <2>2 DEF InsideInv
  <1>2. CASE ReleaseFirst
    <2>1. /\ phase = "release" /\ freed_chunks # 0 /\ cur' = freed_chunks
          /\ freed_chunks' = header[freed_chunks].next /\ ref' = 0 /\ phase' = "insert"
          /\ header' = header /\ available_chunks' = available_chunks /\ base' = base
          /\ given' = given /\ taken' = taken /\ unsized' = unsized
          /\ size' = size
      BY <1>2 DEF ReleaseFirst, historyVars, splitVars
    <2>2. freed_chunks \in given /\ given \subseteq Page /\ base \in given
      BY <2>1 DEF InsideInv, HeapInside
    <2>3. header[freed_chunks].next \in given \union {0}
      BY <2>2 DEF InsideInv, HeapInside, Headers
    <2>4. HeapInside'
      BY <2>1, <2>3 DEF InsideInv, HeapInside
    <2>5. QED
      BY <2>1, <2>2, <2>4 DEF InsideInv
  <1>3. CASE InsertWalk
    <2>1. /\ UNCHANGED <<heap, historyVars>> /\ base' = base /\ phase = "insert" /\ phase' = phase
          /\ ref' = Deref(ref) /\ cur' = cur /\ size' = size
      BY <1>3 DEF InsertWalk, splitVars
    <2>2. HeapInside' /\ given' = given /\ unsized' = unsized
      BY <2>1, HeapFrame DEF InsideInv, historyVars
    <2>3. cur \in given /\ ref \in given \union {0} /\ base \in given /\ given \subseteq Page
      BY <2>1 DEF InsideInv, HeapInside
    <2>4. Deref(ref) \in given \union {0}
      BY <2>3 DEF InsideInv, HeapInside, Headers, Deref
    <2>5. QED
      BY <2>1, <2>2, <2>3, <2>4 DEF InsideInv
  <1>4. QED
    BY <1>1, <1>2, <1>3

(* A reference in the heap is redirected. *)
LEMMA AssignInside ==
    ASSUME PageMax \in Nat, HeapInside, NEW h, Headers(h, given, unsized),
           NEW r \in given \union {0}, NEW a \in given \union {0}, Assign(r, a, h)
    PROVE  Headers(header', given, unsized) /\ available_chunks' \in given \union {0}
  <1>1. CASE r = 0
    BY <1>1 DEF Assign
  <1>2. CASE r # 0
    <2>1. header' = [h EXCEPT ![r].next = a] /\ available_chunks' = available_chunks
      BY <1>2 DEF Assign
    <2>2. r \in Page /\ given \in SUBSET Page
      BY <1>2 DEF HeapInside
    <2>3. QED
      BY <2>1, <2>2, NextSet DEF HeapInside
  <1>3. QED
    BY <1>1, <1>2

LEMMA InsertInside == ASSUME InsideInv, InsertHere PROVE InsideInv'
  <1>1. PageMax \in Nat
    BY MemoryAssumption
  <1>2. /\ phase = "insert" /\ base' = base /\ given' = given /\ taken' = taken /\ unsized' = unsized
        /\ freed_chunks' = freed_chunks /\ size' = size
    BY DEF InsertHere, historyVars, splitVars
  <1>3. cur \in given /\ ref \in given \union {0} /\ base \in given /\ given \in SUBSET Page
    BY <1>2 DEF InsideInv, HeapInside
  <1>4. CASE Deref(ref) = cur
    <2>1. phase' = "exception" /\ header' = header /\ available_chunks' = available_chunks
      BY <1>4 DEF InsertHere
    <2>2. HeapInside'
      BY <1>2, <2>1 DEF InsideInv, HeapInside
    <2>3. QED
      BY <1>2, <1>3, <2>1, <2>2 DEF InsideInv
  <1>5. CASE Deref(ref) # cur
    <2>1. /\ Assign(ref, cur, [header EXCEPT ![cur].next = Deref(ref)])
          /\ phase' = "release"
      BY <1>5 DEF InsertHere
    <2>2. Deref(ref) \in given \union {0}
      BY <1>3 DEF InsideInv, HeapInside, Headers, Deref
    <2>3. Headers([header EXCEPT ![cur].next = Deref(ref)], given, unsized)
      BY <1>1, <1>3, <2>2, NextSet DEF InsideInv, HeapInside
    <2>4. Headers(header', given, unsized) /\ available_chunks' \in given \union {0}
      BY <1>1, <1>3, <2>1, <2>3, AssignInside DEF InsideInv
    <2>5. HeapInside'
      BY <1>2, <2>4 DEF InsideInv, HeapInside
    <2>6. QED
      BY <1>2, <1>3, <2>1, <2>5 DEF InsideInv
  <1>6. QED
    BY <1>4, <1>5

LEMMA SearchInside ==
    ASSUME InsideInv,
           (\E n \in Size : Allocate(n)) \/ SearchOn \/ NothingFound
    PROVE  InsideInv'
  <1>1. CASE \E n \in Size : Allocate(n)
    <2>1. PICK n \in Size : Allocate(n)
      BY <1>1
    <2>2. /\ UNCHANGED <<heap, historyVars>> /\ base' = base /\ phase = "idle" /\ phase' = "search"
          /\ size' = n /\ ref' = 0 /\ cur' = available_chunks /\ unsized = 0
      BY <2>1 DEF Allocate
    <2>3. HeapInside' /\ given' = given /\ unsized' = unsized
      BY <2>2, HeapFrame DEF InsideInv, historyVars
    <2>4. n \in Nat
      BY MemoryAssumption
    <2>5. available_chunks \in given \union {0} /\ base \in given
      BY <2>2 DEF InsideInv, HeapInside
    <2>6. QED
      BY <2>2, <2>3, <2>4, <2>5 DEF InsideInv
  <1>2. CASE SearchOn
    <2>1. /\ UNCHANGED <<heap, historyVars>> /\ base' = base /\ phase = "search" /\ phase' = phase
          /\ size' = size /\ ref' = cur /\ cur' = header[cur].next /\ cur # 0
      BY <1>2 DEF SearchOn, splitVars
    <2>2. HeapInside' /\ given' = given /\ unsized' = unsized
      BY <2>1, HeapFrame DEF InsideInv, historyVars
    <2>3. cur \in given /\ base \in given /\ size \in Nat /\ cur \in Page /\ unsized = 0
      BY <2>1 DEF InsideInv, HeapInside
    <2>4. header[cur].next \in given \union {0}
      BY <2>3 DEF InsideInv, HeapInside, Headers
    <2>5. QED
      BY <2>1, <2>2, <2>3, <2>4 DEF InsideInv
  <1>3. CASE NothingFound
    <2>1. /\ UNCHANGED <<heap, historyVars>> /\ base' = base /\ phase = "search" /\ phase' = "idle"
          /\ size' = size
      BY <1>3 DEF NothingFound, splitVars
    <2>2. HeapInside' /\ given' = given /\ unsized' = unsized
      BY <2>1, HeapFrame DEF InsideInv, historyVars
    <2>3. QED
      BY <2>1, <2>2 DEF InsideInv
  <1>4. QED
    BY <1>1, <1>2, <1>3

LEMMA WholeInside == ASSUME InsideInv, TakeWhole PROVE InsideInv'
  <1>1. PageMax \in Nat
    BY MemoryAssumption
  <1>2. /\ phase = "search" /\ cur # 0 /\ Pow2(header[cur].log2size) = size
        /\ Assign(ref, header[cur].next, header)
        /\ taken' = taken \union cur .. cur + size - 1 /\ given' = given
        /\ phase' = "idle" /\ freed_chunks' = freed_chunks /\ base' = base
        /\ unsized' = unsized /\ size' = size
    BY DEF TakeWhole, HandOut, splitVars
  <1>3. /\ cur \in given /\ ref \in given \union {0} /\ base \in given /\ given \in SUBSET Page
        /\ HeapInside /\ unsized = 0 /\ cur # unsized /\ cur \in Page
    BY <1>2 DEF InsideInv, HeapInside
  <1>4. /\ header[cur].next \in given \union {0}
        /\ cur .. cur + size - 1 \subseteq given
    BY <1>2, <1>3 DEF HeapInside, Headers
  <1>5. Headers(header', given, unsized) /\ available_chunks' \in given \union {0}
    BY <1>1, <1>2, <1>3, <1>4, AssignInside DEF HeapInside
  <1>6. HeapInside'
    BY <1>2, <1>3, <1>4, <1>5 DEF HeapInside
  <1>7. QED
    BY <1>2, <1>3, <1>6 DEF InsideInv

LEMMA TopInside == ASSUME InsideInv, TakeTop PROVE InsideInv'
  <1>1. PageMax \in Nat
    BY MemoryAssumption
  <1> DEFINE rest == Pow2(header[cur].log2size) - size
  <1>2. /\ phase = "search" /\ cur # 0 /\ Pow2(header[cur].log2size) > size
        /\ c' = cur /\ remainder' = rest /\ order' = header[cur].log2size - 1
        /\ taken' = taken \union cur + rest .. cur + rest + size - 1 /\ given' = given
        /\ phase' = "split" /\ UNCHANGED heap /\ base' = base /\ cur' = cur
        /\ unsized' = unsized /\ size' = size
    BY DEF TakeTop, HandOut, TopOf, findVars
  <1>3. /\ cur \in given /\ base \in given /\ given \in SUBSET Page
        /\ size \in Nat /\ HeapInside /\ unsized = 0
    BY <1>2 DEF InsideInv, HeapInside
  <1>4. cur \in Nat /\ header[cur].log2size \in Nat
    BY <1>1, <1>3 DEF Page, HeapInside, Headers
  <1>5. Pow2(header[cur].log2size) \in Nat /\ rest \in Nat
    BY <1>2, <1>3, <1>4, Orders
  <1>6. cur .. cur + Pow2(header[cur].log2size) - 1 \subseteq given
    <2>1. cur \in Page /\ cur # 0
      BY <1>2, <1>3
    <2> QED
      BY <1>3, <2>1 DEF HeapInside, Headers
  <1>7. /\ cur + rest .. cur + rest + size - 1 \subseteq given
        /\ cur .. cur + rest - 1 \subseteq given
    <2>1. /\ cur + rest .. cur + rest + size - 1 \subseteq cur .. cur + Pow2(header[cur].log2size) - 1
          /\ cur .. cur + rest - 1 \subseteq cur .. cur + Pow2(header[cur].log2size) - 1
      BY <1>3, <1>4, <1>5
    <2>2. QED
      BY <1>6, <2>1
  <1>7a. size' # 0 => remainder' < Pow2(order' + 1)
    <2>1. order' + 1 = header[cur].log2size
      BY <1>2, <1>4
    <2> QED
      BY <1>2, <1>3, <1>5, <2>1
  <1> HIDE DEF rest
  <1>8. HeapInside'
    BY <1>2, <1>3, <1>7 DEF HeapInside, heap
  <1>9. order' \in Int /\ order' >= -1 /\ unsized' = 0
    BY <1>2, <1>3, <1>4
  <1>10. /\ cur' \in given' /\ c' \in given' /\ c' <= cur' /\ remainder' \in Nat
         /\ c' .. cur' + remainder' - 1 \subseteq given'
    BY <1>2, <1>3, <1>4, <1>5, <1>7
  <1>11. QED
    BY <1>2, <1>3, <1>7a, <1>8, <1>9, <1>10 DEF InsideInv

(* A new chunk may lie below the one that is split, but not below c.  The  *)
(* last one keeps the log2size that its page holds; but what is left after *)
(* the round for a size is less than that size, if any was asked for, so   *)
(* after the round for one page nothing is left.                           *)
LEMMA SplitInside == ASSUME InsideInv, SplitOff PROVE InsideInv'
  <1>1. PageMax \in Nat
    BY MemoryAssumption
  <1> DEFINE rest == remainder - Pow2(order)
             new == c + Pow2(order)
             smaller == [header EXCEPT ![cur].log2size = order]
             split(held) == [smaller EXCEPT
                                 ![new] = [log2size |-> held, next |-> header[cur].next],
                                 ![cur].next = new]
             held_at == IF order = 0 THEN 0 .. MaxOrder ELSE {smaller[new].log2size}
  <1>2. /\ phase = "split" /\ remainder # 0 /\ order >= 0 /\ remainder >= Pow2(order)
        /\ remainder' = rest
        /\ IF rest # 0 THEN /\ \E held \in held_at : header' = split(held)
                            /\ cur' = new /\ unsized' = IF order = 0 THEN new ELSE unsized
                       ELSE header' = smaller /\ cur' = cur /\ unsized' = unsized
        /\ order' = order - 1 /\ phase' = phase /\ c' = c /\ base' = base
        /\ freed_chunks' = freed_chunks /\ available_chunks' = available_chunks
        /\ given' = given /\ taken' = taken /\ size' = size
    BY DEF SplitOff
  <1>3. /\ cur \in given /\ c \in given /\ c <= cur /\ base \in given
        /\ remainder \in Nat /\ order \in Int /\ c .. cur + remainder - 1 \subseteq given
        /\ given \in SUBSET Page /\ HeapInside /\ unsized = 0
        /\ size # 0 => remainder < Pow2(order + 1)
    BY <1>2 DEF InsideInv, HeapInside
  <1>4. order \in Nat /\ cur \in Nat /\ c \in Nat
    BY <1>1, <1>2, <1>3 DEF Page
  <1>5. Pow2(order) \in Nat \ {0} /\ rest \in Nat
    BY <1>2, <1>3, <1>4, Orders
  <1>6. Headers(smaller, given, 0)
    <2>1. cur .. cur + Pow2(order) - 1 \subseteq c .. cur + remainder - 1
      BY <1>2, <1>3, <1>4, <1>5
    <2>2. cur \in Page /\ cur .. cur + Pow2(order) - 1 \subseteq given \union {cur}
      BY <1>3, <2>1
    <2>3. Headers(header, given, 0)
      BY <1>3 DEF HeapInside
    <2>4. QED
      BY <1>1, <1>3, <1>4, <2>2, <2>3, SizeSet
  <1>7. header[cur].next \in given \union {0}
    BY <1>3 DEF HeapInside, Headers
  <1>8. rest # 0 => new \in given
    <2>1. rest # 0 => new \in c .. cur + remainder - 1
      BY <1>2, <1>3, <1>4, <1>5
    <2>2. QED
      BY <1>3, <2>1
  <1>9. c .. new + rest - 1 \subseteq given /\ c .. cur + rest - 1 \subseteq given
    <2>1. /\ c .. new + rest - 1 \subseteq c .. cur + remainder - 1
          /\ c .. cur + rest - 1 \subseteq c .. cur + remainder - 1
      BY <1>3, <1>4, <1>5
    <2>2. QED
      BY <1>3, <2>1
  <1>10. size # 0 => rest < Pow2(order)
    BY <1>3, <1>4, <1>5, Orders
  <1>11. order = 0 /\ rest # 0 => size = 0
    BY <1>5, <1>10, Orders
  <1>12. order' \in Int /\ order' >= -1 /\ c <= new /\ order' + 1 = order
    BY <1>2, <1>4, <1>5
  <1>13. /\ size' # 0 => remainder' < Pow2(order' + 1)
         /\ order' >= 0 => unsized' = 0
         /\ unsized' # 0 => size' = 0
         /\ unsized' \in given \union {0}
    BY <1>2, <1>3, <1>8, <1>10, <1>11, <1>12
  <1>14. Headers(header', given, unsized')
    <2>1. CASE rest = 0
      BY <1>2, <1>3, <1>6, <2>1
    <2>2. CASE rest # 0
      <3>1. PICK held \in held_at : header' = split(held)
        BY <1>2, <2>2
      <3>2. /\ new \in given /\ new \in Page /\ cur \in Page /\ unsized' \in {new, 0}
            /\ order = 0 => unsized' = new
        BY <1>2, <1>3, <1>8, <2>2
      <3>3. /\ held \in Nat
            /\ new # unsized' => new .. new + Pow2(held) - 1 \subseteq given \union {new}
        <4>1. CASE order = 0
          BY <3>1, <3>2, <4>1, MemoryAssumption
        <4>2. CASE order # 0
          <5>1. held = smaller[new].log2size /\ new # 0
            BY <3>1, <3>2, <4>2 DEF Page
          <5> HIDE DEF smaller, new
          <5>2. QED
            BY <1>6, <3>2, <5>1 DEF Headers
        <4>3. QED
          BY <4>1, <4>2
      <3> HIDE DEF smaller, new, rest
      <3> DEFINE made == [smaller EXCEPT ![new] = [log2size |-> held, next |-> header[cur].next]]
      <3>4. Headers(smaller, given, unsized')
        BY <1>6, HeadersBut
      <3>5. Headers(made, given, unsized')
        BY <1>1, <1>3, <1>7, <3>2, <3>3, <3>4, HeaderSet
      <3>6. Headers([made EXCEPT ![cur].next = new], given, unsized')
        <4> HIDE DEF made
        <4> QED
          BY <1>1, <1>3, <3>2, <3>5, NextSet
      <3>7. QED
        BY <3>1, <3>6
    <2>3. QED
      BY <2>1, <2>2
  <1> HIDE DEF rest, new, smaller, split
  <1>15. HeapInside'
    BY <1>2, <1>3, <1>13, <1>14 DEF HeapInside
  <1>16. /\ cur' \in given' /\ c' \in given' /\ c' <= cur' /\ remainder' \in Nat
         /\ c' .. cur' + remainder' - 1 \subseteq given'
    BY <1>2, <1>3, <1>5, <1>8, <1>9, <1>12
  <1>17. QED
    BY <1>2, <1>3, <1>12, <1>13, <1>15, <1>16 DEF InsideInv

LEMMA SplitOnInside == ASSUME InsideInv, SplitOn \/ SplitDone PROVE InsideInv'
  <1>1. /\ UNCHANGED <<heap, historyVars>> /\ base' = base /\ phase = "split" /\ c' = c
        /\ cur' = cur /\ remainder' = remainder /\ size' = size
    BY DEF SplitOn, SplitDone, findVars, splitVars
  <1>2. HeapInside' /\ given' = given /\ unsized' = unsized
    BY <1>1, HeapFrame DEF InsideInv, historyVars
  <1>3. order \in Int /\ order >= -1 /\ base \in given
    BY <1>1 DEF InsideInv
  <1>4. \/ /\ phase' = phase /\ order' \in Int /\ order' >= -1
           /\ remainder' < Pow2(order' + 1) /\ unsized' = 0
        \/ phase' = "idle"
    <2>1. CASE SplitOn
      <3>1. /\ order' = order - 1 /\ order >= 0 /\ remainder < Pow2(order)
            /\ (order - 1) + 1 = order /\ unsized = 0
        BY <1>1, <1>3, <2>1 DEF SplitOn, InsideInv
      <3> QED
        BY <1>1, <1>2, <1>3, <2>1, <3>1 DEF SplitOn
    <2>2. CASE SplitDone
      BY <2>2 DEF SplitDone
    <2>3. QED
      BY <2>1, <2>2
  <1>5. QED
    BY <1>1, <1>2, <1>3, <1>4 DEF InsideInv

LEMMA StutterInside == ASSUME InsideInv, UNCHANGED memoryVars PROVE InsideInv'
  <1>1. /\ UNCHANGED <<heap, historyVars>> /\ base' = base /\ phase' = phase /\ c' = c
        /\ cur' = cur /\ ref' = ref /\ remainder' = remainder /\ p' = p /\ end' = end
        /\ order' = order /\ size' = size
    BY DEF memoryVars, carveVars, findVars, splitVars
  <1>2. HeapInside' /\ given' = given /\ unsized' = unsized
    BY <1>1, HeapFrame DEF InsideInv, historyVars
  <1>3. QED
    BY <1>1, <1>2 DEF InsideInv

LEMMA ServeInside == ASSUME InsideInv, Serve PROVE InsideInv'
  <1>1. ASSUME NEW top \in Top, set_memory_top(top) PROVE InsideInv'
    <2>1. phase = "idle" /\ FreeArea(base, top)
      BY <1>1 DEF set_memory_top
    <2>2. PageMax \in Nat /\ base \in given /\ given \in SUBSET Page
      BY <2>1, MemoryAssumption DEF InsideInv, HeapInside
    <2>3. base \in Nat \ {0}
      BY <2>2 DEF Page
    <2>4. QED
      BY <2>1, <2>3, AreaInside
  <1>2. CASE CarveUp \/ CarveDown
    BY <1>2, CarveInside
  <1>3. CASE CarveChunk
    BY <1>3, ChunkInside
  <1>4. CASE AllReleased \/ ReleaseFirst \/ InsertWalk
    BY <1>4, ReleaseInside
  <1>5. CASE InsertHere
    BY <1>5, InsertInside
  <1>6. CASE (\E n \in Size : Allocate(n)) \/ SearchOn \/ NothingFound
    BY <1>6, SearchInside
  <1>7. CASE TakeWhole
    BY <1>7, WholeInside
  <1>8. CASE TakeTop
    BY <1>8, TopInside
  <1>9. CASE SplitOff
    BY <1>9, SplitInside
  <1>10. CASE SplitOn \/ SplitDone
    BY <1>10, SplitOnInside
  <1>11. CASE Exception
    BY <1>11, StutterInside DEF Exception
  <1>12. QED
    BY <1>1, <1>2, <1>3, <1>4, <1>5, <1>6, <1>7, <1>8, <1>9, <1>10, <1>11 DEF Serve

LEMMA InitInside == MemoryInit => InsideInv
  <1>1. SUFFICES ASSUME MemoryInit PROVE InsideInv
    OBVIOUS
  <1>2. PageMax \in Nat
    BY MemoryAssumption
  <1>3. /\ header = [a \in Page |-> [log2size |-> 0, next |-> 0]] /\ phase = "boot"
        /\ freed_chunks = 0 /\ available_chunks = 0 /\ given = {} /\ taken = {}
        /\ unsized = 0
    BY <1>1 DEF MemoryInit
  <1>4. header \in [Page -> [log2size : Nat, next : Nat]]
    BY <1>3
  <1>5. ASSUME NEW a \in Page
        PROVE  header[a].next \in {} \union {0} /\ a .. a + Pow2(header[a].log2size) - 1 \subseteq {} \union {a}
    <2>1. header[a].log2size = 0 /\ header[a].next = 0
      BY <1>3
    <2>2. a \in Nat
      BY <1>2 DEF Page
    <2>3. Pow2(header[a].log2size) = 1
      BY <2>1, Orders
    <2>4. QED
      BY <2>1, <2>2, <2>3
  <1>6. Headers(header, given, unsized)
    BY <1>3, <1>4, <1>5 DEF Headers
  <1>7. QED
    BY <1>3, <1>6 DEF InsideInv, HeapInside

(* The lists do not leave the memory that was given. *)
LEMMA InsideIsRight == InsideInv => InsideGiven
  <1>1. SUFFICES ASSUME InsideInv PROVE InsideGiven
    OBVIOUS
  <1>2. PageMax \in Nat
    BY MemoryAssumption
  <1>3. given \in SUBSET Page /\ taken \subseteq given /\ Headers(header, given, unsized)
        /\ freed_chunks \in given \union {0} /\ available_chunks \in given \union {0}
    BY <1>1 DEF InsideInv, HeapInside
  <1>4a. \A a \in given : header[a].next \in given \union {0}
    BY <1>3 DEF Headers
  <1>4. \A a \in given : a # unsized => Pages(a) \subseteq given
    BY <1>3 DEF Headers, Pages
  <1>5. Chain(available_chunks) \subseteq given /\ Chain(freed_chunks) \subseteq given
    BY <1>2, <1>3, <1>4a, ChainInside
  <1>6. unsized # 0 => size = 0
    BY <1>1 DEF InsideInv
  <1>7. \A a \in Chain(available_chunks) \union Chain(freed_chunks) :
            a \in given /\ (phase # "split" /\ a # unsized => Pages(a) \subseteq given)
    <2> SUFFICES ASSUME NEW a \in Chain(available_chunks) \union Chain(freed_chunks)
                 PROVE  a \in given /\ (a # unsized => Pages(a) \subseteq given)
      OBVIOUS
    <2>1. a \in given
      BY <1>5
    <2> QED
      BY <1>4, <2>1
  <1>8. QED
    BY <1>3, <1>6, <1>7 DEF InsideGiven

-----------------------------------------------------------------------------
(* What is aligned to a size is aligned to the next smaller one. *)
LEMMA Halves ==
    ASSUME NEW x \in Nat, NEW n \in Nat \ {0}, x % Pow2(n) = 0
    PROVE  x % Pow2(n - 1) = 0
  <1>1. n - 1 \in Nat /\ (n - 1) + 1 = n
    OBVIOUS
  <1>2. PICK q \in Nat \ {0} : q = Pow2(n - 1)
    BY <1>1, Orders
  <1>3. Pow2(n) = 2 * q
    BY <1>1, <1>2, Orders
  <1>4. PICK d \in Nat : x = (2 * q) * d
    <2>1. PICK e \in Nat \ {0} : e = 2 * q
      BY <1>2
    <2>2. x \in Int /\ x = (x \div e) * e + (x % e) /\ x \div e \in Nat
      OBVIOUS
    <2>3. x % e = 0
      BY <1>3, <2>1
    <2>4. PICK d \in Nat : d = x \div e
      BY <2>2
    <2>5. PICK r \in Int : r = x % e /\ r = 0
      BY <2>3
    <2>6. x = d * e + r
      BY <2>2, <2>4, <2>5
    <2>7. x = d * e
      BY <2>5, <2>6
    <2>8. x = e * d
      BY <2>7
    <2>9. QED
      BY <2>1, <2>8
  <1>5. PICK k \in Int : k = 2 * d /\ x = k * q + 0
    BY <1>2, <1>4
  <1>6. x % q = 0
    <2>1. x \in Int /\ 0 \in 0 .. q - 1
      OBVIOUS
    <2>2. QED
      BY <1>5, <2>1, Unique
  <1>7. QED
    BY <1>2, <1>6

LEMMA NextAligned ==
    ASSUME NEW x \in Nat, NEW q \in Nat \ {0}, x % q = 0
    PROVE  (x + q) % q = 0
  <1>0. x \in Int /\ x = (x \div q) * q + (x % q) /\ x \div q \in Nat
    OBVIOUS
  <1>1. PICK d \in Nat : d = x \div q
    BY <1>0
  <1>2. x = d * q + 0
    BY <1>0, <1>1
  <1>3. PICK k \in Int : k = d + 1 /\ x + q = k * q + 0
    BY <1>2
  <1>4. PICK w \in Int : w = x + q
    OBVIOUS
  <1>5. w = k * q + 0 /\ 0 \in 0 .. q - 1
    BY <1>3, <1>4
  <1>6. w % q = 0
    BY <1>5, Unique
  <1>7. QED
    BY <1>4, <1>6

LEMMA ExtentType ==
    ASSUME NEW h \in [Page -> [log2size : Nat, next : Nat]], NEW a \in Page
    PROVE  Extent(h, a) \in Nat \ {0} /\ h[a].next \in Nat
  BY Orders DEF Extent

LEMMA FallFrame ==
    ASSUME NEW h, NEW g, NEW L, NEW lo, NEW hi, NEW F, Falling(h, L, lo, hi, F),
           \A a \in L : g[a] = h[a]
    PROVE  Falling(g, L, lo, hi, F)
  BY DEF Falling, Aligned, Extent

LEMMA RiseFrame ==
    ASSUME NEW h, NEW g, NEW L, NEW lo, NEW hi, NEW A, Rising(h, L, lo, hi, A),
           \A a \in L : g[a] = h[a]
    PROVE  Rising(g, L, lo, hi, A)
  BY DEF Rising, Aligned, Extent

(* make_list_of_freed_chunks puts a chunk at the head of its list. *)
LEMMA FallPush ==
    ASSUME NEW h, NEW g, NEW L, NEW lo \in Nat, NEW hi \in Nat, NEW F, lo <= hi,
           Falling(h, L, lo, hi, F), \A a \in L : g[a] = h[a],
           NEW q \in Nat \ {0}, Extent(g, hi) = q, g[hi].next = F, hi % q = 0
    PROVE  Falling(g, L \union {hi}, lo, hi + q, hi)
  <1>1. Falling(g, L, lo, hi, F)
    BY FallFrame
  <1>2. L \union {hi} \subseteq lo .. (hi + q) - 1
    BY <1>1 DEF Falling
  <1>3. Aligned(g, L \union {hi})
    BY <1>1 DEF Falling, Aligned
  <1>4. ASSUME NEW a \in L \union {hi}
        PROVE  \/ a = lo /\ g[a].next = 0
               \/ g[a].next \in L \union {hi} /\ g[a].next + Extent(g, g[a].next) = a
    <2>1. CASE a = hi
      BY <1>1, <2>1 DEF Falling
    <2>2. CASE a \in L
      BY <1>1, <2>2 DEF Falling
    <2>3. QED
      BY <2>1, <2>2
  <1>5. QED
    BY <1>2, <1>3, <1>4 DEF Falling

(* release_first_free_chunk takes it off. *)
Lower(L, F) == {a \in L : a < F}

LEMMA FallPop ==
    ASSUME NEW h \in [Page -> [log2size : Nat, next : Nat]], NEW L \in SUBSET Page, PageMax \in Nat,
           NEW lo \in Nat, NEW hi \in Nat, NEW F, F # 0, Falling(h, L, lo, hi, F)
    PROVE  /\ F \in L /\ F + Extent(h, F) = hi /\ F % Extent(h, F) = 0 /\ lo <= F
           /\ Falling(h, Lower(L, F), lo, F, h[F].next)
  <1>1. /\ F \in L /\ F + Extent(h, F) = hi
        /\ L \subseteq lo .. hi - 1 /\ Aligned(h, L)
    BY DEF Falling
  <1> DEFINE M == Lower(L, F)
  <1>2. L \subseteq Nat
    BY DEF Page
  <1>3. \A a \in L : Extent(h, a) \in Nat \ {0}
    BY ExtentType
  <1>4. M \subseteq lo .. F - 1 /\ Aligned(h, M)
    <2>1. Aligned(h, M)
      BY <1>1 DEF Aligned, Lower
    <2>2. ASSUME NEW a \in M PROVE a \in lo .. F - 1
      <3>1. a \in lo .. hi - 1 /\ F \in lo .. hi - 1 /\ a < F
        BY <1>1 DEF Lower
      <3>2. QED
        BY <3>1
    <2>3. QED
      BY <2>1, <2>2
  <1>5. ASSUME NEW a \in L
        PROVE  \/ a = lo /\ h[a].next = 0
               \/ h[a].next \in L /\ h[a].next < a /\ h[a].next + Extent(h, h[a].next) = a
    BY <1>2, <1>3 DEF Falling
  <1>6. \/ lo = F /\ h[F].next = 0
        \/ h[F].next \in M /\ h[F].next + Extent(h, h[F].next) = F
    BY <1>1, <1>5 DEF Lower
  <1>7. \A a \in M : \/ a = lo /\ h[a].next = 0
                     \/ h[a].next \in M /\ h[a].next + Extent(h, h[a].next) = a
    BY <1>1, <1>2, <1>5 DEF Lower
  <1> HIDE DEF M
  <1>8. Falling(h, M, lo, F, h[F].next)
    BY <1>4, <1>6, <1>7 DEF Falling
  <1>9. F % Extent(h, F) = 0 /\ lo <= F
    BY <1>1 DEF Aligned
  <1>10. QED
    BY <1>1, <1>8, <1>9 DEF M

(* release_free_chunk puts a chunk in front of those that come after it. *)
LEMMA RisePush ==
    ASSUME NEW h, NEW g, NEW L, NEW a \in Nat, NEW hi \in Nat, NEW A,
           NEW q \in Nat \ {0}, Rising(h, L, a + q, hi, A), \A k \in L : g[k] = h[k],
           Extent(g, a) = q, g[a].next = A, a % q = 0, a + q <= hi
    PROVE  Rising(g, L \union {a}, a, hi, a)
  <1>1. Rising(g, L, a + q, hi, A)
    BY RiseFrame
  <1>2. L \union {a} \subseteq a .. hi - 1
    BY <1>1 DEF Rising
  <1>3. Aligned(g, L \union {a})
    BY <1>1 DEF Rising, Aligned
  <1>4. ASSUME NEW k \in L \union {a}
        PROVE  \/ k + Extent(g, k) = hi /\ g[k].next = 0
               \/ g[k].next \in L \union {a} /\ g[k].next = k + Extent(g, k)
    <2>1. CASE k = a
      BY <1>1, <2>1 DEF Rising
    <2>2. CASE k \in L
      BY <1>1, <2>2 DEF Rising
    <2>3. QED
      BY <2>1, <2>2
  <1>5. QED
    BY <1>2, <1>3, <1>4 DEF Rising

(* The chunks of such a list cover the memory. *)
LEMMA ChainCovers ==
    ASSUME PageMax \in Nat, header \in [Page -> [log2size : Nat, next : Nat]],
           NEW L \in SUBSET Page, NEW lo \in Nat \ {0}, NEW hi \in Nat, lo < hi, hi <= PageMax + 1,
           Rising(header, L, lo, hi, lo), NEW y \in lo .. hi - 1
    PROVE  \E x \in Chain(lo) : y \in Pages(x)
  <1>1. PICK f : /\ Chain(lo) = f[PageMax] /\ f[0] = {lo} \ {0}
                 /\ \A m \in 0 .. PageMax : m # 0 => f[m] = Reach(f[m - 1])
    BY ChainSteps
  <1>2. \A a \in L : Extent(header, a) \in Nat \ {0} /\ a \in Nat
    BY ExtentType, SMTT(20) DEF Page
  <1>3. lo \in L
    BY DEF Rising
  <1>4. f[0] = {lo} /\ Chain(lo) \subseteq L
    <2>1. lo \in L \union {0} /\ \A a \in L : header[a].next \in L \union {0}
      BY <1>3 DEF Rising
    <2>2. Chain(lo) \subseteq L
      BY <2>1, ChainInside
    <2>3. f[0] = {lo}
      BY <1>1
    <2>4. QED
      BY <2>2, <2>3
  (* The walk does not lose a chunk. *)
  <1>5. \A m \in Nat : m <= PageMax => /\ 0 \notin f[m] /\ f[m] \subseteq L
                                       /\ m > 0 => f[m - 1] \subseteq f[m]
    <2> DEFINE S == {m \in Nat : m <= PageMax => /\ 0 \notin f[m] /\ f[m] \subseteq L
                                                 /\ m > 0 => f[m - 1] \subseteq f[m]}
    <2>1. 0 \in S
      BY <1>3, <1>4
    <2>2. ASSUME NEW m \in S PROVE m + 1 \in S
      <3>1. SUFFICES ASSUME m + 1 <= PageMax
                     PROVE  0 \notin f[m + 1] /\ f[m + 1] \subseteq L /\ f[m] \subseteq f[m + 1]
        OBVIOUS
      <3>2. m \in Nat /\ m + 1 \in 0 .. PageMax /\ m + 1 # 0 /\ (m + 1) - 1 = m /\ m <= PageMax
        BY <3>1
      <3>3. f[m + 1] = Reach(f[m]) /\ 0 \notin f[m] /\ f[m] \subseteq L
        BY <1>1, <3>2
      <3>4. 0 \notin Reach(f[m])
        BY ReachIs
      <3>5. ASSUME NEW x \in f[m] PROVE x \in Reach(f[m])
        BY <3>3, ReachIs
      <3>6. ASSUME NEW x \in Reach(f[m]) PROVE x \in L
        <4>1. PICK k \in f[m] : (x = k \/ x = header[k].next) /\ x # 0
          BY ReachIs
        <4>2. k \in L /\ header[k].next \in L \union {0}
          BY <3>3 DEF Rising
        <4>3. QED
          BY <4>1, <4>2
      <3>7. QED
        BY <3>3, <3>4, <3>5, <3>6
    <2> HIDE DEF S
    <2>3. S \in SUBSET Nat
      BY DEF S
    <2>4. S = Nat
      BY <2>1, <2>2, <2>3, NumbersInduction
    <2>5. QED
      BY <2>4 DEF S
  <1>6. \A n \in Nat : n <= PageMax => f[PageMax - n] \subseteq f[PageMax]
    <2> DEFINE S == {n \in Nat : n <= PageMax => f[PageMax - n] \subseteq f[PageMax]}
    <2>1. 0 \in S
      OBVIOUS
    <2>2. ASSUME NEW n \in S PROVE n + 1 \in S
      <3>1. SUFFICES ASSUME n + 1 <= PageMax PROVE f[PageMax - (n + 1)] \subseteq f[PageMax]
        OBVIOUS
      <3>2. n \in Nat /\ PageMax - n \in Nat /\ PageMax - n > 0 /\ PageMax - n <= PageMax
            /\ (PageMax - n) - 1 = PageMax - (n + 1)
        BY <3>1
      <3>3. f[PageMax - (n + 1)] \subseteq f[PageMax - n] /\ f[PageMax - n] \subseteq f[PageMax]
        BY <1>5, <3>2
      <3>4. QED
        BY <3>3
    <2> HIDE DEF S
    <2>3. S \in SUBSET Nat
      BY DEF S
    <2>4. S = Nat
      BY <2>1, <2>2, <2>3, NumbersInduction
    <2>5. QED
      BY <2>4 DEF S
  (* After n steps it has come to page lo + n. *)
  <1> DEFINE Comes(n) == \E x \in f[n] : lo + n \in Pages(x)
  <1>7. \A n \in Nat : lo + n < hi => Comes(n)
    <2> DEFINE S == {n \in Nat : lo + n < hi => Comes(n)}
    <2>1. 0 \in S
      <3>1. lo + 0 \in Pages(lo)
        BY <1>2, <1>3 DEF Pages, Extent
      <3>2. QED
        BY <1>4, <3>1
    <2>2. ASSUME NEW n \in S PROVE n + 1 \in S
      <3>1. SUFFICES ASSUME lo + (n + 1) < hi PROVE Comes(n + 1)
        OBVIOUS
      <3>2. n \in Nat /\ n + 1 \in 0 .. PageMax /\ n + 1 # 0 /\ (n + 1) - 1 = n /\ n <= PageMax
        BY <3>1
      <3>3. PICK x \in f[n] : lo + n \in Pages(x)
        BY <3>1, <3>2
      <3>4. x \in L /\ x # 0 /\ f[n + 1] = Reach(f[n]) /\ x \in Nat
        BY <1>1, <1>2, <1>5, <3>2, <3>3
      <3>5. PICK e \in Nat \ {0} : e = Extent(header, x)
        BY <1>2, <3>4
      <3>6. lo + n >= x /\ lo + n <= x + e - 1
        BY <3>2, <3>3, <3>4, <3>5 DEF Pages, Extent
      <3>7. CASE lo + n + 1 <= x + e - 1
        <4>1. lo + (n + 1) \in Pages(x)
          BY <3>2, <3>4, <3>5, <3>6, <3>7 DEF Pages, Extent
        <4>2. x \in f[n + 1]
          BY <3>3, <3>4, ReachIs
        <4>3. QED
          BY <4>1, <4>2
      <3>8. CASE lo + n + 1 = x + e
        <4>1. ~(x + e = hi)
          BY <3>1, <3>2, <3>4, <3>5, <3>8
        <4>2. header[x].next \in L /\ header[x].next = x + e
          BY <3>4, <3>5, <4>1 DEF Rising
        <4>3. header[x].next \in f[n + 1]
          <5>1. header[x].next # 0
            BY <3>4, <3>5, <4>2
          <5>2. QED
            BY <3>3, <3>4, <5>1, ReachIs
        <4>4. lo + (n + 1) \in Pages(header[x].next)
          <5>1. PICK k \in L : k = header[x].next
            BY <4>2
          <5>2. lo + (n + 1) = k /\ k \in Nat /\ Extent(header, k) \in Nat \ {0}
            BY <1>2, <3>2, <3>4, <3>5, <3>8, <4>2, <5>1
          <5>3. k \in Pages(k)
            BY <5>2 DEF Pages, Extent
          <5>4. QED
            BY <5>1, <5>2, <5>3
        <4>5. QED
          BY <4>3, <4>4
      <3>9. QED
        BY <3>2, <3>4, <3>5, <3>6, <3>7, <3>8
    <2> HIDE DEF S
    <2>3. S \in SUBSET Nat
      BY DEF S
    <2>4. S = Nat
      BY <2>1, <2>2, <2>3, NumbersInduction
    <2>5. QED
      BY <2>4 DEF S
  <1>8. PICK n \in Nat : y = lo + n /\ n <= PageMax /\ PageMax - n \in Nat /\ PageMax - n <= PageMax
                         /\ PageMax - (PageMax - n) = n
    <2>1. y - lo \in Nat /\ y = lo + (y - lo) /\ y - lo <= PageMax
      OBVIOUS
    <2>2. QED
      BY <2>1
  <1>9. f[n] \subseteq f[PageMax]
    BY <1>6, <1>8
  <1>10. Comes(n)
    BY <1>7, <1>8
  <1>11. QED
    BY <1>1, <1>8, <1>9, <1>10

-----------------------------------------------------------------------------
(* The steps of the driver. *)
LEMMA HeaderType ==
    ASSUME InsideInv
    PROVE  /\ PageMax \in Nat /\ given \in SUBSET Page /\ given \subseteq Nat \ {0}
           /\ header \in [Page -> [log2size : Nat, next : Nat]]
  BY MemoryAssumption, SMTT(20) DEF InsideInv, HeapInside, Headers, Page

LEMMA AreaFresh ==
    ASSUME InsideInv, FreshInv, NEW start, NEW top \in Top, FreeArea(start, top),
           start \in Nat \ {0}, phase = "boot" \/ (phase = "idle" /\ start = base)
    PROVE  FreshInv'
  <1>1. SUFFICES ASSUME taken = {}, c = 0 PROVE FreshInv'
    BY DEF FreeArea, splitVars, FreshInv
  <1>2. /\ base' = start /\ phase' = "carve" /\ p' = start /\ end' = top /\ order' = 0
        /\ given' = given \union start .. top - 1 /\ start < top
        /\ header' = header /\ freed_chunks' = freed_chunks
        /\ available_chunks' = available_chunks
    BY Zenon DEF FreeArea, heap
  <1>3. top \in Nat
    BY MemoryAssumption
  <1>4. p' % Pow2(order') = 0
    <2>1. Pow2(order') = 1 /\ start % 1 = 0
      BY <1>2, Orders
    <2>2. QED
      BY <1>2, <2>1
  <1>5. CASE phase = "boot"
    <2>1. freed_chunks = 0 /\ available_chunks = 0 /\ given = {}
      BY <1>1, <1>5 DEF FreshInv
    <2>2. Falling(header', {}, base', p', freed_chunks')
      BY <1>2, <2>1 DEF Falling, Aligned
    <2>3. given' = base' .. end' - 1
      BY <1>2, <2>1
    <2>4. FirstCarve({})'
      BY <1>2, <2>1, <2>2, <2>3 DEF FirstCarve
    <2>5. CarveFresh'
      BY <1>4, <2>4 DEF CarveFresh
    <2>6. QED
      BY <1>2, <1>3, <2>5 DEF FreshInv
  <1>6. CASE phase = "idle" /\ start = base
    <2>1. DoneFresh /\ base \in Nat \ {0} /\ end \in Nat /\ base < end
      BY <1>1, <1>6 DEF FreshInv
    <2>2. PICK M \in SUBSET Page : FirstDone(M)
      BY <2>1 DEF DoneFresh
    <2>3. freed_chunks = 0 /\ available_chunks = base
      BY <2>1, <2>2 DEF FirstDone, Rising
    <2>4. AgainCarve({})'
      BY <1>2, <1>6, <2>3 DEF AgainCarve
    <2>5. CarveFresh'
      BY <1>4, <2>4 DEF CarveFresh
    <2>6. QED
      BY <1>2, <1>3, <2>5 DEF FreshInv
  <1>7. QED
    BY <1>5, <1>6

LEMMA CarveUpFresh == ASSUME InsideInv, FreshInv, CarveUp PROVE FreshInv'
  <1>1. SUFFICES ASSUME taken = {}, c = 0 PROVE FreshInv'
    BY DEF CarveUp, historyVars, splitVars, FreshInv
  <1>2. /\ phase = "carve" /\ phase' = phase /\ p % Pow2(order + 1) = 0 /\ order' = order + 1
        /\ base' = base /\ p' = p /\ end' = end /\ header' = header /\ given' = given
        /\ freed_chunks' = freed_chunks /\ available_chunks' = available_chunks
    BY DEF CarveUp, GoesUp, heap, carveVars, historyVars
  <1>3. CarveFresh /\ base \in Nat \ {0} /\ end \in Nat /\ base < end
    BY <1>1, <1>2 DEF FreshInv
  <1>4. \A L : FirstCarve(L)' = FirstCarve(L)
    BY <1>2 DEF FirstCarve
  <1>5. \A L : AgainCarve(L)' = AgainCarve(L)
    BY <1>2 DEF AgainCarve, Again
  <1>6. p' % Pow2(order') = 0
    BY <1>2
  <1>7. CarveFresh'
    BY <1>3, <1>4, <1>5, <1>6 DEF CarveFresh
  <1>8. QED
    BY <1>2, <1>3, <1>7 DEF FreshInv

(* When nothing is left to carve, everything is in the list of freed chunks. *)
LEMMA CarveDownFresh == ASSUME InsideInv, FreshInv, CarveDown PROVE FreshInv'
  <1>1. SUFFICES ASSUME taken = {}, c = 0 PROVE FreshInv'
    BY DEF CarveDown, historyVars, splitVars, FreshInv
  <1>2. /\ phase = "carve" /\ end - p < Pow2(order)
        /\ base' = base /\ p' = p /\ end' = end /\ header' = header /\ given' = given
        /\ freed_chunks' = freed_chunks /\ available_chunks' = available_chunks
    BY DEF CarveDown, heap, carveVars, historyVars
  <1>3. /\ CarveFresh /\ base \in Nat \ {0} /\ end \in Nat /\ base < end
        /\ order \in Nat /\ p \in Nat /\ p <= end
    BY <1>1, <1>2 DEF FreshInv, InsideInv
  <1>4. CASE order = 0
    <2>1. phase' = "release"
      BY <1>4 DEF CarveDown
    <2>2. p = end
      <3>1. Pow2(order) = 1
        BY <1>4, Orders
      <3>2. QED
        BY <1>2, <1>3, <3>1
    <2>3. ASSUME NEW L \in SUBSET Page, FirstCarve(L) PROVE FirstRelease(L, {}, end)'
      <3>1. Rising(header', {}, end, end', available_chunks')
        BY <1>2, <2>3 DEF Rising, Aligned, FirstCarve
      <3>2. Falling(header', L, base', end, freed_chunks')
        BY <1>2, <2>2, <2>3 DEF FirstCarve
      <3>3. given' = base' .. end' - 1
        BY <1>2, <2>3 DEF FirstCarve
      <3>4. QED
        BY <1>2, <3>1, <3>2, <3>3 DEF FirstRelease
    <2>4. ASSUME NEW L \in SUBSET Page, AgainCarve(L) PROVE AgainRelease(L)'
      <3>1. Again(L) /\ header[base].next = 0
        BY <1>3, <2>2, <2>4 DEF AgainCarve
      <3>2. QED
        BY <1>2, <3>1 DEF AgainRelease, Again
    <2>5. end \in base' .. end'
      BY <1>2, <1>3
    <2>6. ReleaseFresh'
      <3>1. CASE \E L \in SUBSET Page : FirstCarve(L)
        <4>1. PICK L \in SUBSET Page : FirstCarve(L)
          BY <3>1
        <4>2. PICK e : e = end
          OBVIOUS
        <4>3. FirstRelease(L, {}, e)' /\ e \in base' .. end' /\ {} \in SUBSET Page
          BY <2>3, <2>5, <4>1, <4>2, <1>2 DEF FirstRelease
        <4>4. QED
          BY <4>3 DEF ReleaseFresh
      <3>2. CASE \E L \in SUBSET Page : AgainCarve(L)
        BY <2>4, <3>2 DEF ReleaseFresh
      <3>3. QED
        BY <1>3, <3>1, <3>2 DEF CarveFresh
    <2>7. QED
      BY <1>2, <1>3, <2>1, <2>6 DEF FreshInv
  <1>5. CASE order # 0
    <2>1. phase' = phase /\ order' = order - 1
      BY <1>5 DEF CarveDown
    <2>2. \A L : FirstCarve(L)' = FirstCarve(L)
      BY <1>2 DEF FirstCarve
    <2>3. \A L : AgainCarve(L)' = AgainCarve(L)
      BY <1>2 DEF AgainCarve, Again
    <2>4. p' % Pow2(order') = 0
      BY <1>2, <1>3, <1>5, <2>1, Halves DEF CarveFresh
    <2>5. CarveFresh'
      BY <1>3, <2>2, <2>3, <2>4 DEF CarveFresh
    <2>6. QED
      BY <1>2, <1>3, <2>1, <2>5 DEF FreshInv
  <1>6. QED
    BY <1>4, <1>5

LEMMA ChunkFresh == ASSUME InsideInv, FreshInv, CarveChunk PROVE FreshInv'
  <1>1. SUFFICES ASSUME taken = {}, c = 0 PROVE FreshInv'
    BY DEF CarveChunk, historyVars, splitVars, FreshInv
  <1>2. /\ phase = "carve" /\ end - p >= Pow2(order) /\ phase' = phase
        /\ header' = [header EXCEPT ![p] = [log2size |-> order, next |-> freed_chunks]]
        /\ freed_chunks' = p /\ p' = p + Pow2(order)
        /\ available_chunks' = available_chunks /\ base' = base /\ end' = end
        /\ order' = order /\ given' = given
    BY DEF CarveChunk, historyVars
  <1>3. /\ CarveFresh /\ base \in Nat \ {0} /\ end \in Nat /\ base < end
        /\ order \in Nat /\ p \in Nat /\ p <= end /\ base <= p
        /\ base .. end - 1 \subseteq given
    BY <1>1, <1>2 DEF FreshInv, InsideInv
  <1>4. PICK q \in Nat \ {0} : q = Pow2(order)
    BY <1>3, Orders
  <1>5. p \in given /\ p \in Page
    <2>1. p \in base .. end - 1
      BY <1>2, <1>3, <1>4
    <2>2. QED
      BY <1>3, <2>1, HeaderType
  <1>6. /\ header'[p].log2size = order /\ header'[p].next = freed_chunks
        /\ \A a \in Page : a # p => header'[a] = header[a]
        /\ Extent(header', p) = q
    BY <1>2, <1>4, <1>5, HeaderType DEF Extent
  <1>7. p % q = 0 /\ p' % Pow2(order') = 0
    BY <1>2, <1>3, <1>4, NextAligned DEF CarveFresh
  <1>8. ASSUME NEW L \in SUBSET Page, FirstCarve(L), NEW K, K = L \union {p} PROVE FirstCarve(K)'
    <2>1. Falling(header, L, base, p, freed_chunks) /\ available_chunks = 0 /\ given = base .. end - 1
      BY <1>8 DEF FirstCarve
    <2>2. \A a \in L : header'[a] = header[a]
      <3>1. p \notin L
        BY <1>3, <2>1 DEF Falling
      <3>2. QED
        BY <1>6, <3>1
    <2>3. Falling(header', L \union {p}, base, p + q, p)
      BY <1>3, <1>6, <1>7, <2>1, <2>2, FallPush
    <2>4. Falling(header', K, base', p', freed_chunks')
      BY <1>2, <1>4, <1>8, <2>3
    <2>5. QED
      BY <1>2, <2>1, <2>4 DEF FirstCarve
  <1>9. CASE \E L \in SUBSET Page : FirstCarve(L)
    <2>1. PICK L \in SUBSET Page : FirstCarve(L)
      BY <1>9
    <2>2. PICK K \in SUBSET Page : K = L \union {p}
      BY <1>5
    <2>3. FirstCarve(K)'
      BY <1>8, <2>1, <2>2
    <2>4. CarveFresh'
      BY <1>7, <2>3 DEF CarveFresh
    <2>5. QED
      BY <1>2, <1>3, <2>4 DEF FreshInv
  <1>10. CASE \E L \in SUBSET Page : AgainCarve(L)
    <2>1. PICK L \in SUBSET Page : AgainCarve(L)
      BY <1>10
    <2>2. PICK K \in SUBSET Page : K = IF p = base THEN {base} ELSE L \union {p}
      BY <1>5
    <2>3. AgainCarve(K)'
      <3>1. CASE p = base
        <4>1. freed_chunks = 0 /\ available_chunks = base
          BY <1>3, <2>1, <3>1 DEF AgainCarve, Below, Again
        <4>2. Again(K)'
          BY <1>2, <1>3, <2>2, <3>1, <4>1 DEF Again
        <4>3. Below(K, p')
          BY <1>2, <1>3, <1>4, <2>2, <3>1 DEF Below
        <4>4. header'[base'].next = 0
          BY <1>2, <1>6, <3>1, <4>1
        <4>5. QED
          BY <4>2, <4>3, <4>4 DEF AgainCarve, Below
      <3>2. CASE p # base
        <4>1. Again(L) /\ Below(L, p) /\ header[base].next = 0
          BY <2>1, <3>2 DEF AgainCarve
        <4>2. \A a \in L : header'[a] = header[a] /\ base <= a /\ a < p
          <5>1. p \notin L
            BY <1>3, <4>1 DEF Below
          <5>2. QED
            BY <1>6, <4>1, <5>1 DEF Again, Below
        <4>3. K = L \union {p} /\ base \in L /\ freed_chunks \in L
          BY <2>2, <3>2, <4>1 DEF Again
        <4>4. ASSUME NEW a \in K, a # base PROVE header'[a].next \in K /\ header'[a].next < a
          <5>1. CASE a = p
            BY <1>6, <4>2, <4>3, <5>1
          <5>2. CASE a # p
            <6>1. a \in L /\ header'[a] = header[a]
              BY <4>2, <4>3, <5>2
            <6>2. QED
              BY <4>1, <4>3, <4>4, <6>1 DEF Again
          <5>3. QED
            BY <5>1, <5>2
        <4>5. Again(K)'
          BY <1>2, <1>3, <4>1, <4>2, <4>3, <4>4 DEF Again
        <4>6. Below(K, p')
          <5>1. ASSUME NEW a \in K PROVE a < p + q
            <6>1. CASE a = p
              BY <1>3, <1>4, <6>1
            <6>2. CASE a # p
              <7>1. a \in L /\ a < p /\ a \in Nat
                BY <4>2, <4>3, <6>2 DEF Page
              <7>2. QED
                BY <1>3, <1>4, <7>1
            <6>3. QED
              BY <6>1, <6>2
          <5>2. QED
            BY <1>2, <1>4, <5>1 DEF Below
        <4>7. header'[base'].next = 0
          BY <1>2, <4>1, <4>2, <4>3
        <4>8. QED
          BY <4>5, <4>6, <4>7 DEF AgainCarve, Below
      <3>3. QED
        BY <3>1, <3>2
    <2>4. CarveFresh'
      BY <1>7, <2>3 DEF CarveFresh
    <2>5. QED
      BY <1>2, <1>3, <2>4 DEF FreshInv
  <1>11. QED
    BY <1>3, <1>9, <1>10 DEF CarveFresh

LEMMA AllReleasedFresh == ASSUME InsideInv, FreshInv, AllReleased PROVE FreshInv'
  <1>1. SUFFICES ASSUME taken = {}, c = 0 PROVE FreshInv'
    BY DEF AllReleased, historyVars, splitVars, FreshInv
  <1>2. /\ phase = "release" /\ freed_chunks = 0 /\ phase' = "idle"
        /\ base' = base /\ end' = end /\ header' = header /\ given' = given
        /\ freed_chunks' = freed_chunks /\ available_chunks' = available_chunks
    BY DEF AllReleased, heap, carveVars, historyVars
  <1>3. ReleaseFresh /\ base \in Nat \ {0} /\ end \in Nat /\ base < end
    BY <1>1, <1>2 DEF FreshInv
  <1>4. CASE \E L, M \in SUBSET Page : \E mid \in base .. end : FirstRelease(L, M, mid)
    <2>1. PICK L \in SUBSET Page, M \in SUBSET Page, mid \in base .. end : FirstRelease(L, M, mid)
      BY <1>4
    <2>2. 0 \notin L
      BY MemoryAssumption DEF Page
    <2>3. mid = base
      BY <1>2, <2>1, <2>2 DEF FirstRelease, Falling
    <2>4. FirstDone(M)'
      BY <1>2, <2>1, <2>3 DEF FirstRelease, FirstDone
    <2>5. DoneFresh'
      BY <2>4 DEF DoneFresh
    <2>6. QED
      BY <1>2, <1>3, <2>5 DEF FreshInv
  <1>5. CASE \E L \in SUBSET Page : AgainRelease(L)
    <2>1. PICK L \in SUBSET Page : AgainRelease(L)
      BY <1>5
    <2>2. FALSE
      BY <1>2, <2>1, MemoryAssumption DEF AgainRelease, Again, Page
    <2>3. QED
      BY <2>2
  <1>6. QED
    BY <1>3, <1>4, <1>5 DEF ReleaseFresh

LEMMA ReleaseFirstFresh == ASSUME InsideInv, FreshInv, ReleaseFirst PROVE FreshInv'
  <1>1. SUFFICES ASSUME taken = {}, c = 0 PROVE FreshInv'
    BY DEF ReleaseFirst, historyVars, splitVars, FreshInv
  <1>2. /\ phase = "release" /\ freed_chunks # 0 /\ phase' = "insert"
        /\ cur' = freed_chunks /\ freed_chunks' = header[freed_chunks].next /\ ref' = 0
        /\ base' = base /\ end' = end /\ header' = header /\ given' = given
        /\ available_chunks' = available_chunks
    BY DEF ReleaseFirst, carveVars, historyVars
  <1>3. ReleaseFresh /\ base \in Nat \ {0} /\ end \in Nat /\ base < end
    BY <1>1, <1>2 DEF FreshInv
  <1>4. PICK F : F = freed_chunks
    OBVIOUS
  <1>5. CASE \E L, M \in SUBSET Page : \E mid \in base .. end : FirstRelease(L, M, mid)
    <2>1. PICK L \in SUBSET Page, M \in SUBSET Page, mid \in base .. end : FirstRelease(L, M, mid)
      BY <1>5
    <2>2. Falling(header, L, base, mid, F) /\ mid \in Nat
      BY <1>3, <1>4, <2>1 DEF FirstRelease
    <2>3. PICK K \in SUBSET Page : K = Lower(L, F)
      BY DEF Lower
    <2>4. /\ F + Extent(header, F) = mid /\ F % Extent(header, F) = 0 /\ base <= F
          /\ Falling(header, K, base, F, header[F].next)
      <3>1. PageMax \in Nat /\ header \in [Page -> [log2size : Nat, next : Nat]] /\ F # 0 /\ base \in Nat
        BY <1>2, <1>3, <1>4, HeaderType
      <3>2. QED
        BY <2>2, <2>3, <3>1, FallPop
    <2>5. Falling(header', K, base', cur', freed_chunks')
      BY <1>2, <1>4, <2>4, <2>3
    <2>6. Rising(header', M, cur' + Extent(header', cur'), end', available_chunks')
      BY <1>2, <1>4, <2>1, <2>4 DEF FirstRelease
    <2>7. cur' % Extent(header', cur') = 0 /\ base' <= cur' /\ cur' + Extent(header', cur') <= end'
      BY <1>2, <1>3, <1>4, <2>4
    <2>8. given' = base' .. end' - 1
      BY <1>2, <2>1 DEF FirstRelease
    <2>9. FirstInsert(K, M)'
      BY <1>2, <2>5, <2>6, <2>7, <2>8 DEF FirstInsert
    <2>10. InsertFresh'
      BY <2>9 DEF InsertFresh
    <2>11. QED
      BY <1>2, <1>3, <2>10 DEF FreshInv
  <1>6. CASE \E L \in SUBSET Page : AgainRelease(L)
    <2>1. PICK L \in SUBSET Page : AgainRelease(L)
      BY <1>6
    <2>2. Again(L) /\ (header[base].next = 0 \/ Below(L, header[base].next))
      BY <2>1 DEF AgainRelease
    <2>3. PICK K \in SUBSET Page : K = {a \in L : a < F}
      OBVIOUS
    <2>4. L \subseteq Nat /\ F \in L /\ base \in L /\ available_chunks = base
      BY <1>4, <2>2, HeaderType DEF Again, Page
    <2>5. CASE F = base
      <3>1. AgainInsert(K)'
        BY <1>2, <1>4, <2>4, <2>5 DEF AgainInsert
      <3>2. InsertFresh'
        BY <3>1 DEF InsertFresh
      <3>3. QED
        BY <1>2, <1>3, <3>2 DEF FreshInv
    <2>6. CASE F # base
      <3>1. header[F].next \in L /\ header[F].next < F /\ base < F
        BY <2>2, <2>4, <2>6 DEF Again
      <3>2. base \in K /\ header[F].next \in K
        BY <2>3, <2>4, <3>1
      <3>3. ASSUME NEW a \in K, a # base PROVE header[a].next \in K /\ header[a].next < a
        <4>1. a \in L /\ a < F
          BY <2>3
        <4>2. header[a].next \in L /\ header[a].next < a
          BY <2>2, <3>3, <4>1 DEF Again
        <4>3. header[a].next < F
          <5>1. a \in Nat /\ F \in Nat /\ header[a].next \in Nat
            BY <2>4, <4>1, <4>2
          <5>2. QED
            BY <4>1, <4>2, <5>1
        <4>4. QED
          BY <2>3, <4>2, <4>3
      <3>4. \A a \in K : base <= a /\ a < F
        BY <2>2, <2>3 DEF Again
      <3>5. Again(K)'
        BY <1>2, <1>4, <2>4, <3>2, <3>3, <3>4 DEF Again
      <3>6. Below(K, cur')
        BY <1>2, <1>4, <3>4 DEF Below
      <3>7. header'[base'].next = 0 \/ cur' < header'[base'].next
        BY <1>2, <1>4, <2>2, <2>4 DEF Below
      <3>8. AgainInsert(K)'
        BY <1>2, <3>5, <3>6, <3>7 DEF AgainInsert, Below
      <3>9. InsertFresh'
        BY <3>8 DEF InsertFresh
      <3>10. QED
        BY <1>2, <1>3, <3>9 DEF FreshInv
    <2>7. QED
      BY <2>5, <2>6
  <1>7. QED
    BY <1>3, <1>5, <1>6 DEF ReleaseFresh

(* While the first call inserts, the head of the list is the right place;  *)
(* a second call goes to the first chunk, and no further.                  *)
LEMMA InsertWalkFresh == ASSUME InsideInv, FreshInv, InsertWalk PROVE FreshInv'
  <1>1. SUFFICES ASSUME taken = {}, c = 0 PROVE FreshInv'
    BY DEF InsertWalk, historyVars, splitVars, FreshInv
  <1>2. /\ phase = "insert" /\ phase' = phase /\ Deref(ref) # 0 /\ Deref(ref) < cur
        /\ ref' = Deref(ref) /\ cur' = cur
        /\ base' = base /\ end' = end /\ header' = header /\ given' = given
        /\ freed_chunks' = freed_chunks /\ available_chunks' = available_chunks
    BY DEF InsertWalk, heap, carveVars, historyVars
  <1>3. InsertFresh /\ base \in Nat \ {0} /\ end \in Nat /\ base < end /\ cur \in given
    BY <1>1, <1>2 DEF FreshInv, InsideInv
  <1>4. cur \in Nat /\ cur \in Page /\ Extent(header, cur) \in Nat \ {0}
    BY <1>3, HeaderType, ExtentType
  <1>5. ASSUME NEW L \in SUBSET Page, NEW M \in SUBSET Page, FirstInsert(L, M) PROVE FALSE
    <2>1. ref = 0 /\ (available_chunks = 0 \/ available_chunks = cur + Extent(header, cur))
      BY <1>5 DEF FirstInsert, Rising
    <2>2. QED
      BY <1>2, <1>4, <2>1 DEF Deref
  <1>6. ASSUME NEW L \in SUBSET Page, AgainInsert(L) PROVE AgainInsert(L)'
    <2>1. CASE available_chunks = base /\ cur = base /\ ref = 0
      BY <1>2, <1>3, <2>1 DEF Deref
    <2>2. CASE /\ Again(L) /\ Below(L, cur) /\ ref \in {0, base}
               /\ header[base].next = 0 \/ cur < header[base].next
      <3>1. header[base].next \in Nat
        <4>1. base \in given
          BY <1>2 DEF InsideInv
        <4>2. QED
          BY <4>1, HeaderType
      <3>2. CASE ref = 0
        <4>1. ref' = base
          BY <1>2, <2>2, <3>2 DEF Deref, Again
        <4>2. Again(L)'
          BY <1>2, <2>2 DEF Again
        <4>3. Below(L, cur')
          BY <1>2, <2>2
        <4>4. QED
          BY <1>2, <2>2, <4>1, <4>2, <4>3 DEF AgainInsert, Below
      <3>3. CASE ref = base
        BY <1>2, <1>3, <1>4, <2>2, <3>1, <3>3 DEF Deref
      <3>4. QED
        BY <2>2, <3>2, <3>3
    <2>3. QED
      BY <1>6, <2>1, <2>2 DEF AgainInsert
  <1>7. InsertFresh'
    BY <1>3, <1>5, <1>6 DEF InsertFresh
  <1>8. QED
    BY <1>2, <1>3, <1>7 DEF FreshInv

LEMMA InsertHereFresh == ASSUME InsideInv, FreshInv, InsertHere PROVE FreshInv'
  <1>1. SUFFICES ASSUME taken = {}, c = 0 PROVE FreshInv'
    BY DEF InsertHere, historyVars, splitVars, FreshInv
  <1>2. /\ phase = "insert" /\ ~(Deref(ref) # 0 /\ Deref(ref) < cur)
        /\ base' = base /\ end' = end /\ given' = given /\ freed_chunks' = freed_chunks
    BY DEF InsertHere, carveVars, historyVars
  <1>3. /\ InsertFresh /\ base \in Nat \ {0} /\ end \in Nat /\ base < end
        /\ cur \in given /\ base \in given
    BY <1>1, <1>2 DEF FreshInv, InsideInv
  <1>4. cur \in Nat /\ cur \in Page /\ Extent(header, cur) \in Nat \ {0} /\ base \in Page
    BY <1>3, HeaderType, ExtentType
  <1>5. CASE Deref(ref) = cur
    <2>1. phase' = "exception"
      BY <1>5 DEF InsertHere
    <2>2. QED
      BY <1>2, <1>3, <2>1 DEF FreshInv
  <1>6. CASE Deref(ref) # cur
    <2>1. /\ Assign(ref, cur, [header EXCEPT ![cur].next = Deref(ref)])
          /\ phase' = "release"
      BY <1>6 DEF InsertHere
    <2>2. PICK g : g = [header EXCEPT ![cur].next = Deref(ref)]
      OBVIOUS
    <2>3. /\ g[cur].next = Deref(ref) /\ g[cur].log2size = header[cur].log2size
          /\ \A a \in Page : a # cur => g[a] = header[a]
          /\ DOMAIN g = Page
      BY <1>4, <2>2, HeaderType
    <2>4. CASE \E L, M \in SUBSET Page : FirstInsert(L, M)
      <3>1. PICK L \in SUBSET Page, M \in SUBSET Page : FirstInsert(L, M)
        BY <2>4
      <3>2. /\ given = base .. end - 1 /\ ref = 0
            /\ cur % Extent(header, cur) = 0 /\ base <= cur /\ cur + Extent(header, cur) <= end
            /\ Falling(header, L, base, cur, freed_chunks)
            /\ Rising(header, M, cur + Extent(header, cur), end, available_chunks)
        BY <3>1 DEF FirstInsert
      <3>3. header' = g /\ available_chunks' = cur /\ g[cur].next = available_chunks
        BY <2>1, <2>2, <2>3, <3>2 DEF Assign, Deref
      <3>4. PICK q \in Nat \ {0} : q = Extent(header, cur)
        BY <1>4
      <3>5. Extent(g, cur) = q
        BY <2>3, <3>4 DEF Extent
      <3>6. \A a \in L : g[a] = header[a]
        <4>1. cur \notin L
          BY <1>4, <3>2 DEF Falling
        <4>2. QED
          BY <2>3, <4>1
      <3>7. \A a \in M : g[a] = header[a]
        <4>1. cur \notin M
          BY <1>4, <3>2 DEF Rising
        <4>2. QED
          BY <2>3, <4>1
      <3>8. Falling(g, L, base, cur, freed_chunks)
        BY <3>2, <3>6, FallFrame
      <3>9. Rising(g, M \union {cur}, cur, end, cur)
        BY <1>3, <1>4, <3>2, <3>3, <3>4, <3>5, <3>7, RisePush
      <3>10. PICK K \in SUBSET Page, mid \in base' .. end' : K = M \union {cur} /\ mid = cur
        <4>1. M \union {cur} \in SUBSET Page
          BY <1>4
        <4>2. cur \in base .. end
          BY <1>3, <1>4, <3>2
        <4>3. QED
          BY <1>2, <4>1, <4>2
      <3>11. /\ Falling(header', L, base', mid, freed_chunks')
             /\ Rising(header', K, mid, end', available_chunks')
        BY <1>2, <3>3, <3>8, <3>9, <3>10
      <3>12. FirstRelease(L, K, mid)'
        BY <1>2, <3>2, <3>11 DEF FirstRelease
      <3>13. ReleaseFresh'
        BY <3>10, <3>12 DEF ReleaseFresh
      <3>14. QED
        BY <1>2, <1>3, <2>1, <3>13 DEF FreshInv
    <2>5. CASE \E L \in SUBSET Page : AgainInsert(L)
      <3>1. PICK L \in SUBSET Page : AgainInsert(L)
        BY <2>5
      <3>2. ~(available_chunks = base /\ cur = base /\ ref = 0)
        BY <1>6 DEF Deref
      <3>3. /\ Again(L) /\ Below(L, cur) /\ ref \in {0, base}
            /\ header[base].next = 0 \/ cur < header[base].next
        BY <3>1, <3>2 DEF AgainInsert
      <3>4. base \in L /\ base < cur /\ available_chunks = base
        BY <3>3 DEF Again, Below
      <3>5. ref = base
        BY <1>2, <1>3, <3>3, <3>4 DEF Deref
      <3>6. header' = [g EXCEPT ![base].next = cur] /\ available_chunks' = available_chunks
        BY <1>3, <2>1, <2>2, <3>5 DEF Assign
      <3>7. header'[base].next = cur /\ \A a \in Page : a # cur /\ a # base => header'[a] = header[a]
        <4>1. PICK b : b = base
          OBVIOUS
        <4>2. header' = [g EXCEPT ![b].next = cur] /\ b \in DOMAIN g
          BY <1>4, <2>3, <3>6, <4>1
        <4>3. header'[b].next = cur /\ \A a \in Page : a # b => header'[a] = g[a]
          BY <2>3, <4>2
        <4>4. QED
          BY <2>3, <4>1, <4>3
      <3>8. cur \notin L
        BY <1>4, <3>3 DEF Below
      <3>9. ASSUME NEW a \in L, a # base PROVE header'[a].next \in L /\ header'[a].next < a
        <4>1. header'[a] = header[a]
          BY <3>7, <3>8, <3>9
        <4>2. QED
          BY <3>3, <3>9, <4>1 DEF Again
      <3>10. Again(L)'
        BY <1>2, <3>3, <3>4, <3>6, <3>9 DEF Again
      <3>11. Below(L, header'[base'].next)
        BY <1>2, <3>3, <3>7
      <3>12. AgainRelease(L)'
        BY <3>10, <3>11 DEF AgainRelease, Below
      <3>13. ReleaseFresh'
        BY <3>12 DEF ReleaseFresh
      <3>14. QED
        BY <1>2, <1>3, <2>1, <3>13 DEF FreshInv
    <2>6. QED
      BY <1>3, <2>4, <2>5 DEF InsertFresh
  <1>7. QED
    BY <1>5, <1>6

(* What the heap says of the first call does not depend on the loop that   *)
(* looks for a chunk.                                                      *)
LEMMA DoneFrame ==
    ASSUME DoneFresh, UNCHANGED heap, base' = base, end' = end, given' = given
    PROVE  DoneFresh'
  <1>1. PICK M \in SUBSET Page : FirstDone(M)
    BY DEF DoneFresh
  <1>2. FirstDone(M)'
    BY <1>1 DEF FirstDone, heap
  <1>3. QED
    BY <1>2 DEF DoneFresh

LEMMA SearchFresh ==
    ASSUME InsideInv, FreshInv,
           (\E n \in Size : Allocate(n)) \/ SearchOn \/ NothingFound
    PROVE  FreshInv'
  <1>1. /\ UNCHANGED heap /\ base' = base /\ end' = end /\ given' = given /\ taken' = taken
        /\ phase \in {"idle", "search"} /\ phase' \in {"idle", "search"} /\ c' = c
    BY DEF Allocate, SearchOn, NothingFound, carveVars, historyVars, splitVars
  <1>2. taken = {} /\ c = 0 => /\ DoneFresh /\ base \in Nat \ {0} /\ end \in Nat /\ base < end
    BY <1>1 DEF FreshInv
  <1>3. taken = {} /\ c = 0 => DoneFresh'
    BY <1>1, <1>2, DoneFrame
  <1>4. QED
    BY <1>1, <1>2, <1>3 DEF FreshInv

(* A whole chunk has pages to hand out; a chunk that is split is c.        *)
LEMMA TakeFresh ==
    ASSUME InsideInv, FreshInv, TakeWhole \/ TakeTop PROVE FreshInv'
  <1>1. phase = "search" /\ cur # 0
    BY DEF TakeWhole, TakeTop
  <1>2. cur \in given /\ cur \in Nat
    BY <1>1, HeaderType DEF InsideInv
  <1>3. CASE TakeWhole
    <2>1. size \in Nat \ {0}
      <3>1. header[cur].log2size \in Nat /\ size = Pow2(header[cur].log2size)
        BY <1>2, <1>3, HeaderType DEF TakeWhole
      <3> QED
        BY <3>1, Orders
    <2>2. taken' = taken \union cur .. cur + size - 1
      BY <1>3 DEF TakeWhole, HandOut
    <2>3. cur \in taken'
      BY <1>2, <2>1, <2>2
    <2> QED
      BY <2>3 DEF FreshInv
  <1>4. CASE TakeTop
    BY <1>1, <1>4 DEF TakeTop, FreshInv
  <1> QED
    BY <1>3, <1>4

LEMMA SplitFresh ==
    ASSUME InsideInv, FreshInv, SplitOff \/ SplitOn \/ SplitDone PROVE FreshInv'
  <1>1. phase = "split" /\ taken' = taken /\ c' = c
    BY DEF SplitOff, SplitOn, SplitDone, historyVars, splitVars
  <1>2. ~(taken = {} /\ c = 0)
    BY <1>1 DEF FreshInv
  <1>3. QED
    BY <1>1, <1>2 DEF FreshInv

LEMMA StutterFresh == ASSUME FreshInv, UNCHANGED memoryVars PROVE FreshInv'
  <1>1. /\ header' = header /\ freed_chunks' = freed_chunks /\ available_chunks' = available_chunks
        /\ base' = base /\ phase' = phase /\ p' = p /\ end' = end /\ order' = order
        /\ cur' = cur /\ ref' = ref /\ given' = given /\ taken' = taken
        /\ c' = c
    BY DEF memoryVars, heap, carveVars, findVars, historyVars, splitVars
  <1>2. \A L : FirstCarve(L)' = FirstCarve(L)
    BY <1>1 DEF FirstCarve
  <1>3. \A L : AgainCarve(L)' = AgainCarve(L)
    BY <1>1 DEF AgainCarve, Again
  <1>4. \A L, M, mid : FirstRelease(L, M, mid)' = FirstRelease(L, M, mid)
    BY <1>1 DEF FirstRelease
  <1>5. \A L : AgainRelease(L)' = AgainRelease(L)
    BY <1>1 DEF AgainRelease, Again
  <1>6. \A L, M : FirstInsert(L, M)' = FirstInsert(L, M)
    BY <1>1 DEF FirstInsert
  <1>7. \A L : AgainInsert(L)' = AgainInsert(L)
    BY <1>1 DEF AgainInsert, Again
  <1>8. \A M : FirstDone(M)' = FirstDone(M)
    BY <1>1 DEF FirstDone
  <1>9. CarveFresh => CarveFresh'
    BY <1>1, <1>2, <1>3 DEF CarveFresh
  <1>10. ReleaseFresh => ReleaseFresh'
    BY <1>1, <1>4, <1>5 DEF ReleaseFresh
  <1>11. InsertFresh => InsertFresh'
    BY <1>1, <1>6, <1>7 DEF InsertFresh
  <1>12. DoneFresh => DoneFresh'
    BY <1>1, <1>8 DEF DoneFresh
  <1>13. QED
    BY <1>1, <1>9, <1>10, <1>11, <1>12 DEF FreshInv

LEMMA ServeFresh == ASSUME InsideInv, FreshInv, Serve PROVE FreshInv'
  <1>1. ASSUME NEW top \in Top, set_memory_top(top) PROVE FreshInv'
    <2>1. phase = "idle" /\ FreeArea(base, top)
      BY <1>1 DEF set_memory_top
    <2>2. base \in given
      BY <2>1 DEF InsideInv
    <2>3. base \in Nat \ {0}
      BY <2>2, HeaderType
    <2>4. QED
      BY <2>1, <2>3, AreaFresh
  <1>2. CASE CarveUp
    BY <1>2, CarveUpFresh
  <1>3. CASE CarveDown
    BY <1>3, CarveDownFresh
  <1>4. CASE CarveChunk
    BY <1>4, ChunkFresh
  <1>5. CASE AllReleased
    BY <1>5, AllReleasedFresh
  <1>6. CASE ReleaseFirst
    BY <1>6, ReleaseFirstFresh
  <1>7. CASE InsertWalk
    BY <1>7, InsertWalkFresh
  <1>8. CASE InsertHere
    BY <1>8, InsertHereFresh
  <1>9. CASE (\E n \in Size : Allocate(n)) \/ SearchOn \/ NothingFound
    BY <1>9, SearchFresh
  <1>10. CASE TakeWhole \/ TakeTop
    BY <1>10, TakeFresh
  <1>11. CASE SplitOff \/ SplitOn \/ SplitDone
    BY <1>11, SplitFresh
  <1>12. CASE Exception
    BY <1>12, StutterFresh DEF Exception
  <1>13. QED
    BY <1>1, <1>2, <1>3, <1>4, <1>5, <1>6, <1>7, <1>8, <1>9, <1>10, <1>11, <1>12 DEF Serve

LEMMA InitFresh == MemoryInit => FreshInv
  BY DEF MemoryInit, FreshInv

LEMMA FreshIsRight == InsideInv /\ FreshInv => FreshHeap
  <1>1. SUFFICES ASSUME InsideInv, FreshInv, phase = "idle", taken = {}, c = 0
                 PROVE  LET free == Chain(available_chunks)
                        IN  /\ \A a \in free : a % Pow2(header[a].log2size) = 0
                            /\ \A a \in free : header[a].next # 0 =>
                                                  header[a].next = a + Pow2(header[a].log2size)
                            /\ UNION {Pages(a) : a \in free} = given
    BY DEF FreshHeap
  <1>2. DoneFresh /\ base \in Nat \ {0} /\ end \in Nat /\ base < end
    BY <1>1 DEF FreshInv
  <1>3. PICK M \in SUBSET Page : FirstDone(M)
    BY <1>2 DEF DoneFresh
  <1>4. given = base .. end - 1 /\ Rising(header, M, base, end, available_chunks)
    BY <1>3 DEF FirstDone
  <1>5. available_chunks = base
    BY <1>2, <1>4 DEF Rising
  <1>6. Chain(base) \subseteq M
    <2>1. base \in M \union {0} /\ \A a \in M : header[a].next \in M \union {0}
      BY <1>2, <1>4 DEF Rising
    <2>2. PageMax \in Nat
      BY MemoryAssumption
    <2>3. QED
      BY <2>1, <2>2, ChainInside
  <1>7. \A a \in M : a % Pow2(header[a].log2size) = 0
    BY <1>4 DEF Rising, Aligned, Extent
  <1>8. \A a \in M : header[a].next # 0 => header[a].next = a + Pow2(header[a].log2size)
    BY <1>4 DEF Rising, Extent
  <1>9. ASSUME NEW a \in M PROVE Pages(a) \subseteq given
    <2>1. a \in base .. end - 1 /\ a \in Page
      BY <1>4 DEF Rising
    <2>2. PICK e \in Nat \ {0} : e = Extent(header, a)
      BY <1>1, <2>1, HeaderType, ExtentType
    <2>3. a + e = end \/ (header[a].next \in base .. end - 1 /\ header[a].next = a + e)
      BY <1>4, <2>2 DEF Rising
    <2>4. a + e <= end
      BY <1>2, <2>1, <2>3
    <2>5. Pages(a) = a .. a + e - 1
      BY <2>2 DEF Pages, Extent
    <2>6. QED
      BY <1>2, <1>4, <2>1, <2>4, <2>5
  <1>10. ASSUME NEW y \in given PROVE \E x \in Chain(base) : y \in Pages(x)
    <2>1. PageMax \in Nat /\ header \in [Page -> [log2size : Nat, next : Nat]] /\ given \in SUBSET Page
      BY <1>1, HeaderType
    <2>2. end <= PageMax + 1
      <3>1. end - 1 \in base .. end - 1
        BY <1>2
      <3>2. end - 1 \in Page
        BY <1>4, <2>1, <3>1
      <3>3. QED
        BY <1>2, <2>1, <3>2 DEF Page
    <2>3. Rising(header, M, base, end, base) /\ y \in base .. end - 1
      BY <1>4, <1>5
    <2>4. QED
      BY <1>2, <2>1, <2>2, <2>3, ChainCovers
  <1>11. (UNION {Pages(a) : a \in Chain(base)}) = given
    <2>1. ASSUME NEW y \in UNION {Pages(a) : a \in Chain(base)} PROVE y \in given
      <3>1. PICK a \in Chain(base) : y \in Pages(a)
        BY <2>1
      <3>2. QED
        BY <1>6, <1>9, <3>1
    <2>2. ASSUME NEW y \in given PROVE y \in UNION {Pages(a) : a \in Chain(base)}
      <3>1. PICK a \in Chain(base) : y \in Pages(a)
        BY <1>10
      <3>2. QED
        BY <3>1
    <2>3. QED
      BY <2>1, <2>2
  <1>12. QED
    BY <1>5, <1>6, <1>7, <1>8, <1>11

-----------------------------------------------------------------------------
(* The driver on its own, whatever memory it is first given. *)
LEMMA InitialiseInside ==
    ASSUME InsideInv, FreshInv, NEW start, NEW top \in Top, Initialise(start, top),
           start \in Nat \ {0}
    PROVE  InsideInv' /\ FreshInv'
  BY AreaInside, AreaFresh DEF Initialise

(* The invariant of the allocator (physical_memory_allocator.c), for any    *)
(* memory and any requests.                                                *)
THEOREM MemoryInvariant == MemorySpec => [](InsideInv /\ FreshInv)
  <1>1. MemoryInit => InsideInv /\ FreshInv
    BY InitInside, InitFresh
  <1>2. InsideInv /\ FreshInv /\ [MemoryNext]_memoryVars => InsideInv' /\ FreshInv'
    <2>1. SUFFICES ASSUME InsideInv, FreshInv, [MemoryNext]_memoryVars
                   PROVE  InsideInv' /\ FreshInv'
      OBVIOUS
    <2>2. ASSUME NEW start \in Base, NEW top \in Top, Initialise(start, top)
          PROVE  InsideInv' /\ FreshInv'
      <3>1. start \in Nat \ {0}
        BY MemoryAssumption DEF Page
      <3>2. QED
        BY <2>1, <2>2, <3>1, InitialiseInside
    <2>3. CASE Serve
      BY <2>1, <2>3, ServeInside, ServeFresh
    <2>4. CASE UNCHANGED memoryVars
      BY <2>1, <2>4, StutterInside, StutterFresh
    <2>5. QED
      BY <2>1, <2>2, <2>3, <2>4 DEF MemoryNext
  <1>3. QED
    BY <1>1, <1>2, PTL DEF MemorySpec

(* The machine: the allocator first gets what lies above first_free_page,  *)
(* which the roll call has published by then.                              *)
THEOREM BootHeap == BootSpec => [](InsideInv /\ FreshInv)
  <1>1. BootInit => InsideInv /\ FreshInv
    BY InitInside, InitFresh DEF BootInit
  <1>2. BootInv /\ InsideInv /\ FreshInv /\ [BootNext]_<<bootVars, memoryVars>>
            => InsideInv' /\ FreshInv'
    <2>1. SUFFICES ASSUME BootInv, InsideInv, FreshInv, [BootNext]_<<bootVars, memoryVars>>
                   PROVE  InsideInv' /\ FreshInv'
      OBVIOUS
    <2>2. CASE UNCHANGED memoryVars
      BY <2>1, <2>2, StutterInside, StutterFresh
    <2>3. ASSUME NEW top \in Top, IdleThread(top) PROVE InsideInv' /\ FreshInv'
      <3>1. 0 \in Core
        BY <2>1, CoreZero DEF BootInv
      <3>2. at[0] = "maps" /\ Initialise(first_free_page, top)
        BY <2>3 DEF IdleThread, Goto
      <3>3. first_free_page \in Nat \ {0}
        BY <2>1, <3>1, <3>2 DEF BootInv, BootTypes, Late, Beyond
      <3>4. QED
        BY <2>1, <3>2, <3>3, InitialiseInside
    <2>4. CASE Allocator
      BY <2>1, <2>4, ServeInside, ServeFresh DEF Allocator
    <2>5. CASE CountCores \/ StartRollCall \/ SendEvent \/ EnterSecureEL1 \/ MapInitialStorage
      BY <2>2, <2>5 DEF CountCores, StartRollCall, SendEvent, EnterSecureEL1, MapInitialStorage
    <2>6. ASSUME NEW n \in Core, CoreStep(n) PROVE InsideInv' /\ FreshInv'
      BY <2>2, <2>6 DEF CoreStep, LookForStart, WaitForEvent, roll_call, Loop, Scan,
         ReadPresent, RereadPresent, Decide, Build, Publish, ClearCore
    <2>7. CASE UNCHANGED <<bootVars, memoryVars>>
      BY <2>2, <2>7
    <2>8. QED
      BY <2>1, <2>3, <2>4, <2>5, <2>6, <2>7 DEF BootNext, Core0Step
  <1>3. QED
    BY <1>1, <1>2, BootInvariant, PTL DEF BootSpec

(* "It must never touch memory outside the range it is given at startup"   *)
(* (physical_memory_allocator.c:10): for any amount of memory, any sizes   *)
(* that are asked for and any number of calls, every chunk in a list begins*)
(* inside and every page handed out is inside, even while chunks overlap   *)
(* because a split has put one where another is; and so are all pages of   *)
(* every chunk but one, which only a request for no pages leaves behind.   *)
THEOREM BootInsideGiven == BootSpec => []InsideGiven
  BY BootHeap, InsideIsRight, PTL

(* Until a chunk is split or handed out, the idle driver has cut the memory*)
(* it was given into chunks that lie in order in its list, each aligned to *)
(* its size, and leave nothing out, wherever memory begins and ends.       *)
THEOREM BootFreshHeap == BootSpec => []FreshHeap
  BY BootHeap, FreshIsRight, PTL
=============================================================================
