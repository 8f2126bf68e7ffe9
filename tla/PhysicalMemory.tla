-------------------------- MODULE PhysicalMemory --------------------------
(***************************************************************************)
(* The physical memory allocator (drivers/physical_memory_allocator.c),    *)
(* which keeps the headers of its free chunks in the free memory itself,   *)
(* and what the system driver asks of it (drivers/system.c).               *)
(*                                                                         *)
(* Addresses and sizes are in pages of 4k, so a chunk of log2size 12 has   *)
(* order 0 here.  The driver serves one call at a time; every round of its *)
(* loops is a step.  The register widths (a size is an unsigned int) are   *)
(* far away from the sizes modelled.                                       *)
(***************************************************************************)
EXTENDS Integers, FiniteSets

CONSTANTS PageMax,    \* the number of the last page; page 0 is the null pointer
          MaxOrder,   \* the largest chunk, log2size 34 in the code
          Base,       \* where first_free_page may be
          Top,        \* where memory may end
          Size        \* how much is asked for, 0 included

Page == 1 .. PageMax

ASSUME MemoryAssumption ==
    /\ PageMax \in Nat /\ MaxOrder \in Nat
    /\ Base \subseteq Page
    /\ Top \subseteq 1 .. PageMax + 1
    /\ Size \subseteq Nat

VARIABLES
    header,            \* chunk.log2size and chunk.next of every page
    freed_chunks,
    available_chunks,
    base,              \* allocatable_memory_base of the system driver, 0 at first
    phase,                \* the loop the driver is in, "idle" between calls
    p, end, order,     \* make_list_of_freed_chunks; order also in allocate
    ref, cur,          \* list and p of release_free_chunk and of allocate
    c, size, remainder,\* allocate
    given,             \* history: the pages handed to the driver
    taken, twice,      \* history: the pages handed out; one of them twice
    unsized            \* history: the chunk whose log2size nobody wrote, or 0

heap == <<header, freed_chunks, available_chunks>>
carveVars == <<p, end>>
findVars == <<ref, cur>>
splitVars == <<c, size, remainder>>
historyVars == <<given, taken, twice, unsized>>
memoryVars == <<heap, base, phase, carveVars, order, findVars, splitVars, historyVars>>

Pow2(n) == 2 ^ n

MemoryInit ==
    /\ header = [a \in Page |-> [log2size |-> 0, next |-> 0]]
    /\ freed_chunks = 0 /\ available_chunks = 0
    /\ base = 0
    /\ phase = "boot"
    /\ p = 0 /\ end = 0 /\ order = 0
    /\ ref = 0 /\ cur = 0
    /\ c = 0 /\ size = 0 /\ remainder = 0
    /\ given = {} /\ taken = {} /\ twice = FALSE /\ unsized = 0

-----------------------------------------------------------------------------
(* Call 0, from idle_thread_entry at boot and from set_memory_top later,   *)
(* both times from allocatable_memory_base on.                             *)
FreeArea(start, top) ==
    /\ start < top
    /\ base' = start
    /\ phase' = "carve"
    /\ p' = start /\ end' = top /\ order' = 0
    /\ given' = given \union start .. top - 1
    /\ UNCHANGED <<heap, findVars, splitVars, taken, twice, unsized>>

Initialise(first_free_page, top) == phase = "boot" /\ FreeArea(first_free_page, top)

set_memory_top(top) == phase = "idle" /\ FreeArea(base, top)

(* make_list_of_freed_chunks: the nested blocks() of aligned_blocks.h.     *)
(* `order` is the nesting; the loop of one size goes up to the next when   *)
(* that fits and is aligned, and ends when its own does not fit.           *)
GoesUp == /\ order < MaxOrder
          /\ end - p >= Pow2(order + 1)
          /\ p % Pow2(order + 1) = 0

CarveUp ==
    /\ phase = "carve"
    /\ end - p >= Pow2(order)
    /\ GoesUp
    /\ order' = order + 1
    /\ UNCHANGED <<heap, base, phase, carveVars, findVars, splitVars, historyVars>>

CarveChunk ==
    /\ phase = "carve"
    /\ end - p >= Pow2(order)
    /\ ~GoesUp
    /\ header' = [header EXCEPT ![p] = [log2size |-> order, next |-> freed_chunks]]
    /\ freed_chunks' = p
    /\ p' = p + Pow2(order)
    /\ UNCHANGED <<available_chunks, base, phase, end, order, findVars, splitVars,
                   historyVars>>

CarveDown ==
    /\ phase = "carve"
    /\ end - p < Pow2(order)
    /\ IF order = 0 THEN phase' = "release" /\ UNCHANGED order
                    ELSE order' = order - 1 /\ UNCHANGED phase
    /\ UNCHANGED <<heap, base, carveVars, findVars, splitVars, historyVars>>

(* make_available_all_freed_chunks *)
AllReleased ==
    /\ phase = "release"
    /\ freed_chunks = 0
    /\ phase' = "idle"
    /\ UNCHANGED <<heap, base, carveVars, order, findVars, splitVars, historyVars>>

(* release_first_free_chunk *)
ReleaseFirst ==
    /\ phase = "release"
    /\ freed_chunks # 0
    /\ cur' = freed_chunks
    /\ freed_chunks' = header[freed_chunks].next
    /\ ref' = 0
    /\ phase' = "insert"
    /\ UNCHANGED <<header, available_chunks, base, carveVars, order, splitVars,
                   historyVars>>

(* A reference is the list head (0) or the next of a chunk. *)
Deref(r) == IF r = 0 THEN available_chunks ELSE header[r].next

(* *r = a, in a heap whose headers are h *)
MutantAssign(r, a, h) ==
    IF r = 0 THEN available_chunks' = a /\ UNCHANGED header
    ELSE header' = [h EXCEPT ![r].next = a] /\ UNCHANGED available_chunks

Assign(r, a, h) ==
    IF r = 0 THEN available_chunks' = a /\ header' = h
    ELSE header' = [h EXCEPT ![r].next = a] /\ UNCHANGED available_chunks

(* release_free_chunk *)
InsertWalk ==
    /\ phase = "insert"
    /\ Deref(ref) # 0 /\ Deref(ref) < cur
    /\ ref' = Deref(ref)
    /\ UNCHANGED <<heap, base, phase, carveVars, order, cur, splitVars, historyVars>>

InsertHere ==
    /\ phase = "insert"
    /\ ~(Deref(ref) # 0 /\ Deref(ref) < cur)
    /\ IF Deref(ref) = cur
         THEN phase' = "exception" /\ UNCHANGED <<header, available_chunks>>
         ELSE /\ Assign(ref, cur, [header EXCEPT ![cur].next = Deref(ref)])
              /\ phase' = "release"
    /\ UNCHANGED <<freed_chunks, base, carveVars, order, findVars, splitVars,
                   historyVars>>

-----------------------------------------------------------------------------
(* Call 1, from allocate_memory, which does not look at the size it is     *)
(* asked for.  Bound: after a request that left a chunk with no log2size,  *)
(* nothing is asked for: what the search would make of that chunk, and     *)
(* where that would lead, depends on what the page held before.            *)
Allocate(n) ==
    /\ phase = "idle"
    /\ unsized = 0
    /\ size' = n
    /\ ref' = 0 /\ cur' = available_chunks
    /\ phase' = "search"
    /\ UNCHANGED <<heap, base, carveVars, order, c, remainder, historyVars>>

SearchOn ==
    /\ phase = "search"
    /\ cur # 0 /\ Pow2(header[cur].log2size) < size
    /\ ref' = cur /\ cur' = header[cur].next
    /\ UNCHANGED <<heap, base, phase, carveVars, order, splitVars, historyVars>>

NothingFound ==
    /\ phase = "search"
    /\ cur = 0
    /\ phase' = "idle"
    /\ UNCHANGED <<heap, base, carveVars, order, findVars, splitVars, historyVars>>

HandOut(start, n) ==
    /\ taken' = taken \union start .. start + n - 1
    /\ twice' = (twice \/ taken \intersect (start .. start + n - 1) # {})
    /\ UNCHANGED <<given, unsized>>

MutantTopOf(chunk, rest) == chunk + rest + 1

(* "Allocate from the top of it." *)
TopOf(chunk, rest) == chunk + rest

TakeWhole ==
    /\ phase = "search"
    /\ cur # 0 /\ Pow2(header[cur].log2size) = size
    /\ Assign(ref, header[cur].next, header)
    /\ HandOut(cur, size)
    /\ phase' = "idle"
    /\ UNCHANGED <<freed_chunks, base, carveVars, order, findVars, splitVars>>

TakeTop ==
    LET rest == Pow2(header[cur].log2size) - size
    IN  /\ phase = "search"
        /\ cur # 0 /\ Pow2(header[cur].log2size) > size
        /\ c' = cur
        /\ remainder' = rest
        /\ HandOut(TopOf(cur, rest), size)
        /\ order' = header[cur].log2size - 1
        /\ phase' = "split"
        /\ UNCHANGED <<heap, base, carveVars, findVars, size>>

(* The loop that splits up the remainder.  A new chunk is placed relative  *)
(* to c, the start of the chunk that was found.  Its log2size is whatever  *)
(* the page holds, until the loop comes to it in a later round; when no    *)
(* pages were asked for, the last new chunk has no such round.             *)
SplitOff ==
    LET rest == remainder - Pow2(order)
        new == c + Pow2(order)
        smaller == [header EXCEPT ![cur].log2size = order]
    IN  /\ phase = "split"
        /\ remainder # 0 /\ order >= 0
        /\ remainder >= Pow2(order)
        /\ remainder' = rest
        /\ IF rest # 0
             THEN /\ \E held \in IF order = 0 THEN 0 .. MaxOrder
                                             ELSE {smaller[new].log2size} :
                        header' = [smaller EXCEPT
                                      ![new] = [log2size |-> held, next |-> header[cur].next],
                                      ![cur].next = new]
                  /\ cur' = new
                  /\ unsized' = IF order = 0 THEN new ELSE unsized
             ELSE header' = smaller /\ UNCHANGED <<cur, unsized>>
        /\ order' = order - 1
        /\ UNCHANGED <<freed_chunks, available_chunks, base, phase, carveVars, ref, c,
                       size, given, taken, twice>>

SplitOn ==
    /\ phase = "split"
    /\ remainder # 0 /\ order >= 0
    /\ remainder < Pow2(order)
    /\ order' = order - 1
    /\ UNCHANGED <<heap, base, phase, carveVars, findVars, splitVars, historyVars>>

SplitDone ==
    /\ phase = "split"
    /\ remainder = 0 \/ order < 0
    /\ phase' = "idle"
    /\ UNCHANGED <<heap, base, carveVars, order, findVars, splitVars, historyVars>>

(* inter_map_exception never returns. *)
Exception == phase = "exception" /\ UNCHANGED memoryVars

(* What the driver does once it has been given memory. *)
Serve ==
    \/ \E top \in Top : set_memory_top(top)
    \/ CarveUp \/ CarveChunk \/ CarveDown
    \/ AllReleased \/ ReleaseFirst \/ InsertWalk \/ InsertHere
    \/ \E n \in Size : Allocate(n)
    \/ SearchOn \/ NothingFound \/ TakeWhole \/ TakeTop
    \/ SplitOff \/ SplitOn \/ SplitDone
    \/ Exception

MemoryNext == (\E start \in Base, top \in Top : Initialise(start, top)) \/ Serve

MemorySpec == MemoryInit /\ [][MemoryNext]_memoryVars

-----------------------------------------------------------------------------
(* The chunks that can be reached from a. *)
Chain(a) ==
    LET reach[n \in 0 .. PageMax] ==
            IF n = 0 THEN {a} \ {0}
            ELSE (UNION {{x, header[x].next} : x \in reach[n - 1]}) \ {0}
    IN  reach[PageMax]

Pages(a) == a .. a + Pow2(header[a].log2size) - 1

(* "It must never touch memory outside the range it is given at startup"   *)
(* (physical_memory_allocator.c:10): every chunk in a list begins inside,  *)
(* every page handed out is inside, and so are all the pages of every      *)
(* chunk but one: a request for no pages may leave a chunk whose size is   *)
(* anything, and no other request does.                                    *)
InsideGiven ==
    /\ \A a \in Chain(available_chunks) \union Chain(freed_chunks) :
          /\ a \in given
          /\ phase # "split" /\ a # unsized => Pages(a) \subseteq given
    /\ taken \subseteq given
    /\ unsized # 0 => size = 0

(* What the first call leaves behind, until a chunk is split or handed out:*)
(* chunks in the order of their addresses, each aligned to its size, that  *)
(* together are exactly the memory that was given.                         *)
FreshHeap ==
    (phase = "idle" /\ taken = {} /\ c = 0) =>
        LET free == Chain(available_chunks)
        IN  /\ \A a \in free : a % Pow2(header[a].log2size) = 0
            /\ \A a \in free : header[a].next # 0 =>
                                  header[a].next = a + Pow2(header[a].log2size)
            /\ UNION {Pages(a) : a \in free} = given

(* No page is handed out twice. *)
NotTwice == ~twice
=============================================================================
