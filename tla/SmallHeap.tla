------------------------------ MODULE SmallHeap ------------------------------
(***************************************************************************)
(* The small-memory heap of RT-Thread (rt-thread/src/mem.c): one area cut  *)
(* into blocks whose headers form a doubly linked list, searched first-fit *)
(* from lfree.  heap_sem makes every operation one step; rt_realloc by     *)
(* moving is rt_malloc and, after the copy, rt_free.                       *)
(*                                                                         *)
(* Offsets and sizes are in units of RT_ALIGN_SIZE.  A header exists for   *)
(* the model while it is linked.                                           *)
(***************************************************************************)
EXTENDS Integers, FiniteSetsExt

CONSTANTS
    MemSize,    \* mem_size_aligned
    Header,     \* SIZEOF_STRUCT_MEM
    MinSize,    \* MIN_SIZE_ALIGNED
    Sizes       \* sizes the callers ask for, rounded up to the alignment

ASSUME HeapAssumption ==
    /\ {MemSize, Header, MinSize} \subseteq Nat \ {0}
    /\ MinSize <= MemSize
    /\ Sizes \subseteq Nat \ {0}

VARIABLES
    block,      \* linked headers: offset -> [next, prev, used]
    lfree,
    used_mem,
    owned,      \* what callers hold: offset -> size they asked for
    moving,     \* offsets that rt_realloc has copied and not yet freed
    cut         \* history: free blocks that a shrinking rt_realloc cut off

vars == <<block, lfree, used_mem, owned, moving, cut>>

End == MemSize + Header         \* heap_end

Room(b, p) == b[p].next - p - Header
FreeBlocks(b) == {p \in DOMAIN b : ~b[p].used}

(* rt_system_heap_init *)
Init ==
    /\ block = [p \in {0, End} |->
                   IF p = 0 THEN [next |-> End, prev |-> 0, used |-> FALSE]
                            ELSE [next |-> End, prev |-> End, used |-> TRUE]]
    /\ lfree = 0
    /\ used_mem = 0
    /\ owned = [p \in {} |-> 0]
    /\ moving = {}
    /\ cut = {}

-----------------------------------------------------------------------------
(* Header q is taken out of the list, its space falling to p before it. *)
Absorb(h, p, q) ==
    LET after == h.block[q].next
    IN  [block |-> [x \in DOMAIN h.block \ {q} |->
                      CASE x = p -> [h.block[p] EXCEPT !.next = after]
                        [] x = after /\ x # p -> [h.block[x] EXCEPT !.prev = p]
                        [] OTHER -> h.block[x]],
         lfree |-> IF h.lfree = q THEN p ELSE h.lfree]

(* plug_holes: the hole behind, then the hole in front. *)
PlugHoles(h, m) ==
    LET n  == h.block[m].next
        h1 == IF n # m /\ ~h.block[n].used /\ n # End THEN Absorb(h, m, n) ELSE h
        p  == h1.block[m].prev
    IN  IF p # m /\ ~h1.block[p].used THEN Absorb(h1, p, m) ELSE h1

(* Mutant of Split: the block behind keeps its link back to m. *)
SplitOneWay(b, m, size, used) ==
    LET new == m + Header + size
    IN  [x \in DOMAIN b \cup {new} |->
           CASE x = new -> [next |-> b[m].next, prev |-> m, used |-> FALSE]
             [] x = m -> [next |-> new, prev |-> b[m].prev, used |-> used]
             [] OTHER -> b[x]]

(* A free header is made behind the first size units of m.  The link back  *)
(* of heap_end is not kept.                                                *)
Split(b, m, size, used) ==
    LET new   == m + Header + size
        after == b[m].next
    IN  [x \in DOMAIN b \cup {new} |->
           CASE x = new -> [next |-> after, prev |-> m, used |-> FALSE]
             [] x = m -> [next |-> new, prev |-> b[m].prev, used |-> used]
             [] x = after /\ x # End -> [b[x] EXCEPT !.prev = new]
             [] OTHER -> b[x]]

Needed(size) == IF size < MinSize THEN MinSize ELSE size

(* Mutant of Fits: the header is counted as room for data. *)
FitsWithHeader(size) ==
    {p \in DOMAIN block :
        /\ lfree <= p /\ p < MemSize - size
        /\ ~block[p].used /\ block[p].next - p >= size}

(* The blocks the loop of rt_malloc can stop at, starting from lfree. *)
Fits(size) ==
    {p \in DOMAIN block :
        /\ lfree <= p /\ p < MemSize - size
        /\ ~block[p].used /\ Room(block, p) >= size}

(* rt_malloc splits the block it found, if a minimal block remains. *)
Carve(m, size) ==
    IF Room(block, m) >= size + Header + MinSize
    THEN Split(block, m, size, TRUE)
    ELSE [block EXCEPT ![m].used = TRUE]

(* The loop that moves lfree past used blocks. *)
LowestFrom(b, from) == Min({p \in DOMAIN b : p >= from /\ (~b[p].used \/ p = End)})

Take(m, size, asked) ==
    /\ block' = Carve(m, size)
    /\ lfree' = IF m = lfree THEN LowestFrom(block', lfree) ELSE lfree
    /\ used_mem' = used_mem + block'[m].next - m
    /\ owned' = [p \in DOMAIN owned \cup {m} |-> IF p = m THEN asked ELSE owned[p]]
    /\ cut' = cut \ {m}

Malloc(asked) ==
    LET size == Needed(asked)
    IN  /\ asked <= MemSize
        /\ Fits(size) # {}
        /\ Take(Min(Fits(size)), size, asked)
        /\ UNCHANGED moving

(* Mutant of Release: lfree stays where it is. *)
ReleaseKeepsLfree(m) ==
    LET h == PlugHoles([block |-> [block EXCEPT ![m].used = FALSE], lfree |-> lfree], m)
    IN  /\ block' = h.block
        /\ lfree' = h.lfree
        /\ used_mem' = used_mem - (block[m].next - m)
        /\ owned' = [p \in DOMAIN owned \ {m} |-> owned[p]]
        /\ cut' = cut \cap FreeBlocks(h.block)

(* rt_free of a block that was handed out. *)
Release(m) ==
    LET low == IF m < lfree THEN m ELSE lfree
        h   == PlugHoles([block |-> [block EXCEPT ![m].used = FALSE], lfree |-> low], m)
    IN  /\ block' = h.block
        /\ lfree' = h.lfree
        /\ used_mem' = used_mem - (block[m].next - m)
        /\ owned' = [p \in DOMAIN owned \ {m} |-> owned[p]]
        /\ cut' = cut \cap FreeBlocks(h.block)

Free(m) ==
    /\ m \in DOMAIN owned \ moving
    /\ Release(m)
    /\ UNCHANGED moving

-----------------------------------------------------------------------------
(* rt_realloc that gives back the end of a block ... *)
Shrinks(m, newsize) == newsize + Header + MinSize < Room(block, m)

ReallocShrink(m, newsize) ==
    LET h == PlugHoles([block |-> Split(block, m, newsize, TRUE), lfree |-> lfree],
                       m + Header + newsize)
    IN  /\ m \in DOMAIN owned \ moving
        /\ newsize <= MemSize
        /\ Shrinks(m, newsize)
        /\ block' = h.block
        /\ lfree' = h.lfree
        /\ used_mem' = used_mem - (Room(block, m) - newsize)
        /\ owned' = [owned EXCEPT ![m] = newsize]
        /\ cut' = (cut \cup {m + Header + newsize}) \cap FreeBlocks(h.block)
        /\ UNCHANGED moving

(* ... or allocates another one, to which the data is copied ... *)
ReallocMove(m, newsize) ==
    LET size == Needed(newsize)
    IN  /\ m \in DOMAIN owned \ moving
        /\ newsize <= MemSize
        /\ Room(block, m) # newsize
        /\ ~Shrinks(m, newsize)
        /\ Fits(size) # {}
        /\ Take(Min(Fits(size)), size, newsize)
        /\ moving' = moving \cup {m}

(* ... and frees the old one, other callers having run in between. *)
ReallocFree(m) ==
    /\ m \in moving
    /\ Release(m)
    /\ moving' = moving \ {m}

Next ==
    \/ \E size \in Sizes : Malloc(size)
    \/ \E m \in DOMAIN owned : Free(m)
    \/ \E m \in DOMAIN owned, size \in Sizes : ReallocShrink(m, size)
    \/ \E m \in DOMAIN owned, size \in Sizes : ReallocMove(m, size)
    \/ \E m \in moving : ReallocFree(m)

Spec == Init /\ [][Next]_vars

-----------------------------------------------------------------------------
(* The fields of the heap keep to their ranges. *)
TypeOK ==
    /\ DOMAIN block \subseteq 0..End /\ {0, End} \subseteq DOMAIN block
    /\ \A p \in DOMAIN block : block[p] \in [next : 0..End, prev : 0..End, used : BOOLEAN]
    /\ lfree \in DOMAIN block
    /\ used_mem \in 0..End
    /\ DOMAIN owned \subseteq DOMAIN block
    /\ moving \subseteq DOMAIN owned
    /\ cut \subseteq FreeBlocks(block)

(* The headers tile the heap: next leads to the following header, prev     *)
(* back to the preceding one (that of heap_end is not kept), and every     *)
(* block can hold data.                                                    *)
ChainConsistent ==
    /\ block[End].next = End /\ block[End].used
    /\ \A p \in DOMAIN block \ {End} :
          /\ block[p].next = Min({q \in DOMAIN block : q > p})
          /\ Room(block, p) > 0
          /\ block[p].prev = Max({0} \cup {q \in DOMAIN block : q < p})

(* What rt_malloc's comment relies on: "if not we have 2 unused structs in *)
(* a row, plug_holes should have take care of this".                       *)
NoAdjacentHoles ==
    \A p \in FreeBlocks(block) : block[block[p].next].used

(* Whatever others allocate, free and resize, a caller keeps a used block  *)
(* of at least the size it asked for, and used blocks are owned by someone.*)
OwnedIntact ==
    /\ {p \in DOMAIN block \ {End} : block[p].used} = DOMAIN owned
    /\ \A p \in DOMAIN owned : Room(block, p) >= owned[p]

(* rt_memory_info reports what is really in use, headers included. *)
StatsExact ==
    used_mem = MapThenSumSet(LAMBDA p : block[p].next - p,
                             {p \in DOMAIN block \ {End} : block[p].used})

(* "pointer to the lowest free block": lfree is free, and the free blocks   *)
(* below it, which a search that starts there never visits, are only those *)
(* that a shrinking rt_realloc has cut off.                                *)
LfreeLowest ==
    /\ {p \in FreeBlocks(block) : p < lfree} \subseteq cut
    /\ lfree # End => ~block[lfree].used

(* The block list and the statistics are right after every call. *)
Consistent ==
    /\ TypeOK
    /\ ChainConsistent
    /\ NoAdjacentHoles
    /\ StatsExact
=============================================================================
