-------------------------------- MODULE Heap --------------------------------
(***************************************************************************)
(* The heap of the hypervisor, sys/lib/malloc.c: a circular list of the    *)
(* free blocks in address order.  Addresses and sizes are in units of a    *)
(* block header; a block of n units is a header and n - 1 units of data.   *)
(***************************************************************************)
EXTENDS Integers, FiniteSets, FiniteSetsExt

CONSTANTS
  UNITS,      \* units of the heap after HeapInit()
  Requests    \* sizes of the blocks that are asked for, in units

ASSUME HeapAssumption ==
  /\ UNITS \in Nat \ {0}
  /\ Requests \subseteq Nat \ {0}

Address == 0..(UNITS - 1)
NIL == -1

VARIABLES
  freep,    \* the block the next search starts after
  hdr,      \* block headers: [ptr, size]
  used      \* blocks handed out and not freed

heapVars == <<freep, hdr, used>>

-----------------------------------------------------------------------------
(* A heap is a record [freep, hdr].                                        *)
Heap == [freep |-> freep, hdr |-> hdr]

(* The blocks met from freep on: Walk(h)[0] is freep.                      *)
Walk(h) ==
  LET at[k \in 0..UNITS] == IF k = 0 THEN h.freep ELSE h.hdr[at[k - 1]].ptr
  IN at

(* The number of steps after which the walk is back at freep.              *)
Circle(h) == Min({k \in 1..UNITS : Walk(h)[k] = h.freep})

FreeBlocks(h) == {Walk(h)[k] : k \in 1..Circle(h)}

(* Steps of the walk at which malloc() may stop: the block is big enough.  *)
Fits(h, n) == {k \in 1..Circle(h) : h.hdr[Walk(h)[k]].size >= n}

(* Takes n units from the end of block p, or unlinks it when all of it is  *)
(* needed.                                                                 *)
Carve(h, prevp, p, n) ==
  LET rest == h.hdr[p].size - n
  IN IF rest = 0
     THEN [block |-> p,
           heap |-> [freep |-> prevp,
                     hdr |-> [h.hdr EXCEPT ![prevp].ptr = h.hdr[p].ptr]]]
     ELSE [block |-> p + rest,
           heap |-> [freep |-> prevp,
                     hdr |-> [h.hdr EXCEPT ![p].size = rest,
                                           ![p + rest].size = n]]]

(* malloc() of n units from heap h.                                        *)
Allocate(h, n) ==
  IF Fits(h, n) = {}
  THEN [block |-> NIL, heap |-> h]
  ELSE LET k == Min(Fits(h, n)) IN Carve(h, Walk(h)[k - 1], Walk(h)[k], n)

(* The ends of the list, where addresses wrap, are not a place.            *)
Between_MutantWrap(h, p, b) ==
  LET next == h.hdr[p].ptr
  IN p < b /\ b < next

(* Block b belongs after block p of the free list.                         *)
Between(h, p, b) ==
  LET next == h.hdr[p].ptr
  IN (p < b /\ b < next) \/ (p >= next /\ (b > p \/ b < next))

Places(h, b) == {k \in 0..(Circle(h) - 1) : Between(h, Walk(h)[k], b)}

(* A block that ends where the next one starts is not joined to it.        *)
Join_MutantUpper(hd, p, b) ==
  LET upper == [hd EXCEPT ![b].ptr = hd[p].ptr]
  IN IF p + upper[p].size = b
     THEN [upper EXCEPT ![p] = [ptr |-> upper[b].ptr, size |-> @.size + upper[b].size]]
     ELSE [upper EXCEPT ![p].ptr = b]

(* The units of a block joined to the one below are not added to it.       *)
Join_MutantLower(hd, p, b) ==
  LET next == hd[p].ptr
      upper == IF b + hd[b].size = next
               THEN [hd EXCEPT ![b] = [ptr |-> hd[next].ptr, size |-> @.size + hd[next].size]]
               ELSE [hd EXCEPT ![b].ptr = next]
  IN IF p + upper[p].size = b
     THEN [upper EXCEPT ![p].ptr = upper[b].ptr]
     ELSE [upper EXCEPT ![p].ptr = b]

(* Inserts block b after p, joined to the blocks it touches: first the one *)
(* above, then the one below.                                              *)
Join(hd, p, b) ==
  LET next == hd[p].ptr
      upper == IF b + hd[b].size = next
               THEN [hd EXCEPT ![b] = [ptr |-> hd[next].ptr, size |-> @.size + hd[next].size]]
               ELSE [hd EXCEPT ![b].ptr = next]
  IN IF p + upper[p].size = b
     THEN [upper EXCEPT ![p] = [ptr |-> upper[b].ptr, size |-> @.size + upper[b].size]]
     ELSE [upper EXCEPT ![p].ptr = b]

(* free() of block b.                                                      *)
Release(h, b) ==
  LET p == Walk(h)[Min(Places(h, b))]
  IN [freep |-> p, hdr |-> Join(h.hdr, p, b)]

Becomes(h) == freep' = h.freep /\ hdr' = h.hdr

-----------------------------------------------------------------------------
(* malloc(), calloc()                                                      *)
Malloc(n) ==
  LET a == Allocate(Heap, n)
  IN /\ Becomes(a.heap)
     /\ used' = IF a.block = NIL THEN used ELSE used \cup {a.block}

(* free() of a block that was handed out.  The search never ends when the  *)
(* block has no place: the hypervisor hangs.                               *)
Free(b) ==
  /\ Places(Heap, b) # {}
  /\ Becomes(Release(Heap, b))
  /\ used' = used \ {b}

(* realloc() of block b: always to a new block.                            *)
Realloc(b, n) ==
  LET a == Allocate(Heap, n)
  IN IF a.block = NIL
     THEN UNCHANGED heapVars
     ELSE /\ Places(a.heap, b) # {}
          /\ Becomes(Release(a.heap, b))
          /\ used' = (used \ {b}) \cup {a.block}

(* HeapInit(): one free block.                                             *)
HeapInit ==
  /\ freep = 0
  /\ hdr = [u \in Address |-> [ptr |-> 0, size |-> IF u = 0 THEN UNITS ELSE 0]]
  /\ used = {}

HeapNext ==
  \/ \E n \in Requests : Malloc(n)
  \/ \E b \in used : Free(b)
  \/ \E b \in used, n \in Requests : Realloc(b, n)

HeapSpec == HeapInit /\ [][HeapNext]_heapVars

-----------------------------------------------------------------------------
UnitsOf(b) == b..(b + hdr[b].size - 1)

(* Every unit of the heap is in exactly one block, handed out or free, so   *)
(* that no memory belongs to two owners and none is lost.                  *)
BlocksPartitionTheHeap ==
  /\ used \cap FreeBlocks(Heap) = {}
  /\ \A u \in Address :
       Cardinality({b \in used \cup FreeBlocks(Heap) : u \in UnitsOf(b)}) = 1

(* Two free blocks never touch: a heap that is given back entirely is one  *)
(* block again.                                                            *)
FreeBlocksAreJoined ==
  \A p, q \in FreeBlocks(Heap) : p + hdr[p].size # q

(* Type invariant, and what the next call relies on after any sequence of  *)
(* malloc(), realloc() and free(): the blocks partition the heap, the free *)
(* ones are joined, and the search of free() finds the place of any block  *)
(* in use, so that it ends.                                                *)
HeapIsSound ==
  /\ freep \in Address
  /\ hdr \in [Address -> [ptr : Address, size : 0..UNITS]]
  /\ used \subseteq Address
  /\ BlocksPartitionTheHeap
  /\ FreeBlocksAreJoined
  /\ \A b \in used : Places(Heap, b) # {}
=============================================================================
