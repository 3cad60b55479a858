-------------------------------- MODULE Heap --------------------------------
(***************************************************************************)
(* The heap from which the network stack takes its buffers:                *)
(* Utilities/lwip-1.3.1/src/core/mem.c as this repository builds it, with  *)
(* MEM_USE_POOLS 0 and a mem_size_t of 16 bits (MEM_SIZE is 20 Kbyte).     *)
(* The semaphore around each operation is empty because NO_SYS is 1, so    *)
(* nothing but the callers keeps two operations apart: the Ethernet        *)
(* interrupt (LwIP_Pkt_Handle) and the SysTick interrupt, which may        *)
(* interrupt it (LwIP_Periodic_Handle), both allocate and free.  Of the    *)
(* places where that may happen the model has one: a call of mem_malloc is *)
(* interrupted between the block it finds and its taking that block.  The  *)
(* other operations are one step each.                                     *)
(*                                                                         *)
(* The heap is one list of struct mem in the order of their addresses,     *)
(* each followed by its data.  A struct is here a point of the function    *)
(* heap; a struct that was merged into its neighbour is not read again     *)
(* (Chain) and leaves the domain.                                          *)
(***************************************************************************)
EXTENDS Integers, Sequences

CONSTANTS MemSize,   \* MEM_SIZE_ALIGNED
          Struct,    \* SIZEOF_STRUCT_MEM
          MinSize,   \* MIN_SIZE_ALIGNED
          Align,     \* MEM_ALIGNMENT
          W,         \* 2^16: mem_size_t is u16_t
          Sizes,     \* the sizes the callers ask for
          Levels     \* interrupt levels that use the heap

ASSUME HeapAssumption ==
  /\ {MemSize, Struct, MinSize, Align, W, Levels} \subseteq Nat \ {0}
  /\ MemSize % Align = 0 /\ Struct % Align = 0 /\ MinSize % Align = 0
  /\ Struct + MinSize <= MemSize /\ MemSize < W
  /\ Sizes \subseteq 1 .. W - Align

VARIABLES heap,    \* offset -> struct mem
          lfree,   \* offset of the lowest free struct, or of ram_end
          alloc,   \* offset -> the size its owner asked for
          calls,   \* calls of mem_malloc that have found a block and not taken
                   \* it; a call interrupts the one before it
          raced    \* history: a call has taken a block that it had lost

vars == <<heap, lfree, alloc, calls, raced>>

Least(S) == CHOOSE x \in S : \A y \in S : x <= y
Without(f, p) == [q \in DOMAIN f \ {p} |-> f[q]]
With(f, p, v) == [q \in DOMAIN f \cup {p} |-> IF q = p THEN v ELSE f[q]]

(* mem_init                                                                *)
Init ==
  /\ heap = [p \in {0, MemSize} |->
               IF p = 0 THEN [next |-> MemSize, prev |-> 0, used |-> FALSE]
               ELSE [next |-> MemSize, prev |-> MemSize, used |-> TRUE]]
  /\ lfree = 0
  /\ alloc = [p \in {} |-> 0]
  /\ calls = <<>>
  /\ raced = FALSE

(* Bug form: a size is rounded down to the alignment.                      *)
DataSizeDown(n) ==
  LET aligned == ((n \div Align) * Align) % W IN
  IF aligned < MinSize THEN MinSize ELSE aligned

(* LWIP_MEM_ALIGN_SIZE, assigned to a mem_size_t, and the least size.      *)
DataSize(n) ==
  LET aligned == (((n + Align - 1) \div Align) * Align) % W IN
  IF aligned < MinSize THEN MinSize ELSE aligned

(* User data of the block at p.                                            *)
Room(p) == heap[p].next - (p + Struct)

(* A heap in which the struct at next points back to p; the end of the     *)
(* heap is left alone.                                                     *)
LinkedBack(h, next, p) ==
  IF next = MemSize THEN h ELSE [h EXCEPT ![next].prev = p]

-----------------------------------------------------------------------------
(* The blocks at which the search of mem_malloc stops; it starts at lfree  *)
(* and follows next, which is the order of the addresses.                  *)
Blocks(size) ==
  {p \in DOMAIN heap : /\ lfree <= p /\ p < MemSize - size
                       /\ ~heap[p].used /\ Room(p) >= size}

(* mem_malloc, up to the block it finds.  It returns NULL, and nothing     *)
(* changes, when there is none.                                            *)
mem_malloc(n) ==
  LET size == DataSize(n) IN
  /\ Len(calls) < Levels
  /\ size <= MemSize
  /\ Blocks(size) # {}
  /\ calls' = Append(calls, [at |-> Least(Blocks(size)), size |-> size, asked |-> n])
  /\ UNCHANGED <<heap, lfree, alloc, raced>>

(* The rest of the block can be a block of its own.                        *)
Splits(p, size) == Room(p) >= size + Struct + MinSize

(* Bug form: the struct behind the remainder still points to the block.    *)
SplitNoLink(p, size) ==
  LET ptr2 == p + Struct + size IN
  With([heap EXCEPT ![p].next = ptr2, ![p].used = TRUE],
       ptr2, [next |-> heap[p].next, prev |-> p, used |-> FALSE])

(* The block at p is taken and its remainder is a free block.              *)
Split(p, size) ==
  LET ptr2 == p + Struct + size
      taken == [heap EXCEPT ![p].next = ptr2, ![p].used = TRUE]
  IN LinkedBack(With(taken, ptr2, [next |-> heap[p].next, prev |-> p, used |-> FALSE]),
                heap[p].next, ptr2)

(* The lowest free struct of h at or above from, or the end.               *)
NextFree(h, from) == Least({q \in DOMAIN h : q >= from /\ (~h[q].used \/ q = MemSize)})

(* Bug form: a block that is taken whole stays free.                       *)
TakenWholeFree(p, size) == IF Splits(p, size) THEN Split(p, size) ELSE heap

(* The heap once the block at p is taken.                                  *)
Taken(p, size) ==
  IF Splits(p, size) THEN Split(p, size) ELSE [heap EXCEPT ![p].used = TRUE]

(* The block that a call has found is still a free block with room for it. *)
Takeable(call) ==
  /\ call.at \in DOMAIN heap \ {MemSize}
  /\ ~heap[call.at].used
  /\ Room(call.at) >= call.size

(* mem_malloc takes the block it has found.                                *)
MallocTakes ==
  LET call == calls[Len(calls)]
      h == Taken(call.at, call.size)
  IN
  /\ calls # <<>>
  /\ Takeable(call)
  /\ heap' = h
  /\ lfree' = IF call.at = lfree THEN NextFree(h, lfree) ELSE lfree
  /\ alloc' = With(alloc, call.at, call.asked)
  /\ calls' = SubSeq(calls, 1, Len(calls) - 1)
  /\ UNCHANGED raced

(* mem_malloc does not look again: a block that an operation which         *)
(* interrupted it has taken, merged or moved is taken all the same.  What  *)
(* that makes of the heap is not followed any further.                     *)
MallocRaces ==
  /\ calls # <<>>
  /\ ~Takeable(calls[Len(calls)])
  /\ raced' = TRUE
  /\ calls' = SubSeq(calls, 1, Len(calls) - 1)
  /\ UNCHANGED <<heap, lfree, alloc>>

-----------------------------------------------------------------------------
(* plug_holes works on m, the heap with its lfree.  Forward: the free      *)
(* block p takes in a free block behind it ...                             *)
PlugForward(m, p) ==
  LET n == m.heap[p].next
      after == m.heap[n].next
  IN
  IF n # p /\ ~m.heap[n].used /\ n # MemSize
  THEN [heap |-> Without([m.heap EXCEPT ![p].next = after, ![after].prev = p], n),
        lfree |-> IF m.lfree = n THEN p ELSE m.lfree]
  ELSE m

(* Bug form: a free block in front is left alone.                          *)
PlugNot(m, p) == m

(* ... backward: the free block in front of p takes it in.                 *)
PlugBackward(m, p) ==
  LET b == m.heap[p].prev
      after == m.heap[p].next
  IN
  IF b # p /\ ~m.heap[b].used
  THEN [heap |-> Without([m.heap EXCEPT ![b].next = after, ![after].prev = b], p),
        lfree |-> IF m.lfree = p THEN b ELSE m.lfree]
  ELSE m

plug_holes(m, p) == PlugBackward(PlugForward(m, p), p)

(* Bug form: the lowest free block is not lowered.                         *)
LowestWithStays(p) == lfree

(* The lowest free block once p is free.                                   *)
LowestWith(p) == IF p < lfree THEN p ELSE lfree

(* p is a block its owner gives back.                                      *)
mem_free(p) ==
  LET m == plug_holes([heap |-> [heap EXCEPT ![p].used = FALSE], lfree |-> LowestWith(p)], p)
  IN
  /\ Len(calls) < Levels
  /\ heap' = m.heap
  /\ lfree' = m.lfree
  /\ alloc' = Without(alloc, p)
  /\ UNCHANGED <<calls, raced>>

(* mem_realloc, which only shrinks: into a free block behind ...           *)
ShrinkIntoFree(p, size) ==
  LET old == heap[p].next
      ptr2 == p + Struct + size
      moved == With(Without([heap EXCEPT ![p].next = ptr2], old), ptr2,
                    [next |-> heap[old].next, prev |-> p, used |-> FALSE])
  IN
  /\ ~heap[old].used
  /\ heap' = LinkedBack(moved, heap[old].next, ptr2)
  /\ lfree' = IF lfree = old THEN ptr2 ELSE lfree

(* ... or, in front of a used one, by a free block of its own ...          *)
ShrinkOff(p, size) ==
  LET old == heap[p].next
      ptr2 == p + Struct + size
  IN
  /\ heap[old].used
  /\ size + Struct + MinSize <= Room(p)
  /\ heap' = LinkedBack(With([heap EXCEPT ![p].next = ptr2], ptr2,
                             [next |-> old, prev |-> p, used |-> FALSE]),
                        old, ptr2)
  /\ lfree' = LowestWith(ptr2)

(* ... or not at all.                                                      *)
ShrinkNot(p, size) ==
  /\ heap[heap[p].next].used
  /\ size + Struct + MinSize > Room(p)
  /\ UNCHANGED <<heap, lfree>>

mem_realloc(p, n) ==
  LET size == DataSize(n) IN
  /\ Len(calls) < Levels
  /\ n <= alloc[p]
  /\ size < Room(p)
  /\ ShrinkIntoFree(p, size) \/ ShrinkOff(p, size) \/ ShrinkNot(p, size)
  /\ alloc' = [alloc EXCEPT ![p] = n]
  /\ UNCHANGED <<calls, raced>>

Next ==
  \/ \E n \in Sizes : mem_malloc(n)
  \/ MallocTakes
  \/ MallocRaces
  \/ \E p \in DOMAIN alloc : mem_free(p)
  \/ \E p \in DOMAIN alloc, n \in Sizes : mem_realloc(p, n)

Spec == Init /\ [][Next]_vars

-----------------------------------------------------------------------------
(* The list is whole: its structs follow each other in the order of their  *)
(* addresses from the start of the heap to its end, next and prev agree    *)
(* (but for the prev of ram_end, which nothing reads), and each has room   *)
(* for data.                                                               *)
Chain ==
  /\ {0, MemSize} \subseteq DOMAIN heap
  /\ heap[MemSize].used
  /\ heap[0].prev = 0
  /\ \A p \in DOMAIN heap \ {MemSize} :
       LET n == heap[p].next IN
       /\ n \in DOMAIN heap /\ p + Struct + MinSize <= n
       /\ \A q \in DOMAIN heap : q <= p \/ n <= q
       /\ n # MemSize => heap[n].prev = p

(* plug_holes: "After this function is through, there should not exist one *)
(* empty struct mem pointing to another empty struct mem".                 *)
NoHoles ==
  \A p \in DOMAIN heap \ {MemSize} : ~heap[p].used => heap[heap[p].next].used

(* The list of blocks is well formed after every operation, whatever       *)
(* interrupts mem_malloc, until a call takes a block that it had lost.     *)
WellFormed == raced \/ (Chain /\ NoHoles)

(* The used blocks are the ones handed out, none is leaked, and each holds *)
(* what its owner asked for, until a call takes a block that it had lost.  *)
EnoughRoom ==
  \/ raced
  \/ /\ {p \in DOMAIN heap \ {MemSize} : heap[p].used} = DOMAIN alloc
     /\ \A p \in DOMAIN alloc : alloc[p] <= Room(p)

(* "NULL if no free memory was found": the search, which begins at lfree   *)
(* and stops before the end, does not miss a block that is big enough.     *)
NoFalseNull ==
  \/ raced
  \/ \A p \in DOMAIN heap, n \in Sizes :
       ~heap[p].used /\ Room(p) >= DataSize(n) => Blocks(DataSize(n)) # {}

(* The operations that take the block c has found away from it: one that   *)
(* takes the block, and one that frees or shrinks the block in front.      *)
Touches(c) ==
  \/ MallocTakes /\ calls[Len(calls)].at = c.at
  \/ \E p \in DOMAIN alloc : heap[p].next = c.at /\ (mem_free(p) \/ \E n \in Sizes : mem_realloc(p, n))

(* What mem_malloc takes belongs to no other owner, in no part.            *)
TakenApart ==
  MallocTakes =>
    LET call == calls[Len(calls)]
        end(p, n) == p + Struct + DataSize(n)
    IN \A p \in DOMAIN alloc : end(p, alloc[p]) <= call.at \/ end(call.at, call.asked) <= p

(* The block a call has found can still be taken unless it is touched.     *)
FoundIsKept ==
  \A i \in DOMAIN calls \cap DOMAIN calls' :
    Takeable(calls[i]) => Takeable(calls[i])' \/ Touches(calls[i])

(* A block is handed out to one owner at a time, and no part of it belongs *)
(* to another.  Nothing in mem.c sees to it when calls interrupt each      *)
(* other ("protect the heap from concurrent access" is empty): it holds of *)
(* a call that no interruption has cost its block, and a call loses its    *)
(* block only to an operation that touches it.                             *)
HandedOutOnce == [][raced \/ (TakenApart /\ FoundIsKept)]_vars

(* No call takes a block that it has lost.  This does not hold with two    *)
(* levels of interrupts (HeapRace.cfg); the heap is followed as long as it *)
(* does.                                                                   *)
NoRace == ~raced
=============================================================================
