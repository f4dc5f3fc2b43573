-------------------------------- MODULE Heap --------------------------------
(***************************************************************************)
(* The kernel heap (mem/heap/heap.c), a doubly linked list of blocks that  *)
(* malloc splits and free merges, and klime's count of the bytes in use    *)
(* (mem/klime/klime.c), which every kernel object is allocated through.    *)
(*                                                                         *)
(* A block is named by the address of its header.  blocks holds the        *)
(* headers on the list; headers swallowed by a merge stay in memory but    *)
(* nothing reaches them any more.                                          *)
(***************************************************************************)
EXTENDS Integers, FiniteSets, FiniteSetsExt

CONSTANTS
  HeapSize,   (* klime->total_heap                                         *)
  Hdr,        (* sizeof(heap_block_t)                                      *)
  Align,      (* request sizes are rounded up to it                        *)
  MinSplit,   (* smallest payload worth a block of its own                 *)
  U64,        (* the values of klime's counters: 2^64 in the code          *)
  Sizes,      (* sizes callers ask for                                     *)
  MaxUsed     (* bound: nothing is allocated once the count is above it    *)

(* What is taken for granted of the constants.                             *)
HeapAssumption ==
  /\ HeapSize \in Nat \ {0}
  /\ Hdr \in Nat \ {0}
  /\ Align \in Nat \ {0}
  /\ MinSplit \in Nat
  /\ U64 \in Nat /\ U64 > HeapSize
  /\ Sizes \subseteq Nat
  /\ MaxUsed \in Nat

VARIABLES
  blocks,     (* header address -> [size, used, next, prev]                *)
  used_heap,  (* klime->used_heap                                          *)
  payloads    (* what callers hold: <<payload address, size asked for>>    *)

heapVars == <<blocks, used_heap, payloads>>

NULL == 0
Start == 1
HeapEnd == Start + Hdr + HeapSize

klime_init ==
  /\ blocks = [a \in {Start} |-> [size |-> HeapSize, used |-> FALSE, next |-> NULL, prev |-> NULL]]
  /\ used_heap = 0
  /\ payloads = {}

-----------------------------------------------------------------------------
(* Seeded faults.                                                          *)
FaultAbsorbNext(b, a) ==       (* the neighbour's prev still names the swallowed block *)
  LET n == b[a].next
  IN  [x \in DOMAIN b \ {n} |->
         IF x = a THEN [b[a] EXCEPT !.size = @ + Hdr + b[n].size, !.next = b[n].next] ELSE b[x]]
FaultBackTurn(s) == s          (* merging forward only *)
FaultWorthSplitting(size, n) == size >= n + MinSplit       (* the header is forgotten *)
FaultBestFit(n) ==             (* the payload is compared with the header counted in *)
  LET fits == {a \in DOMAIN blocks : ~ blocks[a].used /\ blocks[a].size + Hdr >= n}
  IN  IF fits = {} THEN NULL ELSE Max(fits)
FaultFreeCharge(size, merged) == size + Hdr                (* a header per free, merged or not *)

RoundUp(n) == ((n + Align - 1) \div Align) * Align

(* Block a swallows the block after it.                                    *)
AbsorbNext(b, a) ==
  LET n == b[a].next
  IN  [x \in DOMAIN b \ {n} |->
         IF x = a THEN [b[a] EXCEPT !.size = @ + Hdr + b[n].size, !.next = b[n].next]
         ELSE IF x = b[n].next THEN [b[x] EXCEPT !.prev = a]
         ELSE b[x]]

(* One turn of the two merge loops on s, the list and the block it is at:  *)
(* the block swallows a free one after it, or is swallowed by a free one   *)
(* before it.                                                              *)
ForwardTurn(s) ==
  LET n == s.list[s.at].next
  IN  IF n # NULL /\ ~ s.list[n].used THEN [s EXCEPT !.list = AbsorbNext(s.list, s.at)] ELSE s
BackTurn(s) ==
  LET p == s.list[s.at].prev
  IN  IF p # NULL /\ ~ s.list[p].used THEN [list |-> AbsorbNext(s.list, p), at |-> p] ELSE s

(* A loop to its end: every turn that does something removes a block.      *)
MergeLoop(s, back) ==
  LET turns[k \in Nat] ==
        IF k = 0 THEN s ELSE IF back THEN BackTurn(turns[k - 1]) ELSE ForwardTurn(turns[k - 1])
  IN  turns[Cardinality(DOMAIN s.list)]

heap_merge_free_blocks(b, a) ==
  LET forward == MergeLoop([list |-> b, at |-> a], FALSE)
  IN  MergeLoop(forward, TRUE).list

(* The smallest free block that is large enough, the first of its size.    *)
(* (The list is walked in address order: invariant ListTilesHeap.)         *)
BestFit(n) ==
  LET fits == {a \in DOMAIN blocks : ~ blocks[a].used /\ blocks[a].size >= n}
      best == {a \in fits : \A c \in fits : blocks[a].size <= blocks[c].size}
  IN  IF fits = {} THEN NULL ELSE Min(best)

WorthSplitting(size, n) == size >= n + Hdr + MinSplit

(* The list after block a gave its first n bytes to a caller.              *)
Carve(a, n) ==
  LET blk == blocks[a]
      new == a + Hdr + n
  IN  IF WorthSplitting(blk.size, n)
      THEN [x \in DOMAIN blocks \cup {new} |->
              IF x = new THEN [size |-> blk.size - n - Hdr, used |-> FALSE,
                               next |-> blk.next, prev |-> a]
              ELSE IF x = a THEN [blk EXCEPT !.size = n, !.next = new, !.used = TRUE]
              ELSE IF x = blk.next THEN [blocks[x] EXCEPT !.prev = new]
              ELSE blocks[x]]
      ELSE [blocks EXCEPT ![a].used = TRUE]

(* klime_create and klime_alloc: malloc, then the block's size and a       *)
(* header are charged, whether or not a header was made.                   *)
klime_create(size) ==
  LET n == RoundUp(size)
      a == BestFit(n)
  IN  /\ size > 0
      /\ used_heap <= MaxUsed
      /\ a # NULL
      /\ blocks' = Carve(a, n)
      /\ used_heap' = used_heap + blocks'[a].size + Hdr
      /\ payloads' = payloads \cup {<<a + Hdr, size>>}

(* What klime_free takes off the count.                                    *)
FreeCharge(size, merged) == size + Hdr * merged

(* klime_free of a pointer its caller holds.                               *)
klime_free(h) ==
  LET a == h[1] - Hdr
      freed == [blocks EXCEPT ![a].used = FALSE]
  IN  /\ blocks' = heap_merge_free_blocks(freed, a)
      /\ used_heap' = used_heap -
           FreeCharge(blocks[a].size, Cardinality(DOMAIN blocks) - Cardinality(DOMAIN blocks'))
      /\ payloads' = payloads \ {h}

(* The difference of two unsigned counters.                                *)
klime_get_free_size == (HeapSize - used_heap) % U64

HeapInit == klime_init
HeapNext == (\E size \in Sizes : klime_create(size)) \/ (\E h \in payloads : klime_free(h))
HeapSpec == HeapInit /\ [][HeapNext]_heapVars

-----------------------------------------------------------------------------
(* The list is the heap cut into blocks without gap or overlap, linked in  *)
(* both directions, through any sequence of splits and merges              *)
(* (heap.c:36-70, 97-110).                                                 *)
ListTilesHeap ==
  /\ Start \in DOMAIN blocks /\ blocks[Start].prev = NULL
  /\ \A a \in DOMAIN blocks :
       LET b == blocks[a]
       IN  /\ b.size >= 0
           /\ IF b.next = NULL THEN a + Hdr + b.size = HeapEnd
              ELSE /\ b.next = a + Hdr + b.size
                   /\ b.next \in DOMAIN blocks
                   /\ blocks[b.next].prev = a

(* Freeing leaves no two free blocks side by side, so memory given back    *)
(* can be handed out in one piece again (heap.c:31-73).                    *)
FreeBlocksMerged ==
  \A a \in DOMAIN blocks :
    ~ blocks[a].used /\ blocks[a].next # NULL => blocks[blocks[a].next].used

(* The used blocks are exactly the callers', each large enough for what    *)
(* its caller asked for.                                                   *)
HeldBlocksUsed ==
  /\ \A h \in payloads : /\ h[1] - Hdr \in DOMAIN blocks
                     /\ blocks[h[1] - Hdr].used
                     /\ blocks[h[1] - Hdr].size >= h[2]
  /\ \A a \in DOMAIN blocks : blocks[a].used => \E h \in payloads : h[1] = a + Hdr
  /\ \A h, k \in payloads : h[1] = k[1] => h = k

(* klime's count of the bytes in use is never below what is really in use, *)
(* headers counted, so it stays above zero; and as long as it has not      *)
(* passed the whole heap, klime promises no more free memory than the free *)
(* blocks have.  It may promise less: an allocation that takes a whole     *)
(* block is charged a header nobody gives back (klime.c:61-70, 85-92), and *)
(* once the count has drifted past the whole the difference wraps around.  *)
FreeBytes(b) == UNION {a + Hdr .. a + Hdr + b[a].size - 1 : a \in {x \in DOMAIN b : ~ b[x].used}}
CountCoversUse ==
  /\ used_heap >= 0
  /\ used_heap + Cardinality(FreeBytes(blocks)) >= HeapSize
  /\ used_heap <= HeapSize => klime_get_free_size <= Cardinality(FreeBytes(blocks))

(* The heap is in order: list, neighbours, callers' blocks and count.       *)
HeapConsistent == ListTilesHeap /\ FreeBlocksMerged /\ HeldBlocksUsed /\ CountCoversUse

=============================================================================
