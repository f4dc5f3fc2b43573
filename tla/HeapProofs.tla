----------------------------- MODULE HeapProofs -----------------------------
(***************************************************************************)
(* The kernel heap, for every heap size, header size, alignment, smallest  *)
(* split and set of request sizes: malloc and free keep a list of blocks   *)
(* that tiles the heap, without free neighbours, whose used blocks are     *)
(* those the callers hold, and klime's count covers what is not free.      *)
(*                                                                         *)
(* What a step does to the list is stated of lists b, not of the variable  *)
(* blocks: free passes through the list with the block marked free, the    *)
(* list after the forward loop and the list after the backward loop.       *)
(***************************************************************************)
EXTENDS Heap, SetLemmas

Block == [size : Nat, used : BOOLEAN, next : Nat, prev : Nat]

End(b, a) == a + Hdr + b[a].size

(* A list of blocks, linked both ways in address order, that tiles the heap. *)
Typed(b) ==
  /\ DOMAIN b \in SUBSET (Nat \ {NULL}) /\ IsFiniteSet(DOMAIN b)
  /\ b \in [DOMAIN b -> Block]
Linked(b) ==
  /\ Start \in DOMAIN b /\ b[Start].prev = NULL
  /\ \A a \in DOMAIN b :
       /\ b[a].next = NULL => End(b, a) = HeapEnd
       /\ b[a].next # NULL => /\ b[a].next = End(b, a) /\ b[a].next \in DOMAIN b
                              /\ b[b[a].next].prev = a
       /\ b[a].prev # NULL => b[a].prev \in DOMAIN b /\ b[b[a].prev].next = a
InOrder(b) ==
  /\ \A a \in DOMAIN b : End(b, a) <= HeapEnd
  /\ \A a, c \in DOMAIN b : a < c => End(b, a) <= c
Tiled(b) == Typed(b) /\ Linked(b) /\ InOrder(b)

(* No two free neighbours; the same but for block a and the block before it. *)
Merged(b) ==
  \A x \in DOMAIN b : ~ b[x].used /\ b[x].next # NULL => b[b[x].next].used
MergedBut(b, a) ==
  \A x \in DOMAIN b : ~ b[x].used /\ b[x].next # NULL /\ x # a /\ b[x].next # a => b[b[x].next].used

(* The used blocks of b are the callers'.                                  *)
Holding(b, hs) ==
  /\ \A h \in hs : h[1] - Hdr \in DOMAIN b /\ b[h[1] - Hdr].used /\ b[h[1] - Hdr].size >= h[2]
  /\ \A a \in DOMAIN b : b[a].used => \E h \in hs : h[1] = a + Hdr
  /\ \A h, k \in hs : h[1] = k[1] => h = k

HeapInv ==
  /\ Tiled(blocks) /\ Merged(blocks)
  /\ payloads \subseteq Nat \X Nat /\ Holding(blocks, payloads)
  /\ used_heap \in Int /\ HeapSize - used_heap <= Cardinality(FreeBytes(blocks))

-----------------------------------------------------------------------------
(* A block is not empty and lies inside the heap.                          *)
LEMMA BlockFacts ==
  ASSUME HeapAssumption, NEW b, Typed(b), NEW a \in DOMAIN b
  PROVE  /\ a \in Nat /\ a # 0 /\ b[a] \in Block /\ b[a].size \in Nat /\ b[a].used \in BOOLEAN
         /\ b[a].next \in Nat /\ b[a].prev \in Nat /\ End(b, a) \in Nat /\ a < End(b, a)
         /\ End(b, a) = a + Hdr + b[a].size
<1>1. a \in Nat /\ a # 0 /\ b[a] \in Block
  BY DEF Typed, NULL
<1>2. b[a].size \in Nat /\ b[a].used \in BOOLEAN /\ b[a].next \in Nat /\ b[a].prev \in Nat
  BY <1>1 DEF Block
<1>3. Hdr \in Nat /\ Hdr # 0
  BY DEF HeapAssumption
<1> QED BY <1>1, <1>2, <1>3 DEF End

(* The block after a block.                                                *)
LEMMA NextFacts ==
  ASSUME HeapAssumption, NEW b, Tiled(b), NEW a \in DOMAIN b, b[a].next # NULL
  PROVE  /\ b[a].next = End(b, a) /\ b[a].next \in DOMAIN b /\ b[b[a].next].prev = a
         /\ a < b[a].next /\ b[a].next # Start
<1>1. b[a].next = End(b, a) /\ b[a].next \in DOMAIN b /\ b[b[a].next].prev = a
  BY DEF Tiled, Linked
<1>2. a < b[a].next /\ a # NULL
  BY <1>1, BlockFacts DEF NULL, Tiled
<1>3. b[Start].prev = NULL
  BY DEF Tiled, Linked
<1> QED BY <1>1, <1>2, <1>3

(* The block before a block.                                               *)
LEMMA PrevFacts ==
  ASSUME HeapAssumption, NEW b, Tiled(b), NEW a \in DOMAIN b, b[a].prev # NULL
  PROVE  /\ b[a].prev \in DOMAIN b /\ b[b[a].prev].next = a /\ b[b[a].prev].next # NULL
         /\ b[a].prev < a
<1>1. b[a].prev \in DOMAIN b /\ b[b[a].prev].next = a
  BY DEF Tiled, Linked
<1>2. a # NULL
  BY BlockFacts DEF NULL, Tiled
<1> QED BY <1>1, <1>2, NextFacts

-----------------------------------------------------------------------------
(* What AbsorbNext does to each block: c is b after block a swallowed n, m  *)
(* being the block after n.                                                *)
AbsorbedOf(b, a, c, n, m) ==
  /\ DOMAIN c = DOMAIN b \ {n}
  /\ a \in DOMAIN c
  /\ c[a].size = b[a].size + Hdr + b[n].size
  /\ c[a].next = m /\ c[a].used = b[a].used /\ c[a].prev = b[a].prev
  /\ c[a] \in Block
  /\ \A x \in DOMAIN c : x # a =>
       /\ c[x] \in Block
       /\ c[x].size = b[x].size /\ c[x].next = b[x].next /\ c[x].used = b[x].used
       /\ c[x].prev = IF x = m THEN a ELSE b[x].prev

(* AbsorbNext has that effect.                                             *)
LEMMA AbsorbBlocks ==
  ASSUME HeapAssumption, NEW b, Tiled(b), NEW a \in DOMAIN b, b[a].next # NULL, NEW c,
         c = AbsorbNext(b, a)
  PROVE  AbsorbedOf(b, a, c, b[a].next, b[b[a].next].next)
<1> DEFINE n == b[a].next
           m == b[n].next
<1>1. n \in DOMAIN b /\ a < n /\ a \in Nat /\ n \in Nat /\ a # n
  BY NextFacts, BlockFacts DEF Tiled
<1>2. b[a] \in Block /\ b[n] \in Block /\ m \in Nat /\ b[a].size \in Nat /\ b[n].size \in Nat /\ Hdr \in Nat
  BY <1>1, BlockFacts DEF Tiled, HeapAssumption
<1>3. c = [x \in DOMAIN b \ {n} |->
             IF x = a THEN [b[a] EXCEPT !.size = @ + Hdr + b[n].size, !.next = b[n].next]
             ELSE IF x = b[n].next THEN [b[x] EXCEPT !.prev = a] ELSE b[x]]
  BY DEF AbsorbNext
<1>4. DOMAIN c = DOMAIN b \ {n} /\ a \in DOMAIN c
  BY <1>1, <1>3
<1>5. c[a] = [b[a] EXCEPT !.size = @ + Hdr + b[n].size, !.next = b[n].next]
  BY <1>3, <1>4
<1>6. c[a].size = b[a].size + Hdr + b[n].size /\ c[a].next = m /\ c[a].used = b[a].used
      /\ c[a].prev = b[a].prev /\ c[a] \in Block
  <2> DEFINE size == b[a].size + Hdr + b[n].size
  <2>1. size \in Nat
    BY <1>2
  <2>2. c[a] = [b[a] EXCEPT !.size = size, !.next = m]
    BY <1>5
  <2> HIDE DEF size, m
  <2>3. c[a].size = size /\ c[a].next = m /\ c[a].used = b[a].used /\ c[a].prev = b[a].prev
    BY <1>2, <2>2 DEF Block
  <2>4. c[a] \in Block
    BY <1>2, <2>1, <2>2 DEF Block
  <2> QED BY <2>3, <2>4 DEF size
<1>7. ASSUME NEW x \in DOMAIN c, x # a
      PROVE  /\ c[x] \in Block
             /\ c[x].size = b[x].size /\ c[x].next = b[x].next /\ c[x].used = b[x].used
             /\ c[x].prev = IF x = m THEN a ELSE b[x].prev
  <2>1. x \in DOMAIN b /\ b[x] \in Block
    BY <1>4, <1>7, BlockFacts DEF Tiled
  <2>2. c[x] = IF x = m THEN [b[x] EXCEPT !.prev = a] ELSE b[x]
    BY <1>3, <1>4, <1>7
  <2> QED BY <1>1, <2>1, <2>2 DEF Block
<1> QED BY <1>4, <1>6, <1>7 DEF AbsorbedOf

(* The list after a block swallowed the next still tiles the heap.         *)
LEMMA AbsorbTiled ==
  ASSUME HeapAssumption, NEW b, Tiled(b), NEW a \in DOMAIN b, b[a].next # NULL, NEW c,
         c = AbsorbNext(b, a)
  PROVE  /\ Tiled(c)
         /\ Cardinality(DOMAIN c) \in Nat /\ Cardinality(DOMAIN b) = Cardinality(DOMAIN c) + 1
<1> DEFINE n == b[a].next
           m == b[n].next
<1>1. /\ n \in DOMAIN b /\ a < n /\ a \in Nat /\ n \in Nat /\ a # n /\ a # NULL /\ n # Start
      /\ n = End(b, a) /\ b[n].prev = a /\ m \in Nat
  BY NextFacts, BlockFacts DEF Tiled, NULL
<1>2. /\ DOMAIN c = DOMAIN b \ {n} /\ a \in DOMAIN c
      /\ c[a].size = b[a].size + Hdr + b[n].size
      /\ c[a].next = m /\ c[a].used = b[a].used /\ c[a].prev = b[a].prev
      /\ c[a] \in Block
  <2>1. AbsorbedOf(b, a, c, n, m)
    BY AbsorbBlocks
  <2> QED BY <2>1 DEF AbsorbedOf
<1>3. \A x \in DOMAIN c : x # a =>
        /\ c[x] \in Block
        /\ c[x].size = b[x].size /\ c[x].next = b[x].next /\ c[x].used = b[x].used
        /\ c[x].prev = IF x = m THEN a ELSE b[x].prev
  <2>1. AbsorbedOf(b, a, c, n, m)
    BY AbsorbBlocks
  <2> HIDE DEF n, m
  <2> QED BY <2>1 DEF AbsorbedOf
<1>c. c = [x \in DOMAIN c |-> c[x]]
  BY DEF AbsorbNext
<1>4. Typed(c)
  <2>1. IsFiniteSet(DOMAIN c) /\ DOMAIN c \in SUBSET (Nat \ {NULL})
    BY <1>2, FS_RemoveElement DEF Tiled, Typed
  <2>2. \A x \in DOMAIN c : c[x] \in Block
    BY <1>2, <1>3
  <2>3. c \in [DOMAIN c -> Block]
    BY <1>c, <2>2
  <2> QED BY <2>1, <2>3 DEF Typed
<1>5. m # NULL => m \in DOMAIN c /\ m # a /\ m # n /\ b[m].prev = n /\ m = End(b, n) /\ m # Start
  <2> SUFFICES ASSUME m # NULL
               PROVE  m \in DOMAIN c /\ m # a /\ m # n /\ b[m].prev = n /\ m = End(b, n) /\ m # Start
    OBVIOUS
  <2>1. m \in DOMAIN b /\ b[m].prev = n /\ m = End(b, n) /\ n < m /\ m # Start
    BY <1>1, NextFacts
  <2>2. m # n /\ m # a
    BY <1>1, <2>1
  <2> QED BY <1>2, <2>1, <2>2
<1>6. End(c, a) = End(b, n) /\ \A x \in DOMAIN c : x # a => End(c, x) = End(b, x)
  <2>1. b[a].size \in Nat /\ b[n].size \in Nat /\ Hdr \in Nat
    BY <1>1, BlockFacts DEF Tiled, HeapAssumption
  <2>2. End(c, a) = a + Hdr + (b[a].size + Hdr + b[n].size) /\ End(b, n) = n + Hdr + b[n].size
        /\ n = a + Hdr + b[a].size
    BY <1>1, <1>2 DEF End
  <2>3. End(c, a) = End(b, n)
    BY <1>1, <2>1, <2>2
  <2>4. \A x \in DOMAIN c : x # a => End(c, x) = End(b, x)
    BY <1>3 DEF End
  <2> QED BY <2>3, <2>4
<1>7. Start \in DOMAIN c /\ c[Start].prev = NULL
  <2>1. Start \in DOMAIN b /\ b[Start].prev = NULL /\ n # Start
    BY <1>1 DEF Tiled, Linked
  <2>2. Start \in DOMAIN c
    BY <1>2, <2>1
  <2>3. Start # m
    <3>1. CASE m = NULL
      BY <3>1 DEF NULL, Start
    <3>2. CASE m # NULL
      BY <1>5, <3>2
    <3> QED BY <3>1, <3>2
  <2> QED BY <1>2, <1>3, <2>1, <2>2, <2>3
<1>8. ASSUME NEW x \in DOMAIN c
      PROVE  /\ c[x].next = NULL => End(c, x) = HeapEnd
             /\ c[x].next # NULL => /\ c[x].next = End(c, x) /\ c[x].next \in DOMAIN c
                                    /\ c[c[x].next].prev = x
             /\ c[x].prev # NULL => c[x].prev \in DOMAIN c /\ c[c[x].prev].next = x
  <2>1. x \in DOMAIN b /\ x # n
    BY <1>2
  <2>2. CASE x = a
    <3>1. c[x].next = NULL => End(c, x) = HeapEnd
      BY <1>1, <1>2, <1>6, <2>2 DEF Tiled, Linked
    <3>2. c[x].next # NULL => /\ c[x].next = End(c, x) /\ c[x].next \in DOMAIN c
                              /\ c[c[x].next].prev = x
      BY <1>2, <1>3, <1>5, <1>6, <2>2
    <3>3. ASSUME c[x].prev # NULL PROVE c[x].prev \in DOMAIN c /\ c[c[x].prev].next = x
      <4>1. b[a].prev \in DOMAIN b /\ b[b[a].prev].next = a /\ b[a].prev < a /\ b[a].prev = c[x].prev
        BY <1>2, <2>2, <3>3, PrevFacts
      <4>2. b[a].prev \in Nat
        BY BlockFacts DEF Tiled
      <4>3. b[a].prev # a /\ b[a].prev # n
        BY <1>1, <4>1, <4>2
      <4> QED BY <1>2, <1>3, <2>2, <4>1, <4>3
    <3> QED BY <3>1, <3>2, <3>3
  <2>3. CASE x # a
    <3>0. c[x].next = b[x].next /\ End(c, x) = End(b, x) /\ c[x].prev = IF x = m THEN a ELSE b[x].prev
      BY <1>3, <1>6, <2>3
    <3>1. c[x].next = NULL => End(c, x) = HeapEnd
      BY <2>1, <3>0 DEF Tiled, Linked
    <3>2. ASSUME c[x].next # NULL
          PROVE  c[x].next = End(c, x) /\ c[x].next \in DOMAIN c /\ c[c[x].next].prev = x
      <4> DEFINE y == b[x].next
      <4>1. y = c[x].next /\ y = End(b, x) /\ y \in DOMAIN b /\ b[y].prev = x
        BY <2>1, <3>0, <3>2, NextFacts
      <4>2. y # n
        BY <1>1, <2>3, <4>1
      <4>3. y # m
        BY <1>5, <2>1, <3>2, <4>1
      <4>4. y \in DOMAIN c
        BY <1>2, <4>1, <4>2
      <4> HIDE DEF y, m, n
      <4>5. c[y].prev = b[y].prev
        BY <1>2, <1>3, <4>3, <4>4
      <4> QED BY <3>0, <4>1, <4>4, <4>5
    <3>3. ASSUME c[x].prev # NULL PROVE c[x].prev \in DOMAIN c /\ c[c[x].prev].next = x
      <4>1. CASE x = m
        BY <1>2, <3>0, <4>1
      <4>2. CASE x # m
        <5> DEFINE q == b[x].prev
        <5>1. q = c[x].prev /\ q \in DOMAIN b /\ b[q].next = x
          BY <2>1, <3>0, <3>3, <4>2, PrevFacts
        <5>2. q # n /\ q # a
          BY <2>1, <4>2, <5>1
        <5> HIDE DEF q
        <5> QED BY <1>2, <1>3, <5>1, <5>2
      <4> QED BY <4>1, <4>2
    <3> QED BY <3>1, <3>2, <3>3
  <2> QED BY <2>2, <2>3
<1>9. Linked(c)
  BY <1>7, <1>8 DEF Linked
<1>10. InOrder(c)
  <2>1. \A x \in DOMAIN c : End(c, x) <= HeapEnd
    BY <1>1, <1>2, <1>6 DEF Tiled, InOrder
  <2>2. ASSUME NEW x \in DOMAIN c, NEW y \in DOMAIN c, x < y PROVE End(c, x) <= y
    <3>1. x \in DOMAIN b /\ y \in DOMAIN b /\ y # n /\ y \in Nat
      BY <1>2, BlockFacts DEF Tiled
    <3>2. CASE x = a
      <4>1. n <= y
        BY <1>1, <2>2, <3>1, <3>2 DEF Tiled, InOrder
      <4>2. n < y
        BY <1>1, <3>1, <4>1
      <4> QED BY <1>1, <1>6, <3>1, <3>2, <4>2 DEF Tiled, InOrder
    <3>3. CASE x # a
      BY <1>6, <2>2, <3>1, <3>3 DEF Tiled, InOrder
    <3> QED BY <3>2, <3>3
  <2> QED BY <2>1, <2>2 DEF InOrder
<1>11. Cardinality(DOMAIN c) \in Nat /\ Cardinality(DOMAIN b) = Cardinality(DOMAIN c) + 1
  <2>1. IsFiniteSet(DOMAIN b) /\ Cardinality(DOMAIN b) \in Nat
    BY FS_CardinalityType DEF Tiled, Typed
  <2>2. Cardinality(DOMAIN c) = Cardinality(DOMAIN b) - 1 /\ IsFiniteSet(DOMAIN c)
    BY <1>1, <1>2, <2>1, FS_RemoveElement
  <2>3. Cardinality(DOMAIN c) \in Nat
    BY <2>2, FS_CardinalityType
  <2> QED BY <2>1, <2>2, <2>3
<1> QED BY <1>4, <1>9, <1>10, <1>11 DEF Tiled

-----------------------------------------------------------------------------
(* A byte is free when it is in the payload of a free block.               *)
LEMMA InFree ==
  ASSUME NEW b, NEW i
  PROVE  i \in FreeBytes(b) <=>
           \E x \in DOMAIN b : ~ b[x].used /\ i \in x + Hdr .. x + Hdr + b[x].size - 1
<1> DEFINE P(x) == x + Hdr .. x + Hdr + b[x].size - 1
           F == {x \in DOMAIN b : ~ b[x].used}
<1>1. FreeBytes(b) = UNION {P(x) : x \in F}
  BY DEF FreeBytes
<1>2. i \in UNION {P(x) : x \in F} <=> \E x \in F : i \in P(x)
  <2> HIDE DEF P, F
  <2> QED OBVIOUS
<1>3. (\E x \in F : i \in P(x)) <=> \E x \in DOMAIN b : ~ b[x].used /\ i \in P(x)
  <2> HIDE DEF P
  <2> QED OBVIOUS
<1> QED BY <1>1, <1>2, <1>3

(* The bytes of block x.                                                   *)
Payload(b, x) == x + Hdr .. End(b, x) - 1

(* A free byte of a typed list is a number between header and end.         *)
LEMMA FreeByte ==
  ASSUME HeapAssumption, NEW b, Typed(b), NEW i
  PROVE  i \in FreeBytes(b) <=>
           i \in Int /\ \E x \in DOMAIN b : ~ b[x].used /\ x + Hdr <= i /\ i < End(b, x)
<1>1. \A x \in DOMAIN b :
        i \in x + Hdr .. x + Hdr + b[x].size - 1 <=> i \in Int /\ x + Hdr <= i /\ i < End(b, x)
  <2> SUFFICES ASSUME NEW x \in DOMAIN b
               PROVE  i \in x + Hdr .. x + Hdr + b[x].size - 1
                        <=> i \in Int /\ x + Hdr <= i /\ i < End(b, x)
    OBVIOUS
  <2>1. x \in Nat /\ Hdr \in Nat /\ b[x].size \in Nat /\ End(b, x) \in Nat
        /\ End(b, x) = x + Hdr + b[x].size
    BY BlockFacts DEF HeapAssumption
  <2>2. x + Hdr + b[x].size - 1 = End(b, x) - 1
    BY <2>1
  <2> DEFINE e == x + Hdr + b[x].size - 1
  <2>4. i \in x + Hdr .. e <=> i \in Int /\ x + Hdr <= i /\ i <= e
    <3>1. e \in Int /\ x + Hdr \in Int
      BY <2>1, <2>2
    <3> HIDE DEF e
    <3> QED BY <3>1
  <2>5. i \in Int => (i <= e <=> i < End(b, x))
    BY <2>1, <2>2
  <2> QED BY <2>4, <2>5
<1> QED BY <1>1, InFree

(* The free bytes are finitely many, no more than the heap has.            *)
LEMMA FreeBytesFinite ==
  ASSUME HeapAssumption, NEW b, Tiled(b)
  PROVE  /\ IsFiniteSet(FreeBytes(b)) /\ Cardinality(FreeBytes(b)) \in Nat
         /\ Cardinality(FreeBytes(b)) <= HeapSize
<1> DEFINE H == 1 + Hdr .. HeapEnd - 1
<1>1. Hdr \in Nat /\ HeapSize \in Nat /\ HeapSize # 0 /\ HeapEnd = 1 + Hdr + HeapSize
  BY DEF HeapAssumption, HeapEnd, Start
<1>2. IsFiniteSet(H) /\ Cardinality(H) = HeapSize
  <2>1. 1 + Hdr \in Int /\ HeapEnd - 1 \in Int /\ ~ (1 + Hdr > HeapEnd - 1)
        /\ (HeapEnd - 1) - (1 + Hdr) + 1 = HeapSize
    BY <1>1
  <2> DEFINE l == 1 + Hdr
             h == HeapEnd - 1
  <2> HIDE DEF l, h
  <2>2. l \in Int /\ h \in Int => IsFiniteSet(l .. h) /\ Cardinality(l .. h) = IF l > h THEN 0 ELSE h - l + 1
    BY FS_Interval
  <2> USE DEF l, h
  <2> QED BY <2>1, <2>2
<1>3. FreeBytes(b) \in SUBSET H
  <2> SUFFICES ASSUME NEW i \in FreeBytes(b) PROVE i \in H
    OBVIOUS
  <2>1. PICK x \in DOMAIN b : i \in Int /\ x + Hdr <= i /\ i < End(b, x)
    BY FreeByte DEF Tiled
  <2>2. x \in Nat /\ x # 0 /\ End(b, x) \in Nat /\ End(b, x) <= HeapEnd
    BY BlockFacts DEF Tiled, InOrder
  <2> QED BY <1>1, <2>1, <2>2
<1> HIDE DEF H
<1> QED BY <1>2, <1>3, FS_Subset, FS_CardinalityType

(* Adding n bytes in a row that were not there makes n more.               *)
LEMMA MoreBytes ==
  ASSUME NEW S, IsFiniteSet(S), NEW l \in Nat, NEW n \in Nat,
         \A i \in l .. l + n - 1 : i \notin S
  PROVE  Cardinality(S \cup (l .. l + n - 1)) = Cardinality(S) + n
<1> DEFINE h == l + n - 1
           T == l .. h
<1>1. IsFiniteSet(T) /\ Cardinality(T) = n
  <2>1. h \in Int /\ (l > h <=> n = 0) /\ h - l + 1 = n
    OBVIOUS
  <2> HIDE DEF h
  <2>2. IsFiniteSet(l .. h) /\ Cardinality(l .. h) = IF l > h THEN 0 ELSE h - l + 1
    BY <2>1, FS_Interval
  <2> QED BY <2>1, <2>2
<1>2. S \cap T = {}
  OBVIOUS
<1> HIDE DEF T
<1>3. Cardinality(S \cup T) = Cardinality(S) + Cardinality(T) - Cardinality(S \cap T)
  BY <1>1, FS_Union
<1>4. Cardinality(S \cap T) = 0 /\ Cardinality(S) \in Nat
  BY <1>2, FS_EmptySet, FS_CardinalityType
<1>5. Cardinality(S \cup T) = Cardinality(S) + n
  BY <1>1, <1>3, <1>4
<1> QED BY <1>5 DEF T

(* Swallowing a free block, a free block gains the bytes of its header.    *)
LEMMA AbsorbFree ==
  ASSUME HeapAssumption, NEW b, Tiled(b), NEW a \in DOMAIN b, b[a].next # NULL,
         ~ b[a].used, ~ b[b[a].next].used, NEW c, c = AbsorbNext(b, a)
  PROVE  Cardinality(FreeBytes(c)) = Cardinality(FreeBytes(b)) + Hdr
<1> DEFINE n == b[a].next
<1>1. /\ n \in DOMAIN b /\ a < n /\ a \in Nat /\ n \in Nat /\ a # n /\ n = End(b, a)
      /\ End(b, n) = n + Hdr + b[n].size /\ b[n].size \in Nat /\ Hdr \in Nat
  BY NextFacts, BlockFacts DEF Tiled, HeapAssumption
<1>2. /\ DOMAIN c = DOMAIN b \ {n} /\ a \in DOMAIN c /\ ~ c[a].used
      /\ c[a].size = b[a].size + Hdr + b[n].size
      /\ \A x \in DOMAIN c : x # a => c[x].used = b[x].used /\ c[x].size = b[x].size
  <2>1. AbsorbedOf(b, a, c, n, b[n].next)
    BY AbsorbBlocks
  <2> QED BY <2>1 DEF AbsorbedOf
<1>3. Tiled(c)
  BY AbsorbTiled
<1>4. End(c, a) = End(b, n) /\ \A x \in DOMAIN c : x # a => End(c, x) = End(b, x)
  <2>1. b[a].size \in Nat /\ End(b, a) = a + Hdr + b[a].size
    BY BlockFacts DEF Tiled
  <2>2. End(c, a) = a + Hdr + (b[a].size + Hdr + b[n].size)
    BY <1>2 DEF End
  <2>3. \A x \in DOMAIN c : x # a => End(c, x) = End(b, x)
    BY <1>2 DEF End
  <2> QED BY <1>1, <2>1, <2>2, <2>3
<1> DEFINE N == n .. n + Hdr - 1
<1>5. \A i \in N : i \notin FreeBytes(b)
  <2> SUFFICES ASSUME NEW i \in N, NEW x \in DOMAIN b, x + Hdr <= i, i < End(b, x) PROVE FALSE
    BY FreeByte DEF Tiled
  <2>1. x \in Nat /\ End(b, x) \in Nat /\ i \in Int /\ n <= i /\ i < n + Hdr
    BY <1>1, BlockFacts DEF Tiled
  <2>2. CASE x < n
    <3>1. End(b, x) <= n
      BY <1>1, <2>2 DEF Tiled, InOrder
    <3> QED BY <1>1, <2>1, <3>1
  <2>3. CASE ~ (x < n)
    BY <1>1, <2>1, <2>3
  <2> QED BY <2>2, <2>3
<1>6. FreeBytes(c) = FreeBytes(b) \cup N
  <2>1. ASSUME NEW i \in FreeBytes(c) PROVE i \in FreeBytes(b) \cup N
    <3>1. PICK x \in DOMAIN c : i \in Int /\ ~ c[x].used /\ x + Hdr <= i /\ i < End(c, x)
      BY <1>3, <2>1, FreeByte DEF Tiled
    <3>2. CASE x = a
      <4>1. i < n => i \in FreeBytes(b)
        BY <1>1, <3>1, <3>2, FreeByte DEF Tiled
      <4>2. n + Hdr <= i => i \in FreeBytes(b)
        BY <1>1, <1>4, <3>1, <3>2, FreeByte DEF Tiled
      <4>3. n <= i /\ i < n + Hdr => i \in N
        BY <1>1, <3>1
      <4> QED BY <1>1, <3>1, <4>1, <4>2, <4>3
    <3>3. CASE x # a
      <4>1. x \in DOMAIN b /\ ~ b[x].used /\ i < End(b, x)
        BY <1>2, <1>4, <3>1, <3>3
      <4> QED BY <3>1, <4>1, FreeByte DEF Tiled
    <3> QED BY <3>2, <3>3
  <2>2. ASSUME NEW i \in FreeBytes(b) PROVE i \in FreeBytes(c)
    <3>1. PICK x \in DOMAIN b : i \in Int /\ ~ b[x].used /\ x + Hdr <= i /\ i < End(b, x)
      BY <2>2, FreeByte DEF Tiled
    <3>2. CASE x = a
      <4>1. End(b, a) <= End(c, a) /\ End(c, a) \in Nat /\ End(b, a) \in Nat
        BY <1>1, <1>2, <1>3, <1>4, BlockFacts DEF Tiled
      <4>2. i < End(c, a)
        BY <3>1, <3>2, <4>1
      <4> QED BY <1>2, <1>3, <3>1, <3>2, <4>2, FreeByte DEF Tiled
    <3>3. CASE x = n
      <4>1. a + Hdr <= i /\ i < End(c, a)
        BY <1>1, <1>4, <3>1, <3>3
      <4> QED BY <1>2, <1>3, <3>1, <4>1, FreeByte DEF Tiled
    <3>4. CASE x # a /\ x # n
      <4>1. x \in DOMAIN c /\ ~ c[x].used /\ i < End(c, x)
        BY <1>2, <1>4, <3>1, <3>4
      <4> QED BY <1>3, <3>1, <4>1, FreeByte DEF Tiled
    <3> QED BY <3>2, <3>3, <3>4
  <2>3. ASSUME NEW i \in N PROVE i \in FreeBytes(c)
    <3>1. i \in Int /\ a + Hdr <= i /\ i < End(c, a)
      <4>1. b[a].size \in Nat /\ End(b, a) = a + Hdr + b[a].size
        BY BlockFacts DEF Tiled
      <4>2. i \in Int /\ n <= i /\ i < n + Hdr
        BY <1>1, <2>3
      <4> QED BY <1>1, <1>4, <4>1, <4>2
    <3> QED BY <1>2, <1>3, <3>1, FreeByte DEF Tiled
  <2> QED BY <2>1, <2>2, <2>3
<1>7. IsFiniteSet(FreeBytes(b))
  BY FreeBytesFinite
<1> HIDE DEF n
<1>8. Cardinality(FreeBytes(b) \cup N) = Cardinality(FreeBytes(b)) + Hdr
  BY <1>1, <1>5, <1>7, MoreBytes
<1> QED BY <1>6, <1>8

(* A block is marked used or free.                                         *)
Mark(b, a, v) == [b EXCEPT ![a].used = v]

(* What marking does to each block.                                        *)
MarkedOf(b, a, v, c) ==
  /\ DOMAIN c = DOMAIN b /\ c[a].used = v
  /\ \A x \in DOMAIN b : /\ c[x].size = b[x].size /\ c[x].next = b[x].next
                         /\ c[x].prev = b[x].prev /\ End(c, x) = End(b, x)
                         /\ x # a => c[x].used = b[x].used

(* Marking a block changes nothing else.                                   *)
LEMMA MarkBlocks ==
  ASSUME HeapAssumption, NEW b, Tiled(b), NEW a \in DOMAIN b, NEW v \in BOOLEAN, NEW c,
         c = Mark(b, a, v)
  PROVE  MarkedOf(b, a, v, c) /\ Tiled(c)
<1>0. b \in [DOMAIN b -> Block] /\ b[a] \in Block
  BY BlockFacts DEF Tiled, Typed
<1>1. DOMAIN c = DOMAIN b
  BY <1>0 DEF Mark
<1>2. c[a] = [b[a] EXCEPT !.used = v] /\ \A x \in DOMAIN b : x # a => c[x] = b[x]
  BY <1>0 DEF Mark
<1>3. c[a].used = v /\ c[a] \in Block /\ c[a].size = b[a].size /\ c[a].next = b[a].next
      /\ c[a].prev = b[a].prev
  BY <1>0, <1>2 DEF Block
<1>4. \A x \in DOMAIN b : /\ c[x].size = b[x].size /\ c[x].next = b[x].next
                          /\ c[x].prev = b[x].prev /\ End(c, x) = End(b, x)
                          /\ x # a => c[x].used = b[x].used
  BY <1>2, <1>3 DEF End
<1>5. Typed(c)
  <2>1. \A x \in DOMAIN c : c[x] \in Block
    BY <1>0, <1>1, <1>2, <1>3
  <2>2. c = [x \in DOMAIN c |-> c[x]]
    BY <1>0 DEF Mark
  <2>3. c \in [DOMAIN c -> Block]
    BY <2>1, <2>2
  <2> QED BY <1>1, <2>3 DEF Typed, Tiled
<1>6. Linked(c)
  BY <1>1, <1>4 DEF Linked, Tiled
<1>7. InOrder(c)
  BY <1>1, <1>4 DEF InOrder, Tiled
<1> QED BY <1>1, <1>3, <1>4, <1>5, <1>6, <1>7 DEF Tiled, MarkedOf

(* A free block that is marked used takes its payload from the free bytes. *)
LEMMA MarkFree ==
  ASSUME HeapAssumption, NEW b, Tiled(b), NEW a \in DOMAIN b, ~ b[a].used, NEW c,
         c = Mark(b, a, TRUE)
  PROVE  Cardinality(FreeBytes(b)) = Cardinality(FreeBytes(c)) + b[a].size
<1>1. /\ DOMAIN c = DOMAIN b /\ c[a].used /\ Tiled(c)
      /\ \A x \in DOMAIN b : /\ c[x].size = b[x].size /\ End(c, x) = End(b, x)
                             /\ x # a => c[x].used = b[x].used
  <2>1. MarkedOf(b, a, TRUE, c) /\ Tiled(c)
    BY MarkBlocks
  <2> QED BY <2>1 DEF MarkedOf
<1>2. a \in Nat /\ Hdr \in Nat /\ b[a].size \in Nat /\ End(b, a) = a + Hdr + b[a].size
  BY BlockFacts DEF Tiled, HeapAssumption
<1> DEFINE l == a + Hdr
           n == b[a].size
           P == l .. l + n - 1
<1>3. \A i : i \in P <=> i \in Int /\ a + Hdr <= i /\ i < End(b, a)
  BY <1>2
<1>4. \A i \in P : i \notin FreeBytes(c)
  <2> SUFFICES ASSUME NEW i \in P, NEW x \in DOMAIN c, ~ c[x].used, x + Hdr <= i, i < End(c, x)
               PROVE  FALSE
    BY <1>1, FreeByte DEF Tiled
  <2>1. x \in DOMAIN b /\ x # a /\ x \in Nat /\ i < End(b, x) /\ End(b, x) \in Nat
    BY <1>1, BlockFacts DEF Tiled
  <2>2. i \in Int /\ a + Hdr <= i /\ i < End(b, a)
    BY <1>3
  <2>3. CASE x < a
    <3>1. End(b, x) <= a
      BY <2>1, <2>3 DEF Tiled, InOrder
    <3> QED BY <1>2, <2>1, <2>2, <3>1
  <2>4. CASE a < x
    <3>1. End(b, a) <= x
      BY <2>1, <2>4 DEF Tiled, InOrder
    <3> QED BY <1>2, <2>1, <2>2, <3>1
  <2> QED BY <1>2, <2>1, <2>3, <2>4
<1>5. FreeBytes(b) = FreeBytes(c) \cup P
  <2> HIDE DEF P
  <2>1. ASSUME NEW i \in FreeBytes(b) PROVE i \in FreeBytes(c) \cup P
    <3>1. PICK x \in DOMAIN b : i \in Int /\ ~ b[x].used /\ x + Hdr <= i /\ i < End(b, x)
      BY <2>1, FreeByte DEF Tiled
    <3>2. CASE x = a
      BY <1>3, <3>1, <3>2
    <3>3. CASE x # a
      <4>1. x \in DOMAIN c /\ ~ c[x].used /\ i < End(c, x)
        BY <1>1, <3>1, <3>3
      <4> QED BY <1>1, <3>1, <4>1, FreeByte DEF Tiled
    <3> QED BY <3>2, <3>3
  <2>2. ASSUME NEW i \in FreeBytes(c) PROVE i \in FreeBytes(b)
    <3>1. PICK x \in DOMAIN c : i \in Int /\ ~ c[x].used /\ x + Hdr <= i /\ i < End(c, x)
      BY <1>1, <2>2, FreeByte DEF Tiled
    <3>2. x \in DOMAIN b /\ ~ b[x].used /\ i < End(b, x)
      BY <1>1, <3>1
    <3> QED BY <3>1, <3>2, FreeByte DEF Tiled
  <2>3. ASSUME NEW i \in P PROVE i \in FreeBytes(b)
    <3>1. i \in Int /\ a + Hdr <= i /\ i < End(b, a)
      BY <1>3, <2>3
    <3> QED BY <3>1, FreeByte DEF Tiled
  <2> QED BY <2>1, <2>2, <2>3
<1>6. IsFiniteSet(FreeBytes(c))
  BY <1>1, FreeBytesFinite
<1>7. l \in Nat /\ n \in Nat
  BY <1>2
<1> HIDE DEF l, n
<1>8. Cardinality(FreeBytes(c) \cup P) = Cardinality(FreeBytes(c)) + n
  BY <1>4, <1>6, <1>7, MoreBytes
<1> QED BY <1>5, <1>8 DEF n

-----------------------------------------------------------------------------
Turn(s, back) == IF back THEN BackTurn(s) ELSE ForwardTurn(s)

(* A merge loop whose second turn does nothing ends where its first does.  *)
LEMMA LoopOnce ==
  ASSUME NEW s, NEW back \in BOOLEAN, NEW t, t = Turn(s, back), Turn(t, back) = t,
         Cardinality(DOMAIN s.list) \in Nat \ {0}
  PROVE  MergeLoop(s, back) = t
<1> DEFINE E(g) == [k \in Nat |-> IF k = 0 THEN s ELSE Turn(g[k - 1], back)]
           turns == CHOOSE g : g = E(g)
<1>1. MergeLoop(s, back) = turns[Cardinality(DOMAIN s.list)]
  BY DEF MergeLoop, Turn
<1>2. \E g : g = E(g)
  <2> DEFINE w == [k \in Nat |-> IF k = 0 THEN s ELSE t]
  <2>1. ASSUME NEW k \in Nat PROVE w[k] = E(w)[k]
    <3>1. CASE k = 0
      BY <3>1
    <3>2. CASE k # 0
      <4>1. k - 1 \in Nat /\ w[k] = t /\ E(w)[k] = Turn(w[k - 1], back)
        BY <3>2
      <4>2. w[k - 1] = s \/ w[k - 1] = t
        BY <4>1
      <4> HIDE DEF w
      <4>3. Turn(w[k - 1], back) = t
        BY <4>2
      <4> QED BY <4>1, <4>3
    <3> QED BY <3>1, <3>2
  <2>2. w = E(w)
    <3>1. w = [k \in Nat |-> w[k]] /\ E(w) = [k \in Nat |-> E(w)[k]]
      OBVIOUS
    <3> HIDE DEF w, E
    <3> QED BY <2>1, <3>1
  <2> HIDE DEF w, E
  <2> QED BY <2>2
<1>3. turns = E(turns)
  <2> HIDE DEF E
  <2> QED BY <1>2
<1> HIDE DEF turns
<1>4. turns[0] = s /\ \A k \in Nat \ {0} : turns[k] = Turn(turns[k - 1], back)
  <2> DEFINE f == E(turns)
  <2>1. f[0] = s /\ \A k \in Nat \ {0} : f[k] = Turn(turns[k - 1], back)
    OBVIOUS
  <2> HIDE DEF f
  <2>2. turns = f
    BY <1>3 DEF f
  <2> QED BY <2>1, <2>2
<1>5. \A k \in Nat \ {0} : turns[k] = t
  <2> DEFINE Off == {k \in Nat \ {0} : turns[k] # t}
  <2> SUFFICES ASSUME Off # {} PROVE FALSE
    OBVIOUS
  <2>1. PICK k \in Off : \A j \in Off : k <= j
    BY MinExists
  <2>2. k \in Nat /\ k # 0 /\ turns[k] # t /\ turns[k] = Turn(turns[k - 1], back)
    BY <1>4
  <2>3. k - 1 = 0 \/ (k - 1 \in Nat \ {0} /\ ~ (k <= k - 1))
    BY <2>2
  <2>4. turns[k - 1] = s \/ turns[k - 1] = t
    BY <1>4, <2>1, <2>3
  <2> QED BY <2>2, <2>4
<1> QED BY <1>1, <1>5

(* From b to c free blocks were put together k times.                      *)
Joined(b, c, k) ==
  /\ \A x : (x \in DOMAIN b /\ b[x].used) <=> (x \in DOMAIN c /\ c[x].used)
  /\ \A x \in DOMAIN c : c[x].used => c[x].size = b[x].size
  /\ Cardinality(DOMAIN b) = Cardinality(DOMAIN c) + k
  /\ Cardinality(FreeBytes(c)) = Cardinality(FreeBytes(b)) + k * Hdr

(* A list is finite and has its first block.                               *)
LEMMA ListSize ==
  ASSUME NEW b, Tiled(b)
  PROVE  IsFiniteSet(DOMAIN b) /\ Cardinality(DOMAIN b) \in Nat \ {0}
<1>1. IsFiniteSet(DOMAIN b) /\ DOMAIN b # {}
  BY DEF Tiled, Typed, Linked
<1> QED BY <1>1, FS_CardinalityType, FS_EmptySet

(* Nothing was put together.                                               *)
LEMMA NotJoined ==
  ASSUME HeapAssumption, NEW b, Tiled(b)
  PROVE  Joined(b, b, 0)
<1>1. Cardinality(DOMAIN b) \in Nat /\ Cardinality(FreeBytes(b)) \in Nat /\ Hdr \in Nat
  BY ListSize, FreeBytesFinite DEF HeapAssumption
<1>2. Cardinality(DOMAIN b) = Cardinality(DOMAIN b) + 0
      /\ Cardinality(FreeBytes(b)) = Cardinality(FreeBytes(b)) + 0 * Hdr
  BY <1>1
<1> QED BY <1>2 DEF Joined

(* A free block swallows a free block.                                     *)
LEMMA AbsorbJoined ==
  ASSUME HeapAssumption, NEW b, Tiled(b), NEW a \in DOMAIN b, b[a].next # NULL,
         ~ b[a].used, ~ b[b[a].next].used, NEW c, c = AbsorbNext(b, a)
  PROVE  Joined(b, c, 1)
<1> DEFINE n == b[a].next
<1>1. AbsorbedOf(b, a, c, n, b[n].next) /\ n \in DOMAIN b /\ ~ b[n].used
  BY AbsorbBlocks, NextFacts
<1> HIDE DEF n
<1>2. \A x : (x \in DOMAIN b /\ b[x].used) <=> (x \in DOMAIN c /\ c[x].used)
  BY <1>1 DEF AbsorbedOf
<1>3. \A x \in DOMAIN c : c[x].used => c[x].size = b[x].size
  BY <1>1 DEF AbsorbedOf
<1>4. Cardinality(DOMAIN b) = Cardinality(DOMAIN c) + 1
  BY AbsorbTiled
<1>5. Cardinality(FreeBytes(c)) = Cardinality(FreeBytes(b)) + Hdr /\ Hdr \in Nat
  BY AbsorbFree DEF HeapAssumption
<1>6. 1 * Hdr = Hdr
  BY <1>5
<1>7. Cardinality(FreeBytes(c)) = Cardinality(FreeBytes(b)) + 1 * Hdr
  BY <1>5, <1>6
<1> QED BY <1>2, <1>3, <1>4, <1>7 DEF Joined

(* What holds of the list between the two loops: only the block before a   *)
(* may still have to be joined with a.                                     *)
Ahead(b, a) ==
  /\ Tiled(b) /\ MergedBut(b, a)
  /\ a \in DOMAIN b /\ ~ b[a].used
  /\ b[a].next # NULL => b[b[a].next].used

(* The forward loop.                                                       *)
LEMMA ForwardLoop ==
  ASSUME HeapAssumption, NEW b, Tiled(b), NEW a \in DOMAIN b, ~ b[a].used, MergedBut(b, a)
  PROVE  \E c : \E k \in {0, 1} :
           MergeLoop([list |-> b, at |-> a], FALSE) = [list |-> c, at |-> a] /\ Ahead(c, a) /\ Joined(b, c, k)
<1> DEFINE s == [list |-> b, at |-> a]
           n == b[a].next
<1>1. s.list = b /\ s.at = a /\ Cardinality(DOMAIN s.list) \in Nat \ {0}
  BY ListSize
<1>2. CASE n = NULL \/ b[n].used
  <2>1. ForwardTurn(s) = s
    BY <1>1, <1>2, Zenon DEF ForwardTurn
  <2>2. Turn(s, FALSE) = s
    BY <2>1 DEF Turn
  <2>3. MergeLoop(s, FALSE) = s
    <3> HIDE DEF s
    <3> QED BY <1>1, <2>2, LoopOnce
  <2>4. Ahead(b, a)
    BY <1>2 DEF Ahead
  <2> QED BY <2>3, <2>4, NotJoined
<1>3. CASE n # NULL /\ ~ b[n].used
  <2> DEFINE c == AbsorbNext(b, a)
             t == [list |-> c, at |-> a]
  <2>1. ForwardTurn(s) = [s EXCEPT !.list = c]
    BY <1>1, <1>3, Zenon DEF ForwardTurn
  <2>2. [s EXCEPT !.list = c] = t
    <3> HIDE DEF c
    <3> QED OBVIOUS
  <2>3. Tiled(c) /\ Joined(b, c, 1) /\ AbsorbedOf(b, a, c, n, b[n].next)
    BY <1>3, AbsorbTiled, AbsorbJoined, AbsorbBlocks
  <2>4. n \in DOMAIN b /\ n # a /\ b[n].next \in Nat /\ a \in Nat /\ n \in Nat
    BY <1>3, NextFacts, BlockFacts DEF Tiled
  <2>5. b[n].next # NULL => /\ b[n].next \in DOMAIN b /\ b[n].next # n /\ b[n].next # a
                            /\ b[b[n].next].used
    <3>1. ASSUME b[n].next # NULL
          PROVE  b[n].next \in DOMAIN b /\ n < b[n].next /\ a < n
      BY <1>3, <2>4, <3>1, NextFacts
    <3>2. ASSUME b[n].next # NULL PROVE b[n].next # n /\ b[n].next # a
      BY <2>4, <3>1, <3>2
    <3> QED BY <1>3, <2>4, <3>1, <3>2 DEF MergedBut
  <2> HIDE DEF c, n
  <2>6. Ahead(c, a)
    <3>1. a \in DOMAIN c /\ ~ c[a].used
      BY <2>3 DEF AbsorbedOf
    <3>2. c[a].next # NULL => c[c[a].next].used
      BY <2>3, <2>5 DEF AbsorbedOf
    <3>3. MergedBut(c, a)
      <4> SUFFICES ASSUME NEW x \in DOMAIN c, ~ c[x].used, c[x].next # NULL, x # a, c[x].next # a
                   PROVE  c[c[x].next].used
        BY DEF MergedBut
      <4>1. x \in DOMAIN b /\ ~ b[x].used /\ c[x].next = b[x].next
        BY <2>3 DEF AbsorbedOf
      <4>2. b[b[x].next].used
        BY <4>1 DEF MergedBut
      <4>3. c[x].next \in DOMAIN c
        BY <2>3, NextFacts
      <4> QED BY <2>3, <4>1, <4>2, <4>3 DEF AbsorbedOf
    <3> QED BY <2>3, <3>1, <3>2, <3>3 DEF Ahead
  <2>7. t.list = c /\ t.at = a
    OBVIOUS
  <2>8. ForwardTurn(t) = t
    <3>1. c[a].next = NULL \/ c[c[a].next].used
      BY <2>6 DEF Ahead
    <3> HIDE DEF t
    <3> QED BY <2>7, <3>1, Zenon DEF ForwardTurn
  <2>9. Turn(s, FALSE) = t /\ Turn(t, FALSE) = t
    BY <2>1, <2>2, <2>8 DEF Turn
  <2>10. MergeLoop(s, FALSE) = t
    <3> HIDE DEF s, t
    <3> QED BY <1>1, <2>9, LoopOnce
  <2> QED BY <2>3, <2>6, <2>10
<1> QED BY <1>2, <1>3

(* The backward loop.                                                      *)
LEMMA BackLoop ==
  ASSUME HeapAssumption, NEW b, NEW a, Ahead(b, a)
  PROVE  \E c : \E k \in {0, 1} :
           MergeLoop([list |-> b, at |-> a], TRUE).list = c /\ Tiled(c) /\ Merged(c) /\ Joined(b, c, k)
<1> DEFINE s == [list |-> b, at |-> a]
           p == b[a].prev
<1>0. Tiled(b) /\ MergedBut(b, a) /\ a \in DOMAIN b /\ ~ b[a].used
      /\ (b[a].next # NULL => b[b[a].next].used)
  BY DEF Ahead
<1>1. s.list = b /\ s.at = a /\ Cardinality(DOMAIN s.list) \in Nat \ {0}
  BY <1>0, ListSize
<1>2. CASE p = NULL \/ b[p].used
  <2>1. BackTurn(s) = s
    BY <1>1, <1>2, Zenon DEF BackTurn
  <2>2. Turn(s, TRUE) = s
    BY <2>1 DEF Turn
  <2>3. MergeLoop(s, TRUE) = s
    <3> HIDE DEF s
    <3> QED BY <1>1, <2>2, LoopOnce
  <2>4. Merged(b)
    <3> SUFFICES ASSUME NEW x \in DOMAIN b, ~ b[x].used, b[x].next # NULL
                 PROVE  b[b[x].next].used
      BY DEF Merged
    <3>1. b[b[x].next].prev = x /\ x # NULL
      BY <1>0, NextFacts, BlockFacts DEF Tiled, NULL
    <3>2. b[x].next # a
      BY <1>2, <3>1
    <3> QED BY <1>0, <3>2 DEF MergedBut
  <2> QED BY <1>0, <1>1, <2>3, <2>4, NotJoined
<1>3. CASE p # NULL /\ ~ b[p].used
  <2> DEFINE c == AbsorbNext(b, p)
             t == [list |-> c, at |-> p]
  <2>1. BackTurn(s) = t
    BY <1>1, <1>3, Zenon DEF BackTurn
  <2>2. p \in DOMAIN b /\ b[p].next = a /\ b[p].next # NULL /\ p < a /\ a \in Nat /\ p \in Nat
    BY <1>0, <1>3, PrevFacts, BlockFacts DEF Tiled
  <2>3. Tiled(c) /\ Joined(b, c, 1) /\ AbsorbedOf(b, p, c, a, b[a].next)
    BY <1>0, <1>3, <2>2, AbsorbTiled, AbsorbJoined, AbsorbBlocks
  <2>4. b[p].prev # NULL => b[p].prev \in DOMAIN b /\ b[b[p].prev].used /\ b[p].prev # p /\ b[p].prev # a
    <3> SUFFICES ASSUME b[p].prev # NULL
                 PROVE  b[p].prev \in DOMAIN b /\ b[b[p].prev].used /\ b[p].prev # p /\ b[p].prev # a
      OBVIOUS
    <3> DEFINE q == b[p].prev
    <3>1. q \in DOMAIN b /\ b[q].next = p /\ b[q].next # NULL /\ q < p /\ q \in Nat
      BY <1>0, <2>2, PrevFacts, BlockFacts DEF Tiled
    <3>2. q # p /\ q # a /\ p # a
      BY <2>2, <3>1
    <3> QED BY <1>0, <1>3, <3>1, <3>2 DEF MergedBut
  <2> HIDE DEF c, p
  <2>5. Merged(c)
    <3> SUFFICES ASSUME NEW x \in DOMAIN c, ~ c[x].used, c[x].next # NULL
                 PROVE  c[c[x].next].used
      BY DEF Merged
    <3>1. c[x].next \in DOMAIN c /\ c[x].next \in DOMAIN b /\ c[x].next # x /\ c[c[x].next].prev = x
      <4>1. c[x].next \in DOMAIN c /\ x < c[x].next /\ x \in Nat /\ c[c[x].next].prev = x
        BY <2>3, NextFacts, BlockFacts DEF Tiled
      <4>2. c[x].next # x
        BY <4>1
      <4> QED BY <2>3, <4>1, <4>2 DEF AbsorbedOf
    <3>2. CASE x = p
      <4>1. c[x].next = b[a].next /\ b[b[a].next].used
        BY <1>0, <2>3, <3>2 DEF AbsorbedOf
      <4> QED BY <2>3, <3>1, <3>2, <4>1 DEF AbsorbedOf
    <3>3. CASE x # p
      <4>1. x \in DOMAIN b /\ x # a /\ ~ b[x].used /\ c[x].next = b[x].next /\ b[x].next # a
        BY <2>3, <3>1, <3>3 DEF AbsorbedOf
      <4>2. b[b[x].next].used
        BY <1>0, <4>1 DEF MergedBut
      <4> QED BY <2>3, <3>1, <4>1, <4>2 DEF AbsorbedOf
    <3> QED BY <3>2, <3>3
  <2>6. BackTurn(t) = t
    <3>1. t.list = c /\ t.at = p
      OBVIOUS
    <3>2. c[p].prev = NULL \/ c[c[p].prev].used
      <4>1. c[p].prev = b[p].prev
        BY <2>3 DEF AbsorbedOf
      <4> QED BY <2>3, <2>4, <4>1 DEF AbsorbedOf
    <3> HIDE DEF t
    <3> QED BY <3>1, <3>2, Zenon DEF BackTurn
  <2>7. Turn(s, TRUE) = t /\ Turn(t, TRUE) = t
    BY <2>1, <2>6 DEF Turn
  <2>8. MergeLoop(s, TRUE) = t
    <3> HIDE DEF s, t
    <3> QED BY <1>1, <2>7, LoopOnce
  <2>9. MergeLoop(s, TRUE).list = c
    <3>1. t.list = c
      OBVIOUS
    <3> HIDE DEF s, t
    <3> QED BY <2>8, <3>1
  <2> QED BY <2>3, <2>5, <2>9
<1> QED BY <1>2, <1>3

(* Merging around a block that was freed: no two free blocks are           *)
(* neighbours, the used ones are as before, and each block that went gave  *)
(* the free bytes its header.                                              *)
LEMMA MergeAll ==
  ASSUME HeapAssumption, NEW b, Tiled(b), NEW a \in DOMAIN b, ~ b[a].used, MergedBut(b, a)
  PROVE  \E k \in Nat : Tiled(heap_merge_free_blocks(b, a)) /\ Merged(heap_merge_free_blocks(b, a))
                        /\ Joined(b, heap_merge_free_blocks(b, a), k)
<1>1. PICK c : \E j \in {0, 1} :
        MergeLoop([list |-> b, at |-> a], FALSE) = [list |-> c, at |-> a] /\ Ahead(c, a) /\ Joined(b, c, j)
  BY ForwardLoop
<1>j. PICK j \in {0, 1} : Joined(b, c, j)
  BY <1>1
<1>2. PICK d : \E i \in {0, 1} :
        MergeLoop([list |-> c, at |-> a], TRUE).list = d /\ Tiled(d) /\ Merged(d) /\ Joined(c, d, i)
  BY <1>1, BackLoop
<1>i. PICK i \in {0, 1} : Joined(c, d, i)
  BY <1>2
<1>3. heap_merge_free_blocks(b, a) = d
  BY <1>1, <1>2 DEF heap_merge_free_blocks
<1>4. Joined(b, d, i + j)
  <2>1. /\ Cardinality(DOMAIN d) \in Nat /\ Cardinality(DOMAIN c) \in Nat /\ Hdr \in Nat
        /\ Cardinality(FreeBytes(b)) \in Nat
    BY <1>1, <1>2, ListSize, FreeBytesFinite DEF Ahead, HeapAssumption
  <2>2. Cardinality(DOMAIN b) = Cardinality(DOMAIN d) + (i + j)
    BY <1>i, <1>j, <2>1 DEF Joined
  <2>3. i * Hdr + j * Hdr = (i + j) * Hdr /\ i * Hdr \in Nat /\ j * Hdr \in Nat
    BY <2>1
  <2>4. Cardinality(FreeBytes(d)) = (Cardinality(FreeBytes(b)) + j * Hdr) + i * Hdr
    BY <1>i, <1>j DEF Joined
  <2>5. Cardinality(FreeBytes(d)) = Cardinality(FreeBytes(b)) + (i + j) * Hdr
    BY <2>1, <2>3, <2>4
  <2>6. \A x : (x \in DOMAIN b /\ b[x].used) <=> (x \in DOMAIN d /\ d[x].used)
    BY <1>i, <1>j DEF Joined
  <2>7. \A x \in DOMAIN d : d[x].used => d[x].size = b[x].size
    BY <1>i, <1>j DEF Joined
  <2> QED BY <2>2, <2>5, <2>6, <2>7 DEF Joined
<1> QED BY <1>2, <1>3, <1>4

-----------------------------------------------------------------------------
(* A block is split: it keeps n bytes, the rest is a free block at new.    *)
Split(b, a, n, new) ==
  [x \in DOMAIN b \cup {new} |->
     IF x = new THEN [size |-> b[a].size - n - Hdr, used |-> FALSE, next |-> b[a].next, prev |-> a]
     ELSE IF x = a THEN [b[a] EXCEPT !.size = n, !.next = new]
     ELSE IF x = b[a].next THEN [b[x] EXCEPT !.prev = new]
     ELSE b[x]]

(* What a split does to each block.                                        *)
SplitOf(b, a, n, new, c) ==
  /\ DOMAIN c = DOMAIN b \cup {new} /\ new \notin DOMAIN b
  /\ c[new] \in Block /\ c[new].size = b[a].size - n - Hdr /\ ~ c[new].used
  /\ c[new].next = b[a].next /\ c[new].prev = a
  /\ c[a] \in Block /\ c[a].size = n /\ c[a].used = b[a].used /\ c[a].next = new
  /\ c[a].prev = b[a].prev
  /\ \A x \in DOMAIN b : x # a =>
       /\ c[x] \in Block
       /\ c[x].size = b[x].size /\ c[x].next = b[x].next /\ c[x].used = b[x].used
       /\ c[x].prev = IF x = b[a].next THEN new ELSE b[x].prev

(* Split has that effect when the block has room for a header.             *)
LEMMA SplitBlocks ==
  ASSUME HeapAssumption, NEW b, Tiled(b), NEW a \in DOMAIN b, NEW n \in Nat,
         b[a].size >= n + Hdr, NEW new, new = a + Hdr + n, NEW c, c = Split(b, a, n, new)
  PROVE  /\ SplitOf(b, a, n, new, c)
         /\ new \in Nat /\ a < new /\ new < End(b, a) /\ new + Hdr <= End(b, a)
<1>1. /\ a \in Nat /\ Hdr \in Nat /\ Hdr # 0 /\ b[a].size \in Nat /\ b[a].next \in Nat
      /\ b[a] \in Block /\ End(b, a) = a + Hdr + b[a].size /\ End(b, a) \in Nat
  BY BlockFacts DEF Tiled, HeapAssumption
<1>2. new \in Nat /\ a < new /\ new < End(b, a) /\ new + Hdr <= End(b, a)
  BY <1>1
<1>3. new \notin DOMAIN b /\ new # a
  <2>1. ASSUME new \in DOMAIN b PROVE FALSE
    <3>1. End(b, a) <= new
      BY <1>2, <2>1 DEF Tiled, InOrder
    <3> QED BY <1>1, <1>2, <3>1
  <2> QED BY <1>1, <1>2, <2>1
<1>4. DOMAIN c = DOMAIN b \cup {new}
  BY DEF Split
<1>5. c[new] = [size |-> b[a].size - n - Hdr, used |-> FALSE, next |-> b[a].next, prev |-> a]
  BY DEF Split
<1>6. c[a] = [b[a] EXCEPT !.size = n, !.next = new]
  BY <1>3 DEF Split
<1>7. c[new] \in Block /\ c[new].size = b[a].size - n - Hdr /\ ~ c[new].used
      /\ c[new].next = b[a].next /\ c[new].prev = a
  <2> DEFINE size == b[a].size - n - Hdr
  <2>1. size \in Nat
    BY <1>1
  <2>2. c[new] = [size |-> size, used |-> FALSE, next |-> b[a].next, prev |-> a]
    BY <1>5
  <2> HIDE DEF size
  <2>3. c[new].size = size /\ ~ c[new].used /\ c[new].next = b[a].next /\ c[new].prev = a
    BY <2>2
  <2>4. \A nx, pv \in Nat : [size |-> size, used |-> FALSE, next |-> nx, prev |-> pv] \in Block
    BY <2>1 DEF Block
  <2>5. c[new] \in Block
    BY <1>1, <2>2, <2>4, Zenon
  <2> QED BY <2>3, <2>5 DEF size
<1>8. c[a] \in Block /\ c[a].size = n /\ c[a].used = b[a].used /\ c[a].next = new /\ c[a].prev = b[a].prev
  BY <1>1, <1>2, <1>6 DEF Block
<1>9. ASSUME NEW x \in DOMAIN b, x # a
      PROVE  /\ c[x] \in Block
             /\ c[x].size = b[x].size /\ c[x].next = b[x].next /\ c[x].used = b[x].used
             /\ c[x].prev = IF x = b[a].next THEN new ELSE b[x].prev
  <2>1. b[x] \in Block
    BY BlockFacts DEF Tiled
  <2>2. c[x] = IF x = b[a].next THEN [b[x] EXCEPT !.prev = new] ELSE b[x]
    BY <1>3, <1>9 DEF Split
  <2> QED BY <1>2, <2>1, <2>2 DEF Block
<1>10. SplitOf(b, a, n, new, c)
  BY <1>3, <1>4, <1>7, <1>8, <1>9 DEF SplitOf
<1> QED BY <1>2, <1>10

(* The list after a split still tiles the heap, and joining the two blocks *)
(* again would undo it.                                                    *)
LEMMA SplitTiled ==
  ASSUME HeapAssumption, NEW b, Tiled(b), NEW a \in DOMAIN b, NEW n \in Nat,
         b[a].size >= n + Hdr, NEW new, new = a + Hdr + n, NEW c, c = Split(b, a, n, new)
  PROVE  Tiled(c) /\ b = AbsorbNext(c, a)
<1> DEFINE m == b[a].next
<1>1. /\ SplitOf(b, a, n, new, c)
      /\ new \in Nat /\ a < new /\ new < End(b, a) /\ new + Hdr <= End(b, a)
  BY SplitBlocks
<1>2. /\ a \in Nat /\ Hdr \in Nat /\ Hdr # 0 /\ b[a].size \in Nat /\ m \in Nat
      /\ b[a] \in Block /\ End(b, a) = a + Hdr + b[a].size /\ End(b, a) \in Nat
  BY BlockFacts DEF Tiled, HeapAssumption
<1>3. DOMAIN c = DOMAIN b \cup {new} /\ new \notin DOMAIN b /\ new # a
  BY <1>1 DEF SplitOf
<1>4. /\ c[new].size = b[a].size - n - Hdr /\ c[new].next = m /\ c[new].prev = a /\ ~ c[new].used
      /\ c[a].size = n /\ c[a].next = new /\ c[a].prev = b[a].prev /\ c[a].used = b[a].used
      /\ c[new] \in Block /\ c[a] \in Block
  BY <1>1 DEF SplitOf
<1>5. \A x \in DOMAIN b : x # a =>
        /\ c[x] \in Block
        /\ c[x].size = b[x].size /\ c[x].next = b[x].next /\ c[x].used = b[x].used
        /\ c[x].prev = IF x = m THEN new ELSE b[x].prev
  <2> HIDE DEF m
  <2> QED BY <1>1 DEF SplitOf, m
<1>6. m # NULL => m \in DOMAIN b /\ m # a /\ m # new /\ m = End(b, a) /\ b[m].prev = a /\ m # Start
  <2> SUFFICES ASSUME m # NULL
               PROVE  m \in DOMAIN b /\ m # a /\ m # new /\ m = End(b, a) /\ b[m].prev = a /\ m # Start
    OBVIOUS
  <2>1. m \in DOMAIN b /\ a < m /\ m = End(b, a) /\ b[m].prev = a /\ m # Start
    BY NextFacts
  <2>2. m # a
    BY <1>2, <2>1
  <2> QED BY <1>3, <2>1, <2>2
<1>7. /\ End(c, new) = End(b, a) /\ End(c, a) = new
      /\ \A x \in DOMAIN b : x # a => End(c, x) = End(b, x)
  <2>1. End(c, new) = new + Hdr + (b[a].size - n - Hdr) /\ End(c, a) = a + Hdr + n
    BY <1>4 DEF End
  <2>2. End(c, new) = End(b, a)
    BY <1>2, <2>1
  <2>3. \A x \in DOMAIN b : x # a => End(c, x) = End(b, x)
    BY <1>5 DEF End
  <2> QED BY <2>1, <2>2, <2>3
<1>8. Typed(c)
  <2>1. IsFiniteSet(DOMAIN c)
    BY <1>3, FS_AddElement DEF Tiled, Typed
  <2>2. DOMAIN c \in SUBSET (Nat \ {NULL})
    <3>1. new # NULL
      BY <1>1, <1>2 DEF NULL
    <3> QED BY <1>1, <1>3, <3>1 DEF Tiled, Typed
  <2>3. \A x \in DOMAIN c : c[x] \in Block
    BY <1>3, <1>4, <1>5
  <2>4. c = [x \in DOMAIN c |-> c[x]]
    BY DEF Split
  <2>5. c \in [DOMAIN c -> Block]
    BY <2>3, <2>4
  <2> QED BY <2>1, <2>2, <2>5 DEF Typed
<1>9. Start \in DOMAIN c /\ c[Start].prev = NULL
  <2>1. Start \in DOMAIN b /\ b[Start].prev = NULL
    BY DEF Tiled, Linked
  <2>2. Start # m
    <3>1. CASE m = NULL
      BY <3>1 DEF NULL, Start
    <3>2. CASE m # NULL
      BY <1>6, <3>2
    <3> QED BY <3>1, <3>2
  <2> QED BY <1>3, <1>4, <1>5, <2>1, <2>2
<1>10. ASSUME NEW x \in DOMAIN c
       PROVE  /\ c[x].next = NULL => End(c, x) = HeapEnd
              /\ c[x].next # NULL => /\ c[x].next = End(c, x) /\ c[x].next \in DOMAIN c
                                     /\ c[c[x].next].prev = x
              /\ c[x].prev # NULL => c[x].prev \in DOMAIN c /\ c[c[x].prev].next = x
  <2>1. CASE x = new
    <3>1. c[x].next = NULL => End(c, x) = HeapEnd
      BY <1>4, <1>7, <2>1 DEF Tiled, Linked
    <3>2. c[x].next # NULL => /\ c[x].next = End(c, x) /\ c[x].next \in DOMAIN c
                              /\ c[c[x].next].prev = x
      BY <1>3, <1>4, <1>5, <1>6, <1>7, <2>1
    <3>3. c[x].prev # NULL => c[x].prev \in DOMAIN c /\ c[c[x].prev].next = x
      BY <1>3, <1>4, <2>1
    <3> QED BY <3>1, <3>2, <3>3
  <2>2. CASE x = a
    <3>1. c[x].next # NULL
      BY <1>1, <1>2, <1>4, <2>2 DEF NULL
    <3>2. c[x].next = End(c, x) /\ c[x].next \in DOMAIN c /\ c[c[x].next].prev = x
      BY <1>3, <1>4, <1>7, <2>2
    <3>3. ASSUME c[x].prev # NULL PROVE c[x].prev \in DOMAIN c /\ c[c[x].prev].next = x
      <4>1. b[a].prev \in DOMAIN b /\ b[b[a].prev].next = a /\ b[a].prev < a
        BY <1>4, <2>2, <3>3, PrevFacts
      <4>2. b[a].prev \in Nat
        BY BlockFacts DEF Tiled
      <4>3. b[a].prev # a
        BY <1>2, <4>1, <4>2
      <4> QED BY <1>3, <1>4, <1>5, <2>2, <4>1, <4>3
    <3> QED BY <3>1, <3>2, <3>3
  <2>3. CASE x # new /\ x # a
    <3>0. x \in DOMAIN b /\ c[x].next = b[x].next /\ End(c, x) = End(b, x)
          /\ c[x].prev = IF x = m THEN new ELSE b[x].prev
      BY <1>3, <1>5, <1>7, <2>3
    <3>1. c[x].next = NULL => End(c, x) = HeapEnd
      BY <3>0 DEF Tiled, Linked
    <3>2. ASSUME c[x].next # NULL
          PROVE  c[x].next = End(c, x) /\ c[x].next \in DOMAIN c /\ c[c[x].next].prev = x
      <4> DEFINE y == b[x].next
      <4>1. y = c[x].next /\ y = End(b, x) /\ y \in DOMAIN b /\ b[y].prev = x
        BY <3>0, <3>2, NextFacts
      <4>2. y # m
        BY <1>6, <2>3, <3>2, <4>1
      <4>3. c[y].prev = b[y].prev
        <5> HIDE DEF y, m
        <5> QED BY <1>4, <1>5, <4>1, <4>2
      <4> QED BY <1>3, <3>0, <4>1, <4>3
    <3>3. ASSUME c[x].prev # NULL PROVE c[x].prev \in DOMAIN c /\ c[c[x].prev].next = x
      <4>1. CASE x = m
        BY <1>3, <1>4, <3>0, <4>1
      <4>2. CASE x # m
        <5> DEFINE q == b[x].prev
        <5>1. q = c[x].prev /\ q \in DOMAIN b /\ b[q].next = x
          BY <3>0, <3>3, <4>2, PrevFacts
        <5>2. q # a
          BY <4>2, <5>1
        <5> HIDE DEF q
        <5> QED BY <1>3, <1>5, <5>1, <5>2
      <4> QED BY <4>1, <4>2
    <3> QED BY <3>1, <3>2, <3>3
  <2> QED BY <2>1, <2>2, <2>3
<1>11. Linked(c)
  BY <1>9, <1>10 DEF Linked
<1>12. InOrder(c)
  <2>1. ASSUME NEW x \in DOMAIN c PROVE End(c, x) <= HeapEnd
    <3>0. HeapEnd \in Nat /\ End(b, a) <= HeapEnd
      BY DEF Tiled, InOrder, HeapEnd, Start, HeapAssumption
    <3>1. CASE x = new
      BY <1>7, <3>0, <3>1
    <3>2. CASE x = a
      BY <1>1, <1>2, <1>7, <3>0, <3>2
    <3>3. CASE x # new /\ x # a
      BY <1>3, <1>7, <3>3 DEF Tiled, InOrder
    <3> QED BY <3>1, <3>2, <3>3
  <2>2. ASSUME NEW x \in DOMAIN c, NEW y \in DOMAIN c, x < y PROVE End(c, x) <= y
    <3>0. x \in Nat /\ y \in Nat
      BY <1>8, BlockFacts
    <3>1. CASE x = new
      <4>1. y \in DOMAIN b /\ a < y
        BY <1>1, <1>2, <1>3, <2>2, <3>0, <3>1
      <4> QED BY <1>7, <3>1, <4>1 DEF Tiled, InOrder
    <3>2. CASE x = a
      <4>1. CASE y = new
        BY <1>1, <1>7, <3>0, <3>2, <4>1
      <4>2. CASE y # new
        <5>1. End(b, a) <= y
          BY <1>3, <2>2, <3>2, <4>2 DEF Tiled, InOrder
        <5> QED BY <1>1, <1>2, <1>7, <3>0, <3>2, <5>1
      <4> QED BY <4>1, <4>2
    <3>3. CASE x # new /\ x # a
      <4>1. x \in DOMAIN b /\ End(c, x) = End(b, x) /\ End(b, x) \in Nat
        BY <1>3, <1>7, <3>3, BlockFacts DEF Tiled
      <4>2. CASE y # new
        BY <1>3, <2>2, <4>1, <4>2 DEF Tiled, InOrder
      <4>3. CASE y = new
        <5>1. CASE x < a
          <6>1. End(b, x) <= a
            BY <4>1, <5>1 DEF Tiled, InOrder
          <6> QED BY <1>1, <1>2, <4>1, <4>3, <6>1
        <5>2. CASE a < x
          <6>1. End(b, a) <= x
            BY <4>1, <5>2 DEF Tiled, InOrder
          <6> QED BY <1>1, <1>2, <2>2, <3>0, <4>3, <6>1
        <5> QED BY <1>2, <3>0, <3>3, <5>1, <5>2
      <4> QED BY <4>2, <4>3
    <3> QED BY <3>1, <3>2, <3>3
  <2> QED BY <2>1, <2>2 DEF InOrder
<1>13. b = AbsorbNext(c, a)
  <2> DEFINE d == AbsorbNext(c, a)
  <2>0. c[a].next # NULL /\ c[a].next = new /\ a \in DOMAIN c
    BY <1>1, <1>2, <1>3, <1>4 DEF NULL
  <2>1. AbsorbedOf(c, a, d, new, m)
    BY <1>4, <1>8, <1>11, <1>12, <2>0, AbsorbBlocks DEF Tiled
  <2>2. DOMAIN d = DOMAIN b /\ d = [x \in DOMAIN b |-> d[x]]
    <3>1. d = [x \in DOMAIN d |-> d[x]] /\ DOMAIN d = DOMAIN c \ {new}
      BY <2>0 DEF AbsorbNext
    <3> HIDE DEF d
    <3>2. DOMAIN d = DOMAIN b
      BY <1>3, <3>1
    <3> QED BY <3>1, <3>2
  <2> HIDE DEF d, m
  <2>3. ASSUME NEW x \in DOMAIN b PROVE d[x] = b[x]
    <3>1. \A r, q \in Block : r.size = q.size /\ r.used = q.used /\ r.next = q.next /\ r.prev = q.prev
                              => r = q
      BY DEF Block
    <3>2. b[x] \in Block
      BY BlockFacts DEF Tiled
    <3>3. CASE x = a
      <4>1. d[a] \in Block /\ d[a].size = n + Hdr + (b[a].size - n - Hdr) /\ d[a].next = m
            /\ d[a].used = b[a].used /\ d[a].prev = b[a].prev
        BY <1>4, <2>1 DEF AbsorbedOf
      <4>2. d[a].size = b[a].size
        BY <1>2, <4>1
      <4> QED BY <3>1, <3>2, <3>3, <4>1, <4>2 DEF m
    <3>4. CASE x # a
      <4>1. x \in DOMAIN d /\ c[x].size = b[x].size /\ c[x].next = b[x].next /\ c[x].used = b[x].used
            /\ c[x].prev = IF x = m THEN new ELSE b[x].prev
        BY <1>5, <2>2, <3>4
      <4>2. d[x] \in Block /\ d[x].size = b[x].size /\ d[x].next = b[x].next /\ d[x].used = b[x].used
            /\ d[x].prev = IF x = m THEN a ELSE c[x].prev
        BY <2>1, <3>4, <4>1 DEF AbsorbedOf
      <4>3. d[x].prev = b[x].prev
        <5>1. CASE x = m
          <6>1. m # NULL
            BY <5>1, BlockFacts DEF Tiled, NULL
          <6> QED BY <1>6, <4>2, <5>1, <6>1
        <5>2. CASE x # m
          BY <4>1, <4>2, <5>2
        <5> QED BY <5>1, <5>2
      <4> QED BY <3>1, <3>2, <4>2, <4>3
    <3> QED BY <3>3, <3>4
  <2>4. b = [x \in DOMAIN b |-> b[x]]
    BY DEF Tiled, Typed
  <2> QED BY <2>2, <2>3, <2>4 DEF d
<1> QED BY <1>8, <1>11, <1>12, <1>13 DEF Tiled

-----------------------------------------------------------------------------
(* What malloc leaves of the list b when it takes n bytes of block a.      *)
CarvedOf(b, a, n, c) ==
  /\ Tiled(c) /\ Merged(c)
  /\ a \in DOMAIN c /\ c[a].used /\ c[a].size \in Nat /\ c[a].size >= n
  /\ \A x : x # a => ((x \in DOMAIN b /\ b[x].used) <=> (x \in DOMAIN c /\ c[x].used))
  /\ \A x \in DOMAIN c : x # a /\ c[x].used => c[x].size = b[x].size
  /\ Cardinality(FreeBytes(b)) <= Cardinality(FreeBytes(c)) + c[a].size + Hdr

(* A block taken whole.                                                    *)
LEMMA TakeWhole ==
  ASSUME HeapAssumption, NEW b, Tiled(b), Merged(b), NEW a \in DOMAIN b, ~ b[a].used,
         NEW n \in Nat, b[a].size >= n, NEW c, c = Mark(b, a, TRUE)
  PROVE  CarvedOf(b, a, n, c)
<1>1. MarkedOf(b, a, TRUE, c) /\ Tiled(c)
  BY MarkBlocks
<1>2. a \in DOMAIN c /\ c[a].used /\ c[a].size = b[a].size /\ b[a].size \in Nat
  BY <1>1, BlockFacts DEF MarkedOf, Tiled
<1>3. Merged(c)
  <2> SUFFICES ASSUME NEW x \in DOMAIN c, ~ c[x].used, c[x].next # NULL PROVE c[c[x].next].used
    BY DEF Merged
  <2>1. x \in DOMAIN b /\ x # a /\ c[x].next = b[x].next /\ ~ b[x].used
    BY <1>1 DEF MarkedOf
  <2>2. b[b[x].next].used /\ c[x].next \in DOMAIN b
    BY <2>1, NextFacts DEF Merged
  <2> QED BY <1>1, <2>1, <2>2, ZenonT(60) DEF MarkedOf
<1>4. Cardinality(FreeBytes(b)) = Cardinality(FreeBytes(c)) + b[a].size
  BY MarkFree
<1>5. Cardinality(FreeBytes(b)) <= Cardinality(FreeBytes(c)) + c[a].size + Hdr
  <2>1. Cardinality(FreeBytes(c)) \in Nat /\ Hdr \in Nat
    BY <1>1, FreeBytesFinite DEF HeapAssumption
  <2>2. \A i, j, k \in Nat : i + j <= i + j + k
    OBVIOUS
  <2>3. Cardinality(FreeBytes(b)) = Cardinality(FreeBytes(c)) + c[a].size /\ c[a].size \in Nat
    BY <1>2, <1>4
  <2> QED BY <2>1, <2>2, <2>3, Zenon
<1>6. \A x : x # a => ((x \in DOMAIN b /\ b[x].used) <=> (x \in DOMAIN c /\ c[x].used))
  BY <1>1 DEF MarkedOf
<1>7. \A x \in DOMAIN c : x # a /\ c[x].used => c[x].size = b[x].size
  BY <1>1 DEF MarkedOf
<1> QED BY <1>1, <1>2, <1>3, <1>5, <1>6, <1>7 DEF CarvedOf

(* A block that is split first.                                            *)
LEMMA TakePart ==
  ASSUME HeapAssumption, NEW b, Tiled(b), Merged(b), NEW a \in DOMAIN b, ~ b[a].used,
         NEW n \in Nat, b[a].size >= n + Hdr, NEW new, new = a + Hdr + n,
         NEW c, c = Mark(Split(b, a, n, new), a, TRUE)
  PROVE  CarvedOf(b, a, n, c)
<1> DEFINE d == Split(b, a, n, new)
<1>1. /\ SplitOf(b, a, n, new, d) /\ Tiled(d) /\ b = AbsorbNext(d, a)
      /\ new \in Nat /\ a < new /\ a \in Nat
  BY SplitBlocks, SplitTiled, BlockFacts DEF Tiled
<1> HIDE DEF d
<1>2. /\ a \in DOMAIN d /\ ~ d[a].used /\ d[a].size = n /\ d[a].next = new /\ new # a
      /\ new \in DOMAIN d /\ ~ d[new].used
  BY <1>1 DEF SplitOf
<1>3. d[a].next # NULL
  BY <1>1, <1>2 DEF NULL
<1>4. Cardinality(FreeBytes(b)) = Cardinality(FreeBytes(d)) + Hdr
  BY <1>1, <1>2, <1>3, AbsorbFree
<1>5. MarkedOf(d, a, TRUE, c) /\ Tiled(c)
  BY <1>1, <1>2, MarkBlocks DEF d
<1>6. Cardinality(FreeBytes(d)) = Cardinality(FreeBytes(c)) + n
  BY <1>1, <1>2, MarkFree DEF d
<1>7. a \in DOMAIN c /\ c[a].used /\ c[a].size = n
  BY <1>2, <1>5 DEF MarkedOf
<1>8. Cardinality(FreeBytes(b)) <= Cardinality(FreeBytes(c)) + c[a].size + Hdr
  <2>1. Cardinality(FreeBytes(c)) \in Nat /\ Hdr \in Nat
    BY <1>5, FreeBytesFinite DEF HeapAssumption
  <2>2. \A i, j, k \in Nat : i + j + k <= i + j + k
    OBVIOUS
  <2>3. Cardinality(FreeBytes(b)) = Cardinality(FreeBytes(c)) + c[a].size + Hdr /\ c[a].size \in Nat
    BY <1>4, <1>6, <1>7
  <2> QED BY <2>1, <2>2, <2>3, Zenon
<1>b. /\ DOMAIN c = DOMAIN b \cup {new} /\ new \notin DOMAIN b
      /\ ~ c[new].used /\ c[new].next = b[a].next
      /\ \A x \in DOMAIN b : x # a => /\ c[x].used = b[x].used /\ c[x].next = b[x].next
                                     /\ c[x].size = b[x].size
  <2>1. /\ DOMAIN d = DOMAIN b \cup {new} /\ new \notin DOMAIN b
        /\ ~ d[new].used /\ d[new].next = b[a].next
        /\ \A x \in DOMAIN b : x # a => /\ d[x].used = b[x].used /\ d[x].next = b[x].next
                                       /\ d[x].size = b[x].size
    BY <1>1 DEF SplitOf
  <2>2. /\ DOMAIN c = DOMAIN d
        /\ \A x \in DOMAIN d : /\ c[x].size = d[x].size /\ c[x].next = d[x].next
                               /\ x # a => c[x].used = d[x].used
    BY <1>5 DEF MarkedOf
  <2>3. DOMAIN c = DOMAIN b \cup {new} /\ new \notin DOMAIN b
    BY <2>1, <2>2
  <2>4. ~ c[new].used /\ c[new].next = b[a].next
    BY <1>2, <2>1, <2>2
  <2>5. ASSUME NEW x \in DOMAIN b, x # a
        PROVE  c[x].used = b[x].used /\ c[x].next = b[x].next /\ c[x].size = b[x].size
    BY <2>1, <2>2, <2>5
  <2> QED BY <2>3, <2>4, <2>5
<1>9. Merged(c)
  <2> SUFFICES ASSUME NEW x \in DOMAIN c, ~ c[x].used, c[x].next # NULL PROVE c[c[x].next].used
    BY DEF Merged
  <2>1. x \in DOMAIN d /\ x # a /\ c[x].next = d[x].next
    BY <1>5 DEF MarkedOf
  <2>2. c[x].next \in DOMAIN c /\ c[x].next # new
    <3>1. c[x].next \in DOMAIN c /\ c[c[x].next].prev = x
      BY <1>5, NextFacts
    <3>2. c[new].prev = a
      BY <1>1, <1>2, <1>5 DEF MarkedOf, SplitOf
    <3> QED BY <2>1, <3>1, <3>2
  <2>3. CASE c[x].next = a
    BY <1>7, <2>3
  <2>4. CASE c[x].next # a
    <3> DEFINE y == c[x].next
    <3>1. y \in DOMAIN b /\ c[y].used = b[y].used
      BY <1>b, <2>2, <2>4
    <3>2. b[y].used
      <4>1. CASE x = new
        BY <1>b, <2>1, <3>1, <4>1 DEF Merged
      <4>2. CASE x # new
        <5>1. x \in DOMAIN b /\ b[x].next = y /\ ~ b[x].used
          BY <1>b, <2>1, <4>2
        <5> QED BY <5>1 DEF Merged
      <4> QED BY <4>1, <4>2
    <3> QED BY <3>1, <3>2
  <2> QED BY <2>3, <2>4
<1>10. \A x : x # a => ((x \in DOMAIN b /\ b[x].used) <=> (x \in DOMAIN c /\ c[x].used))
  BY <1>b
<1>11. \A x \in DOMAIN c : x # a /\ c[x].used => c[x].size = b[x].size
  BY <1>b
<1>12. c[a].size >= n /\ c[a].size \in Nat
  <2>1. n >= n
    OBVIOUS
  <2> QED BY <1>7, <2>1
<1> QED BY <1>5, <1>7, <1>8, <1>9, <1>10, <1>11, <1>12 DEF CarvedOf

(* Carve is one or the other.                                              *)
LEMMA CarveFacts ==
  ASSUME HeapAssumption, Tiled(blocks), Merged(blocks), NEW a \in DOMAIN blocks, ~ blocks[a].used,
         NEW n \in Nat, blocks[a].size >= n
  PROVE  CarvedOf(blocks, a, n, Carve(a, n))
<1>1. CASE ~ WorthSplitting(blocks[a].size, n)
  <2>1. Carve(a, n) = Mark(blocks, a, TRUE)
    BY <1>1, Zenon DEF Carve, Mark
  <2> QED BY <2>1, TakeWhole
<1>2. CASE WorthSplitting(blocks[a].size, n)
  <2> DEFINE new == a + Hdr + n
             d == Split(blocks, a, n, new)
             c == Carve(a, n)
  <2>1. blocks[a].size >= n + Hdr
    BY <1>2, BlockFacts DEF WorthSplitting, HeapAssumption, Tiled
  <2>2. SplitOf(blocks, a, n, new, d) /\ Tiled(d) /\ new \in Nat /\ a < new /\ a \in Nat
    BY <2>1, SplitBlocks, SplitTiled, BlockFacts DEF Tiled
  <2>3. new # a /\ a \in DOMAIN d /\ DOMAIN d = DOMAIN blocks \cup {new}
    BY <2>2 DEF SplitOf
  <2>4. c = [x \in DOMAIN blocks \cup {new} |->
              IF x = new THEN [size |-> blocks[a].size - n - Hdr, used |-> FALSE,
                               next |-> blocks[a].next, prev |-> a]
              ELSE IF x = a THEN [blocks[a] EXCEPT !.size = n, !.next = new, !.used = TRUE]
              ELSE IF x = blocks[a].next THEN [blocks[x] EXCEPT !.prev = new]
              ELSE blocks[x]]
    BY <1>2, Zenon DEF Carve
  <2>5. Mark(d, a, TRUE) = [x \in DOMAIN d |-> IF x = a THEN [d[a] EXCEPT !.used = TRUE] ELSE d[x]]
    BY DEF Mark, Split
  <2>6. [d[a] EXCEPT !.used = TRUE] = [blocks[a] EXCEPT !.size = n, !.next = new, !.used = TRUE]
    <3>1. d[a] = [blocks[a] EXCEPT !.size = n, !.next = new]
      BY <2>3 DEF Split
    <3>2. blocks[a] \in Block
      BY BlockFacts DEF Tiled
    <3> HIDE DEF new, d
    <3>3. ASSUME NEW r \in Block, NEW q, q = [r EXCEPT !.size = n, !.next = new]
          PROVE  [q EXCEPT !.used = TRUE] = [r EXCEPT !.size = n, !.next = new, !.used = TRUE]
      BY <3>3 DEF Block
    <3> QED BY <3>1, <3>2, <3>3
  <2>7. ASSUME NEW x \in DOMAIN d PROVE c[x] = Mark(d, a, TRUE)[x]
    <3>1. CASE x = a
      <4> DEFINE r == [blocks[a] EXCEPT !.size = n, !.next = new, !.used = TRUE]
      <4>1. Mark(d, a, TRUE)[a] = r
        <5> HIDE DEF d, r
        <5> QED BY <2>3, <2>5, <2>6 DEF r
      <4>2. c[a] = r
        <5> HIDE DEF c, new
        <5> QED BY <2>3, <2>4
      <4> QED BY <3>1, <4>1, <4>2
    <3>2. CASE x # a
      <4>1. Mark(d, a, TRUE)[x] = d[x]
        <5> HIDE DEF d
        <5> QED BY <2>5, <3>2
      <4>2. c[x] = d[x]
        <5> HIDE DEF c, new
        <5> QED BY <2>3, <2>4, <3>2 DEF Split
      <4> QED BY <4>1, <4>2
    <3> QED BY <3>1, <3>2
  <2>8. c = Mark(d, a, TRUE)
    <3>1. c = [x \in DOMAIN d |-> c[x]]
      <4> HIDE DEF c, d, new
      <4> QED BY <2>3, <2>4
    <3>2. Mark(d, a, TRUE) = [x \in DOMAIN d |-> Mark(d, a, TRUE)[x]]
      <4> HIDE DEF d
      <4> QED BY <2>5
    <3> HIDE DEF c, d
    <3> QED BY <2>7, <3>1, <3>2
  <2> HIDE DEF c
  <2>9. CarvedOf(blocks, a, n, c)
    BY <2>1, <2>8, TakePart
  <2> QED BY <2>9 DEF c
<1> QED BY <1>1, <1>2

(* A size is rounded up.                                                   *)
LEMMA RoundUpFacts ==
  ASSUME HeapAssumption, NEW n \in Nat \ {0}
  PROVE  RoundUp(n) \in Nat /\ RoundUp(n) >= n
<1> DEFINE x == n + Align - 1
           q == x \div Align
<1>1. Align \in Nat /\ Align > 0 /\ x \in Nat
  BY DEF HeapAssumption
<1>2. q \in Int /\ q * Align <= x /\ x < q * Align + Align
  <2> HIDE DEF x
  <2> QED BY <1>1
<1> HIDE DEF q
<1>3. q * Align \in Int
  BY <1>1, <1>2
<1>4. q * Align >= n
  BY <1>1, <1>2, <1>3
<1>5. RoundUp(n) = q * Align
  BY DEF RoundUp, q
<1> QED BY <1>3, <1>4, <1>5

(* What BestFit finds is a free block that is large enough.                *)
LEMMA BestFitFacts ==
  ASSUME HeapAssumption, Tiled(blocks), NEW n \in Nat, BestFit(n) # NULL
  PROVE  BestFit(n) \in DOMAIN blocks /\ ~ blocks[BestFit(n)].used /\ blocks[BestFit(n)].size >= n
<1> DEFINE fits == {a \in DOMAIN blocks : ~ blocks[a].used /\ blocks[a].size >= n}
           best == {a \in fits : \A c \in fits : blocks[a].size <= blocks[c].size}
           sizes == {blocks[a].size : a \in fits}
<1>0. \A a \in DOMAIN blocks : a \in Nat /\ blocks[a].size \in Nat
  BY BlockFacts DEF Tiled
<1>1. fits # {} /\ BestFit(n) = Min(best)
  <2>1. BestFit(n) = IF fits = {} THEN NULL ELSE Min(best)
    BY DEF BestFit
  <2> HIDE DEF fits, best
  <2> QED BY <2>1
<1>2. best # {}
  <2>1. sizes \in SUBSET Nat /\ sizes # {}
    BY <1>0, <1>1
  <2>2. PICK k \in sizes : \A j \in sizes : k <= j
    <3> HIDE DEF sizes
    <3> QED BY <2>1, MinExists
  <2>3. PICK a \in fits : blocks[a].size = k
    OBVIOUS
  <2>4. \A c \in fits : k <= blocks[c].size
    BY <2>2
  <2>5. a \in best
    BY <2>3, <2>4
  <2> QED BY <2>5
<1>3. Min(best) \in best
  <2>1. best \in SUBSET Nat
    BY <1>0
  <2> HIDE DEF best
  <2>2. \E k \in best : \A j \in best : k <= j
    BY <1>2, <2>1, MinExists
  <2> QED BY <2>2 DEF Min
<1> QED BY <1>1, <1>3

-----------------------------------------------------------------------------
(* At boot the heap is one free block.                                     *)
LEMMA InitInv ==
  ASSUME HeapAssumption, HeapInit
  PROVE  HeapInv
<1>1. blocks = [a \in {Start} |-> [size |-> HeapSize, used |-> FALSE, next |-> NULL, prev |-> NULL]]
      /\ used_heap = 0 /\ payloads = {}
  BY DEF HeapInit, klime_init
<1>2. /\ Start = 1 /\ NULL = 0 /\ HeapEnd = 1 + Hdr + HeapSize
      /\ HeapSize \in Nat /\ HeapSize # 0 /\ Hdr \in Nat /\ Hdr # 0
  BY DEF Start, NULL, HeapEnd, HeapAssumption
<1>3. /\ DOMAIN blocks = {Start} /\ blocks[Start].size = HeapSize /\ ~ blocks[Start].used
      /\ blocks[Start].next = NULL /\ blocks[Start].prev = NULL
  BY <1>1
<1>4. Typed(blocks)
  <2>1. [size |-> HeapSize, used |-> FALSE, next |-> NULL, prev |-> NULL] \in Block
    BY <1>2 DEF Block
  <2>2. blocks \in [{Start} -> Block]
    BY <1>1, <2>1
  <2>3. IsFiniteSet({Start})
    BY FS_Singleton
  <2> QED BY <1>2, <1>3, <2>2, <2>3 DEF Typed
<1>5. End(blocks, Start) = HeapEnd
  BY <1>2, <1>3 DEF End
<1>6. Linked(blocks) /\ InOrder(blocks)
  BY <1>2, <1>3, <1>5 DEF Linked, InOrder
<1>7. Merged(blocks) /\ Holding(blocks, payloads) /\ payloads \subseteq Nat \X Nat
  BY <1>1, <1>3 DEF Merged, Holding
<1>8. HeapSize - used_heap <= Cardinality(FreeBytes(blocks))
  <2> DEFINE l == Start + Hdr
  <2>1. l \in Nat /\ {} \cup (l .. l + HeapSize - 1) = l .. l + HeapSize - 1
    BY <1>2
  <2>2. Cardinality({} \cup (l .. l + HeapSize - 1)) = Cardinality({}) + HeapSize
    <3> HIDE DEF l
    <3> QED BY <1>2, <2>1, MoreBytes, FS_EmptySet
  <2>3. FreeBytes(blocks) = l .. l + HeapSize - 1
    <3>1. {x \in DOMAIN blocks : ~ blocks[x].used} = {Start}
      BY <1>3
    <3>2. FreeBytes(blocks)
            = UNION {a + Hdr .. a + Hdr + blocks[a].size - 1 : a \in {Start}}
      BY <3>1 DEF FreeBytes
    <3>3. UNION {a + Hdr .. a + Hdr + blocks[a].size - 1 : a \in {Start}}
            = Start + Hdr .. Start + Hdr + blocks[Start].size - 1
      <4> DEFINE P(a) == a + Hdr .. a + Hdr + blocks[a].size - 1
      <4>1. UNION {P(a) : a \in {Start}} = P(Start)
        <5> HIDE DEF P
        <5> QED OBVIOUS
      <4> QED BY <4>1
    <3> QED BY <1>3, <3>2, <3>3
  <2>4. Cardinality(FreeBytes(blocks)) = HeapSize
    <3> HIDE DEF l
    <3>1. Cardinality({}) = 0
      BY FS_EmptySet
    <3>2. 0 + HeapSize = HeapSize
      BY <1>2
    <3> QED BY <2>1, <2>2, <2>3, <3>1, <3>2
  <2> QED BY <1>1, <1>2, <2>4
<1> QED BY <1>1, <1>4, <1>6, <1>7, <1>8 DEF HeapInv, Tiled

(* An allocation keeps the heap in order.                                  *)
LEMMA CreateInv ==
  ASSUME HeapAssumption, HeapInv, NEW size \in Sizes, klime_create(size)
  PROVE  HeapInv'
<1> DEFINE n == RoundUp(size)
           a == BestFit(n)
           c == Carve(a, n)
<1>1. size \in Nat \ {0} /\ n \in Nat /\ n >= size
  <2>1. size \in Nat \ {0}
    BY DEF klime_create, HeapAssumption
  <2> QED BY <2>1, RoundUpFacts
<1>2. a # NULL /\ blocks' = c /\ used_heap' = used_heap + blocks'[a].size + Hdr
      /\ payloads' = payloads \cup {<<a + Hdr, size>>}
  BY DEF klime_create
<1> HIDE DEF n
<1>3. a \in DOMAIN blocks /\ ~ blocks[a].used /\ blocks[a].size >= n
  BY <1>1, <1>2, BestFitFacts DEF HeapInv
<1> HIDE DEF a
<1>4. CarvedOf(blocks, a, n, c) /\ Tiled(blocks) /\ a \in Nat /\ Hdr \in Nat
  BY <1>1, <1>3, CarveFacts, BlockFacts DEF HeapInv, Tiled, HeapAssumption
<1> HIDE DEF c
<1>5. payloads' \subseteq Nat \X Nat
  <2>1. a + Hdr \in Nat /\ size \in Nat
    BY <1>1, <1>4
  <2> QED BY <1>2, <2>1 DEF HeapInv
<1>6. Holding(c, payloads')
  <2>1. ASSUME NEW h \in payloads
        PROVE  /\ h[1] - Hdr \in DOMAIN c /\ c[h[1] - Hdr].used /\ c[h[1] - Hdr].size >= h[2]
               /\ h[1] # a + Hdr
    <3>1. h[1] - Hdr \in DOMAIN blocks /\ blocks[h[1] - Hdr].used /\ blocks[h[1] - Hdr].size >= h[2]
      BY DEF HeapInv, Holding
    <3>2. h[1] - Hdr # a
      BY <1>3, <3>1
    <3>3. h[1] - Hdr \in DOMAIN c /\ c[h[1] - Hdr].used /\ c[h[1] - Hdr].size >= h[2]
      BY <1>4, <3>1, <3>2 DEF CarvedOf
    <3>4. h[1] # a + Hdr
      BY <1>4, <3>2
    <3> QED BY <3>3, <3>4
  <2> DEFINE new == <<a + Hdr, size>>
  <2>2. new[1] = a + Hdr /\ new[2] = size /\ payloads' = payloads \cup {new}
    BY <1>2
  <2> HIDE DEF new
  <2>3. new[1] - Hdr = a
    BY <1>4, <2>2
  <2>4. c[a].size >= size
    BY <1>1, <1>4 DEF CarvedOf
  <2>5. \A h \in payloads' : h[1] - Hdr \in DOMAIN c /\ c[h[1] - Hdr].used /\ c[h[1] - Hdr].size >= h[2]
    <3>1. new[1] - Hdr \in DOMAIN c /\ c[new[1] - Hdr].used /\ c[new[1] - Hdr].size >= new[2]
      BY <1>4, <2>2, <2>3, <2>4 DEF CarvedOf
    <3> QED BY <2>1, <2>2, <3>1
  <2>6. \A x \in DOMAIN c : c[x].used => \E h \in payloads' : h[1] = x + Hdr
    <3> SUFFICES ASSUME NEW x \in DOMAIN c, c[x].used PROVE \E h \in payloads' : h[1] = x + Hdr
      OBVIOUS
    <3>1. CASE x = a
      BY <2>2, <3>1
    <3>2. CASE x # a
      <4>1. x \in DOMAIN blocks /\ blocks[x].used
        BY <1>4, <3>2 DEF CarvedOf
      <4> QED BY <2>2, <4>1 DEF HeapInv, Holding
    <3> QED BY <3>1, <3>2
  <2>7. \A h, k \in payloads' : h[1] = k[1] => h = k
    <3>1. \A h, k \in payloads : h[1] = k[1] => h = k
      BY DEF HeapInv, Holding
    <3> QED BY <2>1, <2>2, <3>1
  <2> QED BY <2>5, <2>6, <2>7 DEF Holding
<1>7. used_heap' \in Int /\ HeapSize - used_heap' <= Cardinality(FreeBytes(c))
  <2> DEFINE s == c[a].size
             f == Cardinality(FreeBytes(blocks))
             g == Cardinality(FreeBytes(c))
  <2>1. s \in Nat /\ f <= g + s + Hdr /\ f \in Nat /\ g \in Nat
    BY <1>4, FreeBytesFinite DEF CarvedOf
  <2>2. used_heap \in Int /\ HeapSize - used_heap <= f /\ HeapSize \in Nat
    BY DEF HeapInv, HeapAssumption
  <2>3. used_heap' = used_heap + s + Hdr
    BY <1>2
  <2> HIDE DEF s, f, g
  <2>4. used_heap' \in Int /\ HeapSize - used_heap' <= g
    BY <1>4, <2>1, <2>2, <2>3
  <2> QED BY <2>4 DEF g
<1>8. Tiled(c) /\ Merged(c)
  BY <1>4 DEF CarvedOf
<1> QED BY <1>2, <1>5, <1>6, <1>7, <1>8 DEF HeapInv

(* A free keeps the heap in order.                                         *)
LEMMA FreeInv ==
  ASSUME HeapAssumption, HeapInv, NEW h \in payloads, klime_free(h)
  PROVE  HeapInv'
<1> DEFINE a == h[1] - Hdr
           b == Mark(blocks, a, FALSE)
           c == heap_merge_free_blocks(b, a)
           merged == Cardinality(DOMAIN blocks) - Cardinality(DOMAIN blocks')
<1>1. /\ blocks' = c /\ payloads' = payloads \ {h}
      /\ used_heap' = used_heap - (blocks[a].size + Hdr * merged)
  BY DEF klime_free, FreeCharge, Mark
<1>2. Tiled(blocks) /\ Merged(blocks) /\ Holding(blocks, payloads) /\ payloads \subseteq Nat \X Nat
      /\ Hdr \in Nat
  BY DEF HeapInv, HeapAssumption
<1>3. a \in DOMAIN blocks /\ blocks[a].used /\ blocks[a].size \in Nat
  BY <1>2, BlockFacts DEF Holding, Tiled
<1>4. MarkedOf(blocks, a, FALSE, b) /\ Tiled(b)
  BY <1>2, <1>3, MarkBlocks
<1>5. blocks = Mark(b, a, TRUE)
  <2>1. blocks \in [DOMAIN blocks -> Block] /\ blocks[a] \in Block
    BY <1>2, <1>3, BlockFacts DEF Tiled, Typed
  <2>2. ASSUME NEW r \in Block, r.used PROVE [[r EXCEPT !.used = FALSE] EXCEPT !.used = TRUE] = r
    BY <2>2 DEF Block
  <2>3. b[a] = [blocks[a] EXCEPT !.used = FALSE] /\ \A x \in DOMAIN blocks : x # a => b[x] = blocks[x]
    BY <1>3, <2>1 DEF Mark
  <2>4. Mark(b, a, TRUE) = [x \in DOMAIN blocks |-> IF x = a THEN [b[a] EXCEPT !.used = TRUE] ELSE b[x]]
    BY <1>4 DEF Mark, MarkedOf
  <2>5. [b[a] EXCEPT !.used = TRUE] = blocks[a]
    <3> HIDE DEF a, b
    <3> QED BY <1>3, <2>1, <2>2, <2>3
  <2>6. blocks = [x \in DOMAIN blocks |-> blocks[x]]
    BY <2>1
  <2> HIDE DEF a, b
  <2> QED BY <2>3, <2>4, <2>5, <2>6, ZenonT(60)
<1> HIDE DEF b
<1>6. Cardinality(FreeBytes(b)) = Cardinality(FreeBytes(blocks)) + blocks[a].size
      /\ a \in DOMAIN b /\ ~ b[a].used
  <2>1. a \in DOMAIN b /\ ~ b[a].used /\ b[a].size = blocks[a].size
    BY <1>3, <1>4 DEF MarkedOf
  <2>2. Cardinality(FreeBytes(b)) = Cardinality(FreeBytes(blocks)) + b[a].size
    BY <1>4, <1>5, <2>1, MarkFree
  <2> QED BY <2>1, <2>2
<1>7. MergedBut(b, a)
  <2> SUFFICES ASSUME NEW x \in DOMAIN b, ~ b[x].used, b[x].next # NULL, x # a, b[x].next # a
               PROVE  b[b[x].next].used
    BY DEF MergedBut
  <2>1. x \in DOMAIN blocks /\ ~ blocks[x].used /\ blocks[x].next = b[x].next
    BY <1>4 DEF MarkedOf
  <2>2. blocks[b[x].next].used /\ b[x].next \in DOMAIN blocks
    BY <1>2, <2>1, NextFacts DEF Merged
  <2> QED BY <1>4, <2>2 DEF MarkedOf
<1>8. PICK k \in Nat : Tiled(c) /\ Merged(c) /\ Joined(b, c, k)
  BY <1>4, <1>6, <1>7, MergeAll
<1> HIDE DEF c
<1>9. Holding(c, payloads')
  <2>1. \A x : (x \in DOMAIN c /\ c[x].used) <=> (x # a /\ x \in DOMAIN blocks /\ blocks[x].used)
    BY <1>4, <1>6, <1>8 DEF Joined, MarkedOf
  <2>2. \A x \in DOMAIN c : c[x].used => c[x].size = blocks[x].size
    <3> SUFFICES ASSUME NEW x \in DOMAIN c, c[x].used PROVE c[x].size = blocks[x].size
      OBVIOUS
    <3>1. c[x].size = b[x].size /\ x \in DOMAIN blocks
      BY <1>8, <2>1 DEF Joined
    <3> QED BY <1>4, <3>1 DEF MarkedOf
  <2>3. ASSUME NEW g \in payloads'
        PROVE  g[1] - Hdr \in DOMAIN c /\ c[g[1] - Hdr].used /\ c[g[1] - Hdr].size >= g[2]
    <3>1. g \in payloads /\ g # h /\ g[1] \in Nat /\ h[1] \in Nat
      BY <1>1, <1>2
    <3>2. g[1] # h[1]
      BY <1>2, <3>1 DEF Holding
    <3>3. g[1] - Hdr # a
      BY <1>2, <3>1, <3>2
    <3>4. g[1] - Hdr \in DOMAIN blocks /\ blocks[g[1] - Hdr].used /\ blocks[g[1] - Hdr].size >= g[2]
      BY <1>2, <3>1 DEF Holding
    <3>5. g[1] - Hdr \in DOMAIN c /\ c[g[1] - Hdr].used
      BY <2>1, <3>3, <3>4
    <3> QED BY <2>2, <3>4, <3>5
  <2>4. ASSUME NEW x \in DOMAIN c, c[x].used PROVE \E g \in payloads' : g[1] = x + Hdr
    <3>1. x # a /\ x \in DOMAIN blocks /\ blocks[x].used
      BY <2>1, <2>4
    <3>2. PICK g \in payloads : g[1] = x + Hdr
      BY <1>2, <3>1 DEF Holding
    <3>3. x \in Nat /\ h[1] \in Nat
      BY <1>2, <3>1, BlockFacts DEF Tiled
    <3>4. g # h
      BY <1>2, <3>1, <3>2, <3>3
    <3> QED BY <1>1, <3>2, <3>4
  <2>5. \A f, g \in payloads' : f[1] = g[1] => f = g
    BY <1>1, <1>2 DEF Holding
  <2> QED BY <2>3, <2>4, <2>5 DEF Holding
<1>10. used_heap' \in Int /\ HeapSize - used_heap' <= Cardinality(FreeBytes(c))
  <2> DEFINE s == blocks[a].size
             f == Cardinality(FreeBytes(blocks))
             g == Cardinality(FreeBytes(c))
  <2>1. merged = k
    <3>1. DOMAIN b = DOMAIN blocks /\ Cardinality(DOMAIN b) = Cardinality(DOMAIN c) + k
      BY <1>4, <1>8 DEF MarkedOf, Joined
    <3>2. Cardinality(DOMAIN c) \in Nat
      BY <1>8, ListSize
    <3> QED BY <1>1, <3>1, <3>2
  <2>2. k * Hdr \in Nat /\ Hdr * k = k * Hdr
    BY <1>2
  <2>3. g = (f + s) + k * Hdr
    BY <1>6, <1>8 DEF Joined
  <2>4. s \in Nat /\ f \in Nat /\ HeapSize \in Nat
    BY <1>2, <1>3, FreeBytesFinite DEF HeapAssumption
  <2>5. used_heap \in Int /\ HeapSize - used_heap <= f
    BY DEF HeapInv
  <2> DEFINE kh == k * Hdr
  <2>6. used_heap' = used_heap - (s + kh)
    <3>1. used_heap' = used_heap - (s + Hdr * merged)
      BY <1>1
    <3>2. Hdr * merged = kh
      <4> HIDE DEF merged
      <4> QED BY <2>1, <2>2
    <3> HIDE DEF kh, merged, s
    <3> QED BY <3>1, <3>2
  <2> HIDE DEF s, f, g, kh
  <2>7. used_heap' \in Int /\ HeapSize - used_heap' <= g
    <3>1. kh \in Nat /\ g = f + s + kh
      BY <2>2, <2>3 DEF kh
    <3> QED BY <2>4, <2>5, <2>6, <3>1
  <2> QED BY <2>7 DEF g
<1>11. payloads' \subseteq Nat \X Nat
  BY <1>1, <1>2
<1> QED BY <1>1, <1>8, <1>9, <1>10, <1>11 DEF HeapInv

(* The inductive invariant says what the run checks.                       *)
LEMMA InvConsistent ==
  ASSUME HeapAssumption, HeapInv
  PROVE  HeapConsistent
<1>1. ListTilesHeap
  <2>1. Start \in DOMAIN blocks /\ blocks[Start].prev = NULL
    BY DEF HeapInv, Tiled, Linked
  <2>2. ASSUME NEW a \in DOMAIN blocks
        PROVE  /\ blocks[a].size >= 0
               /\ IF blocks[a].next = NULL THEN a + Hdr + blocks[a].size = HeapEnd
                  ELSE /\ blocks[a].next = a + Hdr + blocks[a].size
                       /\ blocks[a].next \in DOMAIN blocks
                       /\ blocks[blocks[a].next].prev = a
    <3>1. blocks[a].size >= 0
      BY BlockFacts DEF HeapInv, Tiled
    <3>2. blocks[a].next = NULL => a + Hdr + blocks[a].size = HeapEnd
      BY DEF HeapInv, Tiled, Linked, End
    <3>3. blocks[a].next # NULL => /\ blocks[a].next = a + Hdr + blocks[a].size
                                   /\ blocks[a].next \in DOMAIN blocks
                                   /\ blocks[blocks[a].next].prev = a
      BY DEF HeapInv, Tiled, Linked, End
    <3> QED BY <3>1, <3>2, <3>3
  <2> QED BY <2>1, <2>2 DEF ListTilesHeap
<1>2. FreeBlocksMerged
  BY DEF HeapInv, Merged, FreeBlocksMerged
<1>3. HeldBlocksUsed
  BY DEF HeapInv, Holding, HeldBlocksUsed
<1>4. CountCoversUse
  <2>1. Cardinality(FreeBytes(blocks)) \in Nat /\ Cardinality(FreeBytes(blocks)) <= HeapSize
        /\ HeapSize \in Nat
    BY FreeBytesFinite DEF HeapInv, HeapAssumption
  <2>2. used_heap \in Int /\ HeapSize - used_heap <= Cardinality(FreeBytes(blocks))
    BY DEF HeapInv
  <2>3. used_heap <= HeapSize => klime_get_free_size = HeapSize - used_heap
    <3> DEFINE left == HeapSize - used_heap
    <3>1. used_heap >= 0 /\ U64 \in Nat /\ U64 > HeapSize
      BY <2>1, <2>2 DEF HeapAssumption
    <3>2. used_heap <= HeapSize => left \in 0 .. U64 - 1
      BY <2>1, <2>2, <3>1
    <3>3. left \in 0 .. U64 - 1 => left % U64 = left
      <4> HIDE DEF left
      <4> QED BY <3>1
    <3> QED BY <3>2, <3>3 DEF klime_get_free_size
  <2> QED BY <2>1, <2>2, <2>3 DEF CountCoversUse
<1> QED BY <1>1, <1>2, <1>3, <1>4 DEF HeapConsistent

(* Whatever is allocated and freed, in whatever order: the list tiles the  *)
(* heap and is linked both ways, no two free blocks are neighbours, the    *)
(* used blocks are the callers' and large enough, and klime's count of the *)
(* bytes in use is never below what is really in use.                      *)
THEOREM HeapStaysConsistent ==
  ASSUME HeapAssumption
  PROVE  HeapSpec => []HeapConsistent
<1>1. HeapInit => HeapInv
  BY InitInv
<1>2. HeapInv /\ [HeapNext]_heapVars => HeapInv'
  <2> SUFFICES ASSUME HeapInv, [HeapNext]_heapVars PROVE HeapInv'
    OBVIOUS
  <2>1. ASSUME NEW size \in Sizes, klime_create(size) PROVE HeapInv'
    BY <2>1, CreateInv
  <2>2. ASSUME NEW h \in payloads, klime_free(h) PROVE HeapInv'
    BY <2>2, FreeInv
  <2>3. CASE UNCHANGED heapVars
    BY <2>3 DEF heapVars, HeapInv
  <2> QED BY <2>1, <2>2, <2>3 DEF HeapNext
<1>3. HeapInv => HeapConsistent
  BY InvConsistent
<1> QED BY <1>1, <1>2, <1>3, PTL DEF HeapSpec

=============================================================================
