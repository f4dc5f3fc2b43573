---------------------------- MODULE MemoryProofs ----------------------------
(***************************************************************************)
(* Proofs about memory.                                                    *)
(*                                                                         *)
(* Physmem, for every memory map, machine size and allocation pattern:     *)
(* the two tables of the page-frame allocator agree, every run handed out  *)
(* has one owner, and the calls are those of FrameAllocator.               *)
(*                                                                         *)
(* ProcessMemory, for any sizes of processes and memory and any order of   *)
(* creations, failures, forks and exits: every frame in use has one owner, *)
(* and a living process reaches its own frames only.                       *)
(*                                                                         *)
(* SharedMemory, for any number of processes, slots, frames and pages:     *)
(* reference counts, mappings and free frames of the shared regions agree. *)
(* mmap creates a region and attaches it in one step, so the invariant is  *)
(* stated of a table, the next free page, the free frames and the page     *)
(* tables, and the lemmas say what creating, attaching and detaching each  *)
(* do to it.                                                               *)
(*                                                                         *)
(* Paging, for any number of levels, indices, frames and processes: every  *)
(* table has an address, the space, the depth and the indices that lead to *)
(* it; no two have the same, so writing the entry of one page moves no     *)
(* other, and what is asked is what the processor finds.                   *)
(***************************************************************************)
EXTENDS Physmem, ProcessMemory, SharedMemory, Paging, SetLemmas

(* The inductive invariant: exclusive ownership is inductive only with the *)
(* fact that held runs are marked, since the search looks at bits alone.   *)
PhysInv == PhysTypeOK /\ TablesAgree /\ HeldMarked /\ HeldRunsDisjoint

(* Clipping a run that ends below physmem_total removes nothing.           *)
LEMMA ClipIsRun ==
  ASSUME PhysTypeOK, NEW s \in Nat, NEW n \in Nat, s + n <= total
  PROVE  Clip(s, n) = Run(s, n)
  BY PhysmemAssumption DEF Clip, Run, PhysTypeOK, Frames

(* What a written record says of its frame, and that it is a written one.  *)
LEMMA RecordFacts ==
  /\ FrameFree.rc = 0 /\ FrameUsed.rc = 1 /\ FrameKernel.rc = 1
  /\ FrameUntouched \notin {FrameFree, FrameUsed, FrameKernel}
<1>1. FrameFree.rc = 0 /\ FrameUsed.rc = 1 /\ FrameKernel.rc = 1
  BY DEF FrameFree, FrameUsed, FrameKernel
<1>2. /\ FrameFree.flags = {"FREE"} /\ FrameUsed.flags = {"USED"}
      /\ FrameKernel.flags = {"USED", "KERNEL"} /\ FrameUntouched.flags = {"UNTOUCHED"}
  BY DEF FrameFree, FrameUsed, FrameKernel, FrameUntouched
<1>3. "UNTOUCHED" \notin {"FREE"} /\ "UNTOUCHED" \notin {"USED"} /\ "UNTOUCHED" \notin {"USED", "KERNEL"}
  OBVIOUS
<1>4. "UNTOUCHED" \in FrameUntouched.flags
  BY <1>2
<1>5. /\ "UNTOUCHED" \notin FrameFree.flags /\ "UNTOUCHED" \notin FrameUsed.flags
      /\ "UNTOUCHED" \notin FrameKernel.flags
  BY <1>2, <1>3
<1> QED BY <1>1, <1>4, <1>5

(* Every memory map leaves the allocator sound after physmem_init.         *)
LEMMA InitIInv == PhysInit => PhysInv
<1> SUFFICES ASSUME PhysInit PROVE PhysInv
  OBVIOUS
<1> PICK mm \in MemMaps : physmem_init(mm)
  BY DEF PhysInit
<1>1. total \in 0 .. NFrames
  BY MemMapAssumption DEF physmem_init
<1>2. held = {} /\ ret = <<0, 0>>
  BY DEF PhysInit
<1>3. bitmap \subseteq Frames /\ pageframes \in [Frames -> {FrameFree, FrameUsed, FrameKernel, FrameUntouched}]
  BY DEF physmem_init
<1>4. PhysTypeOK
  BY <1>1, <1>2, <1>3, PhysmemAssumption DEF PhysTypeOK
<1>5. TablesAgree
  <2> DEFINE track == Run(physmem_addr_get_tracking(mm), TrackFrames)
             freed == physmem_addr_mark(mm)
             named == {f \in Frames : f < TotalOf(mm) /\ f \in Covered(mm, Kinds)}
  <2>1. bitmap = Frames \ (freed \ track)
    BY DEF physmem_init
  <2>2. pageframes = [f \in Frames |-> IF f \in track THEN FrameUsed
                        ELSE IF f \in freed THEN FrameFree
                        ELSE IF f \in named THEN FrameKernel ELSE FrameUntouched]
    BY DEF physmem_init
  <2> HIDE DEF track, freed, named
  <2> QED BY <2>1, <2>2, RecordFacts DEF TablesAgree
<1> QED BY <1>2, <1>4, <1>5 DEF PhysInv, HeldMarked, HeldRunsDisjoint

(* The run first-fit picks is disjoint from every held run.                *)
LEMMA AllocIInv ==
  ASSUME PhysInv, NEW n \in 0 .. MaxCount, physmem_alloc_to(n)
  PROVE  PhysInv'
<1> USE PhysmemAssumption
<1> PICK start \in Frames :
      /\ n > 0 /\ FirstFit(start, n) /\ physmem_addr_mark_used(start, n)
      /\ held' = held \cup {<<start, n>>} /\ ret' = <<n, start>> /\ total' = total
  BY DEF physmem_alloc_to
<1>1. Fits(start, n)
  BY DEF FirstFit
<1>2. start \in Nat /\ n \in Nat /\ start + n <= total /\ start >= StartSearch
  BY <1>1 DEF Fits, Frames
<1>3. Clip(start, n) = Run(start, n)
  BY <1>2, ClipIsRun DEF PhysInv
<1>4. bitmap' = bitmap \cup Run(start, n)
  BY <1>3 DEF physmem_addr_mark_used
<1>5. pageframes' = [f \in Frames |-> IF f \in Run(start, n) THEN FrameUsed ELSE pageframes[f]]
  BY <1>3 DEF physmem_addr_mark_used
<1>6. Run(start, n) \cap bitmap = {}
  BY <1>1 DEF Fits
<1>7. PhysTypeOK'
  <2>1. bitmap' \subseteq Frames
    BY <1>4 DEF PhysInv, PhysTypeOK, Run
  <2>2. pageframes' \in [Frames -> {FrameFree, FrameUsed, FrameKernel, FrameUntouched}]
    BY <1>5 DEF PhysInv, PhysTypeOK
  <2>3. held' \subseteq Frames \X (1 .. MaxCount)
    <3>1. <<start, n>> \in Frames \X (1 .. MaxCount)
      BY <1>2
    <3> QED BY <3>1 DEF PhysInv, PhysTypeOK
  <2>4. ret' \in (0 .. MaxCount) \X (Frames \cup {0})
    OBVIOUS
  <2> QED BY <2>1, <2>2, <2>3, <2>4 DEF PhysInv, PhysTypeOK
<1>8. TablesAgree'
  BY <1>4, <1>5, RecordFacts DEF PhysInv, PhysTypeOK, TablesAgree, Run
<1>9. HeldMarked'
  BY <1>2, <1>4 DEF PhysInv, HeldMarked
<1>10. HeldRunsDisjoint'
  <2> SUFFICES ASSUME NEW r \in held', NEW q \in held', r # q
               PROVE  Run(r[1], r[2]) \cap Run(q[1], q[2]) = {}
    BY DEF HeldRunsDisjoint
  <2>1. CASE r \in held /\ q \in held
    BY <2>1 DEF PhysInv, HeldRunsDisjoint
  <2>2. CASE r = <<start, n>> /\ q \in held
    BY <1>6, <2>2 DEF PhysInv, HeldMarked
  <2>3. CASE q = <<start, n>> /\ r \in held
    BY <1>6, <2>3 DEF PhysInv, HeldMarked
  <2> QED BY <2>1, <2>2, <2>3
<1> QED BY <1>7, <1>8, <1>9, <1>10 DEF PhysInv

(* A run given back takes no bit of another held run with it.              *)
LEMMA FreeIInv ==
  ASSUME PhysInv, NEW r \in held, physmem_free_to(r)
  PROVE  PhysInv'
<1> USE PhysmemAssumption
<1>1. r[1] \in Nat /\ r[2] \in Nat /\ r[1] + r[2] <= total
  BY DEF PhysInv, PhysTypeOK, HeldMarked, Frames
<1>2. Clip(r[1], r[2]) = Run(r[1], r[2])
  BY <1>1, ClipIsRun DEF PhysInv
<1>3. /\ bitmap' = bitmap \ Run(r[1], r[2])
      /\ pageframes' = [f \in Frames |->
           IF f \in Run(r[1], r[2]) THEN FrameFree ELSE pageframes[f]]
  BY <1>2 DEF physmem_free_to, physmem_addr_mark_free
<1>4. held' = held \ {r} /\ total' = total /\ ret' = ret
  BY DEF physmem_free_to
<1>5. PhysTypeOK'
  BY <1>3, <1>4 DEF PhysInv, PhysTypeOK
<1>6. TablesAgree'
  BY <1>3, RecordFacts DEF PhysInv, PhysTypeOK, TablesAgree
<1>7. HeldMarked'
  <2> SUFFICES ASSUME NEW q \in held'
               PROVE  /\ q[1] >= StartSearch /\ q[1] + q[2] <= total
                      /\ Run(q[1], q[2]) \subseteq bitmap'
    BY <1>4 DEF HeldMarked
  <2>1. q \in held /\ q # r
    BY <1>4
  <2>2. Run(q[1], q[2]) \cap Run(r[1], r[2]) = {}
    BY <2>1 DEF PhysInv, HeldRunsDisjoint
  <2> QED BY <1>3, <2>1, <2>2 DEF PhysInv, HeldMarked
<1>8. HeldRunsDisjoint'
  BY <1>4 DEF PhysInv, HeldRunsDisjoint
<1> QED BY <1>5, <1>6, <1>7, <1>8 DEF PhysInv

(* Granting, refusing and giving back runs keep the allocator sound.       *)
LEMMA NextIInv == PhysInv /\ [PhysNext]_physVars => PhysInv'
<1> SUFFICES ASSUME PhysInv, [PhysNext]_physVars PROVE PhysInv'
  OBVIOUS
<1>1. ASSUME NEW n \in 0 .. MaxCount, physmem_alloc_to(n) PROVE PhysInv'
  BY <1>1, AllocIInv
<1>2. ASSUME NEW n \in 0 .. MaxCount, physmem_alloc_fail(n) PROVE PhysInv'
  BY <1>2 DEF physmem_alloc_fail, PhysInv, PhysTypeOK, TablesAgree, HeldMarked, HeldRunsDisjoint
<1>3. ASSUME NEW r \in held, physmem_free_to(r) PROVE PhysInv'
  BY <1>3, FreeIInv
<1>4. CASE UNCHANGED physVars
  BY <1>4 DEF physVars, PhysInv, PhysTypeOK, TablesAgree, HeldMarked, HeldRunsDisjoint
<1> QED BY <1>1, <1>2, <1>3, <1>4 DEF PhysNext

(* Type correctness of the page-frame allocator (physmem.c).               *)
THEOREM PhysmemTypeCorrect == PhysSpec => []PhysTypeOK
<1>1. PhysInv => PhysTypeOK
  BY DEF PhysInv
<1> QED BY <1>1, InitIInv, NextIInv, PTL DEF PhysSpec

(* However callers allocate and free, no frame has two owners              *)
(* (physmem_alloc_to and physmem_free_to, physmem.c:236-282).              *)
THEOREM PhysmemExclusive == PhysSpec => []HeldRunsDisjoint
<1>1. PhysInv => HeldRunsDisjoint
  BY DEF PhysInv
<1> QED BY <1>1, InitIInv, NextIInv, PTL DEF PhysSpec

(* Every frame of a held run is marked in the bitmap, and bitmap and       *)
(* page-frame table agree (physmem.c:87-125).                              *)
THEOREM PhysmemMarked == PhysSpec => [](HeldMarked /\ TablesAgree)
<1>1. PhysInv => HeldMarked /\ TablesAgree
  BY DEF PhysInv
<1> QED BY <1>1, InitIInv, NextIInv, PTL DEF PhysSpec

(* What the boot took stays taken: a bit that is cleared belonged to        *)
(* a run somebody gives back (physmem_free_to, physmem.c:266-282).          *)
THEOREM PhysmemBootFramesStay == PhysSpec => BootFramesStay
<1> DEFINE Kept == \A f \in Frames : f \in bitmap /\ f \notin bitmap' =>
                     \E r \in held : f \in Run(r[1], r[2])
<1>1. ASSUME PhysInv, [PhysNext]_physVars PROVE Kept
  <2>1. ASSUME NEW n \in 0 .. MaxCount, physmem_alloc_to(n) PROVE Kept
    BY <2>1 DEF physmem_alloc_to, physmem_addr_mark_used
  <2>2. ASSUME NEW n \in 0 .. MaxCount, physmem_alloc_fail(n) PROVE Kept
    BY <2>2 DEF physmem_alloc_fail
  <2>3. ASSUME NEW r \in held, physmem_free_to(r) PROVE Kept
    BY <2>3 DEF physmem_free_to, physmem_addr_mark_free, Clip
  <2>4. CASE UNCHANGED physVars
    BY <2>4 DEF physVars
  <2> QED BY <1>1, <2>1, <2>2, <2>3, <2>4 DEF PhysNext
<1>2. PhysInv /\ [PhysNext]_physVars => [Kept]_physVars
  BY <1>1
<1> QED BY <1>2, InitIInv, NextIInv, PTL DEF PhysSpec, BootFramesStay

-----------------------------------------------------------------------------
(* The refinement: first fit over the bitmap is one way to keep the promise *)
(* of FrameAllocator.  Its free frames are the clear bits that the search    *)
(* looks at.                                                                *)
FreeFrames == {f \in Frames : f >= StartSearch /\ f < total /\ f \notin bitmap}

(* A run is, in the abstract allocator, the set of its frames.             *)
LEMMA FramesOfRun ==
  ASSUME NEW s \in Nat, NEW n \in Nat, s + n <= NFrames
  PROVE  Abstract!Frames_of(<<s, n>>) = Run(s, n)
  BY PhysmemAssumption DEF Abstract!Frames_of, Run, Frames

(* A run the search accepts is a run of free frames, and the other way.     *)
LEMMA FitsIsFree ==
  ASSUME PhysInv, NEW s \in StartSearch .. (NFrames - 1), NEW n \in 1 .. MaxCount
  PROVE  Fits(s, n) <=> Abstract!Frames_of(<<s, n>>) \subseteq FreeFrames
<1> USE PhysmemAssumption DEF PhysInv, PhysTypeOK
<1>1. ASSUME Fits(s, n) PROVE Abstract!Frames_of(<<s, n>>) \subseteq FreeFrames
  BY <1>1 DEF Fits, Run, Frames, FreeFrames, Abstract!Frames_of
<1>2. ASSUME Abstract!Frames_of(<<s, n>>) \subseteq FreeFrames PROVE Fits(s, n)
  <2>1. \A f \in s .. s + n - 1 : f \in FreeFrames
    BY <1>2 DEF Abstract!Frames_of
  <2>2. s + n - 1 \in FreeFrames
    BY <2>1
  <2> QED BY <2>1, <2>2 DEF Fits, Run, Frames, FreeFrames
<1> QED BY <1>1, <1>2

(* After physmem_init every usable frame is free in the abstract           *)
(* allocator.                                                              *)
LEMMA InitRefines == PhysInit => Abstract!AInit
  BY PhysmemAssumption DEF PhysInit, Abstract!AInit, Frames

(* A first-fit grant is a grant of the abstract allocator: the frames were *)
(* free.                                                                   *)
LEMMA AllocRefines ==
  ASSUME PhysInv, NEW n \in 0 .. MaxCount, physmem_alloc_to(n)
  PROVE  Abstract!AAlloc(n)
<1> USE PhysmemAssumption
<1> PICK start \in Frames :
      /\ n > 0 /\ FirstFit(start, n) /\ physmem_addr_mark_used(start, n)
      /\ held' = held \cup {<<start, n>>} /\ ret' = <<n, start>> /\ total' = total
  BY DEF physmem_alloc_to
<1>1. Fits(start, n)
  BY DEF FirstFit
<1>2. start \in StartSearch .. (NFrames - 1) /\ n \in 1 .. MaxCount /\ start + n <= total
  BY <1>1 DEF Fits, Frames
<1>3. Abstract!Frames_of(<<start, n>>) \subseteq FreeFrames
  BY <1>1, <1>2, FitsIsFree
<1>4. Clip(start, n) = Run(start, n)
  BY <1>2, ClipIsRun DEF PhysInv
<1>5. FreeFrames' = FreeFrames \ Abstract!Frames_of(<<start, n>>)
  <2>1. total <= NFrames /\ total \in Nat
    BY DEF PhysInv, PhysTypeOK
  <2>2. Abstract!Frames_of(<<start, n>>) = Run(start, n)
    BY <1>2, <2>1, FramesOfRun
  <2>3. bitmap' = bitmap \cup Run(start, n)
    BY <1>4 DEF physmem_addr_mark_used
  <2> QED BY <2>2, <2>3 DEF FreeFrames
<1> QED BY <1>2, <1>3, <1>5 DEF Abstract!AAlloc, FreeFrames

(* A refusal is one: the scan of physmem_alloc_to misses no run that fits. *)
LEMMA FailRefines ==
  ASSUME PhysInv, NEW n \in 0 .. MaxCount, physmem_alloc_fail(n)
  PROVE  Abstract!ARefuse(n)
<1> USE PhysmemAssumption
<1>1. FreeFrames' = FreeFrames /\ held' = held /\ ret' = <<n, 0>>
  BY DEF physmem_alloc_fail, FreeFrames
<1>2. ASSUME n # 0, NEW s \in StartSearch .. (NFrames - 1)
      PROVE  ~ (Abstract!Frames_of(<<s, n>>) \subseteq FreeFrames)
  BY <1>2, FitsIsFree DEF physmem_alloc_fail, Frames
<1> QED BY <1>1, <1>2 DEF Abstract!ARefuse, FreeFrames

(* Giving back a run frees its frames and no others.                       *)
LEMMA FreeRefines ==
  ASSUME PhysInv, NEW r \in held, physmem_free_to(r)
  PROVE  Abstract!AFree(r)
<1> USE PhysmemAssumption
<1>1. r = <<r[1], r[2]>> /\ r[1] \in Nat /\ r[2] \in Nat /\ r[1] + r[2] <= total /\ r[1] >= StartSearch
  BY DEF PhysInv, PhysTypeOK, HeldMarked, Frames
<1>2. total <= NFrames /\ total \in Nat
  BY DEF PhysInv, PhysTypeOK
<1>3. Abstract!Frames_of(r) = Run(r[1], r[2])
  BY <1>1, <1>2, FramesOfRun
<1>4. bitmap' = bitmap \ Run(r[1], r[2])
  BY <1>1, ClipIsRun DEF PhysInv, physmem_free_to, physmem_addr_mark_free
<1>5. Run(r[1], r[2]) \subseteq Frames /\ \A f \in Run(r[1], r[2]) : f >= StartSearch /\ f < total
  BY <1>1, <1>2 DEF Run, Frames
<1>6. FreeFrames' = FreeFrames \cup Abstract!Frames_of(r)
  BY <1>3, <1>4, <1>5 DEF FreeFrames, physmem_free_to
<1> QED BY <1>6 DEF Abstract!AFree, physmem_free_to, FreeFrames

(* The allocator hands out only runs nobody holds, refuses only when no run  *)
(* is free, and takes runs back whole (physmem.c:236-282).                  *)
THEOREM PhysmemImplementsFrameAllocator == PhysSpec => ImplementsFrameAllocator
<1>1. ASSUME PhysInv, [PhysNext]_physVars PROVE [Abstract!ANext]_(Abstract!avars)
  <2>1. ASSUME NEW n \in 0 .. MaxCount, physmem_alloc_to(n) PROVE Abstract!ANext
    BY <1>1, <2>1, AllocRefines DEF Abstract!ANext
  <2>2. ASSUME NEW n \in 0 .. MaxCount, physmem_alloc_fail(n) PROVE Abstract!ANext
    BY <1>1, <2>2, FailRefines DEF Abstract!ANext
  <2>3. ASSUME NEW r \in held, physmem_free_to(r) PROVE Abstract!ANext
    BY <1>1, <2>3, FreeRefines DEF Abstract!ANext
  <2>4. CASE UNCHANGED physVars
    BY <2>4 DEF physVars, Abstract!avars
  <2> QED BY <1>1, <2>1, <2>2, <2>3, <2>4 DEF PhysNext
<1>2. PhysInv /\ [PhysNext]_physVars => [Abstract!ANext]_(Abstract!avars)
  BY <1>1
<1> QED BY <1>2, InitIInv, NextIInv, InitRefines, PTL DEF PhysSpec, ImplementsFrameAllocator, Abstract!ASpec

-----------------------------------------------------------------------------
(* Processes: the frames of a record.                                      *)
Records == [base : Nat, code : Nat, heap : Nat, stack : Nat, pml4 : Nat, tables : Nat,
            rip : Int, rsp : Int, vma : Nat, parent : Nat, depth : Nat, alive : BOOLEAN]

(* The runs of a record, and its frames.                                   *)
Code(r) == FrameRun(r.code, CodePages)
HeapOf(r) == FrameRun(r.heap, HeapPages)
StackOf(r) == FrameRun(r.stack, StackPages)
TopOf(r) == {r.pml4, r.tables} \ {0}
FramesOf(r) == Code(r) \cup HeapOf(r) \cup StackOf(r) \cup TopOf(r)

(* What exit gives back is none of what stays with the record.             *)
RunsApart(r) == (HeapOf(r) \cup StackOf(r)) \cap (Code(r) \cup TopOf(r)) = {}

(* Every page of the table f leads into S.                                 *)
Into(f, S) == \A v \in DOMAIN f : f[v] \in S

(* The two properties are inductive only with what they leave open: pids   *)
(* are new, a record's own runs do not overlap (exit gives back two of the *)
(* five), and no record names a lost frame.                                *)
PmInv ==
  /\ \E n \in Nat : DOMAIN procs = 1 .. n
  /\ DOMAIN table = DOMAIN procs
  /\ space \in Nat
  /\ \A p \in DOMAIN procs : procs[p] \in Records /\ RunsApart(procs[p])
  /\ \A p \in DOMAIN procs : procs[p].alive => Into(table[p], FramesOf(procs[p]))
  /\ \A p, q \in DOMAIN procs : p # q => FramesOf(procs[p]) \cap FramesOf(procs[q]) = {}
  /\ \A p \in DOMAIN procs : FramesOf(procs[p]) \cap lost = {}
  /\ used = lost \cup UNION {FramesOf(procs[p]) : p \in DOMAIN procs}

(* The frames the property counts are those the invariant counts.          *)
LEMMA RecordedIsFramesOf == \A p : Recorded(p) = FramesOf(procs[p])
  BY DEF Recorded, FramesOf, Code, HeapOf, StackOf, TopOf

(* The invariant implies both properties.                                  *)
LEMMA PmInvOwned == PmInv => LiveMappingsOwned /\ EveryFrameAccounted
<1> SUFFICES ASSUME PmInv PROVE LiveMappingsOwned /\ EveryFrameAccounted
  OBVIOUS
<1>1. used = lost \cup UNION {FramesOf(procs[p]) : p \in DOMAIN procs}
  BY DEF PmInv
<1>2. \A p \in DOMAIN procs : FramesOf(procs[p]) \subseteq used
  BY <1>1
<1>3. EveryFrameAccounted
  BY <1>1, RecordedIsFramesOf DEF EveryFrameAccounted
<1>4. LiveMappingsOwned
  BY <1>2, RecordedIsFramesOf DEF LiveMappingsOwned, PmInv, Into
<1> QED BY <1>3, <1>4

(* Fit finds a run that is free, or 0.                                     *)
LEMMA FitFindsFree ==
  ASSUME NEW u, NEW n \in Nat \ {0}
  PROVE  /\ Fit(u, n) \in Nat
         /\ Fit(u, n) # 0 => FrameRun(Fit(u, n), n) \cap u = {}
<1> DEFINE starts == {s \in 1 .. MemFrames - n + 1 : FrameRun(s, n) \cap u = {}}
<1>1. starts \in SUBSET Nat
  BY ProcessMemoryAssumption
<1>2. CASE starts = {}
  BY <1>2 DEF Fit
<1>3. CASE starts # {}
  <2>1. \E s \in starts : \A r \in starts : s <= r
    <3> HIDE DEF starts
    <3> QED BY <1>1, <1>3, MinExists
  <2>2. Fit(u, n) = CHOOSE s \in starts : \A r \in starts : s <= r
    BY <1>3 DEF Fit
  <2>3. Fit(u, n) \in starts
    <3> HIDE DEF starts
    <3> QED BY <2>1, <2>2
  <2> QED BY <1>1, <2>3
<1> QED BY <1>2, <1>3

(* Runs of pages lead to the run of frames they are mapped to.             *)
LEMMA MapRunInto ==
  ASSUME NEW page \in Int, NEW frame \in Nat \ {0}, NEW n \in Nat, NEW k \in Nat, n <= k
  PROVE  Into(MapRun(page, frame, n), FrameRun(frame, k))
<1> SUFFICES ASSUME NEW v \in page .. page + n - 1
             PROVE  frame + v - page \in frame .. frame + k - 1
  BY DEF Into, MapRun, FrameRun
<1> QED OBVIOUS

(* Mapping one region over another adds no frame the two do not lead to.   *)
LEMMA OverInto ==
  ASSUME NEW f, NEW g, NEW S, Into(f, S), Into(g, S)
  PROVE  Into(Over(f, g), S)
  BY DEF Into, Over

(* A table that leads into a set leads into a larger one.                  *)
LEMMA IntoLarger ==
  ASSUME NEW f, NEW S, NEW T, Into(f, S), S \subseteq T
  PROVE  Into(f, T)
  BY DEF Into

(* A record whose runs were all found.                                     *)
Complete(r) == r \in Records /\ r.code # 0 /\ r.heap # 0 /\ r.stack # 0

(* Mapping a run of a record, whole or in part, leads to its frames.       *)
LEMMA RunsInto ==
  ASSUME NEW r, Complete(r), NEW page \in Int
  PROVE  /\ Into(MapRun(page, r.code, CodePages), FramesOf(r))
         /\ \A n \in 0 .. HeapPages : Into(MapRun(page, r.heap, n), FramesOf(r))
         /\ Into(MapRun(page, r.stack, StackPages), FramesOf(r))
<1>1. r.code \in Nat \ {0} /\ r.heap \in Nat \ {0} /\ r.stack \in Nat \ {0}
  BY DEF Complete, Records
<1>2. CodePages \in Nat /\ HeapPages \in Nat /\ StackPages \in Nat
  BY ProcessMemoryAssumption
<1>3. Code(r) \subseteq FramesOf(r) /\ HeapOf(r) \subseteq FramesOf(r) /\ StackOf(r) \subseteq FramesOf(r)
  BY DEF FramesOf
<1>4. Into(MapRun(page, r.code, CodePages), FramesOf(r))
  <2>1. Into(MapRun(page, r.code, CodePages), Code(r))
    BY <1>1, <1>2, MapRunInto DEF Code
  <2> QED BY <1>3, <2>1, IntoLarger
<1>5. ASSUME NEW n \in 0 .. HeapPages
      PROVE  Into(MapRun(page, r.heap, n), FramesOf(r))
  <2>1. Into(MapRun(page, r.heap, n), HeapOf(r))
    BY <1>1, <1>2, MapRunInto DEF HeapOf
  <2> QED BY <1>3, <2>1, IntoLarger
<1>6. Into(MapRun(page, r.stack, StackPages), FramesOf(r))
  <2>1. Into(MapRun(page, r.stack, StackPages), StackOf(r))
    BY <1>1, <1>2, MapRunInto DEF StackOf
  <2> QED BY <1>3, <2>1, IntoLarger
<1> QED BY <1>4, <1>5, <1>6

(* What ulime_proc_create maps leads to the frames of the record.          *)
LEMMA OwnMapInto ==
  ASSUME NEW r, Complete(r)
  PROVE  Into(OwnMap(r), FramesOf(r))
<1>1. CodePages \in Nat /\ HeapPages \in Nat /\ r.base \in Nat
  BY ProcessMemoryAssumption DEF Complete, Records
<1>2. r.base \in Int /\ r.base + CodePages \in Int /\ r.base + CodePages + HeapPages \in Int
      /\ HeapPages \in 0 .. HeapPages
  BY <1>1
<1>3. /\ Into(MapRun(r.base, r.code, CodePages), FramesOf(r))
      /\ Into(MapRun(r.base + CodePages, r.heap, HeapPages), FramesOf(r))
      /\ Into(MapRun(r.base + CodePages + HeapPages, r.stack, StackPages), FramesOf(r))
  BY <1>2, RunsInto
<1> QED BY <1>3, OverInto DEF OwnMap

(* What elf_load maps in addition leads to the frames of the record.       *)
LEMMA ElfMapInto ==
  ASSUME NEW r, Complete(r), NEW n \in 0 .. HeapPages
  PROVE  Into(elf_load(r, n).tab, FramesOf(r))
<1>1. Into(MapRun(UserBase, r.heap, n), FramesOf(r))
  BY ProcessMemoryAssumption, RunsInto
<1> QED BY <1>1, OwnMapInto, OverInto DEF elf_load

(* What fork maps at its parent's addresses leads to the child's own       *)
(* frames.                                                                 *)
LEMMA ChildMapInto ==
  ASSUME NEW r, Complete(r), NEW p, procs[p] \in Records
  PROVE  Into(ChildMap(p, r), FramesOf(r))
<1>1. CodePages \in Nat /\ HeapPages \in Nat /\ procs[p].base \in Nat /\ procs[p].vma \in Nat
  BY ProcessMemoryAssumption DEF Records
<1>2. procs[p].vma \in Int /\ StackBase(p) \in Int /\ HeapBase(p) \in Int /\ HeapPages \in 0 .. HeapPages
  BY <1>1 DEF StackBase, HeapBase
<1>3. /\ Into(MapRun(procs[p].vma, r.heap, HeapPages), FramesOf(r))
      /\ Into(MapRun(StackBase(p), r.stack, StackPages), FramesOf(r))
      /\ Into(MapRun(HeapBase(p), r.heap, HeapPages), FramesOf(r))
  BY <1>2, RunsInto
<1> QED BY <1>3, OwnMapInto, OverInto DEF ChildMap

(* What a creation finds lies outside of what is used, one run after the   *)
(* other.                                                                  *)
LEMMA ObtainedFree ==
  /\ StackAt \in Nat /\ CodeAt \in Nat /\ HeapAt \in Nat /\ Pml4At \in Nat /\ TablesAt \in Nat
  /\ StackAt # 0 => FrameRun(StackAt, StackPages) \cap used = {}
  /\ CodeAt # 0 => FrameRun(CodeAt, CodePages) \cap WithStack = {}
  /\ HeapAt # 0 => FrameRun(HeapAt, HeapPages) \cap WithCode = {}
  /\ Pml4At # 0 => Pml4At \notin WithHeap
  /\ TablesAt # 0 => TablesAt \notin WithHeap \cup {Pml4At}
<1>1. CodePages \in Nat \ {0} /\ HeapPages \in Nat \ {0} /\ StackPages \in Nat \ {0} /\ 1 \in Nat \ {0}
  BY ProcessMemoryAssumption
<1>2. /\ StackAt \in Nat /\ CodeAt \in Nat /\ HeapAt \in Nat /\ Pml4At \in Nat /\ TablesAt \in Nat
  BY <1>1, FitFindsFree DEF StackAt, CodeAt, HeapAt, Pml4At, TablesAt
<1>3. StackAt # 0 => FrameRun(StackAt, StackPages) \cap used = {}
  BY <1>1, FitFindsFree DEF StackAt
<1>4. CodeAt # 0 => FrameRun(CodeAt, CodePages) \cap WithStack = {}
  BY <1>1, FitFindsFree DEF CodeAt
<1>5. HeapAt # 0 => FrameRun(HeapAt, HeapPages) \cap WithCode = {}
  BY <1>1, FitFindsFree DEF HeapAt
<1>6. \A s \in Nat : s # 0 => s \in FrameRun(s, 1)
  BY DEF FrameRun
<1>7. Pml4At # 0 => Pml4At \notin WithHeap
  <2>1. Pml4At # 0 => FrameRun(Pml4At, 1) \cap WithHeap = {}
    BY <1>1, FitFindsFree DEF Pml4At
  <2> QED BY <1>2, <1>6, <2>1
<1>8. TablesAt # 0 => TablesAt \notin WithHeap \cup {Pml4At}
  <2>1. TablesAt # 0 => FrameRun(TablesAt, 1) \cap (WithHeap \cup {Pml4At}) = {}
    BY <1>1, FitFindsFree DEF TablesAt
  <2> QED BY <1>2, <1>6, <2>1
<1> QED BY <1>2, <1>3, <1>4, <1>5, <1>7, <1>8

(* The next pid is not taken, and taking it leaves no gap.                 *)
LEMMA FreshPid ==
  ASSUME PmInv
  PROVE  /\ NextPid \in Nat \ {0} /\ NextPid \notin DOMAIN procs
         /\ \E n \in Nat : DOMAIN procs \cup {NextPid} = 1 .. n
<1>1. PICK n \in Nat : DOMAIN procs = 1 .. n
  BY DEF PmInv
<1>2. Cardinality(1 .. n) = n
  BY FS_Interval
<1>3. NextPid = n + 1
  BY <1>1, <1>2 DEF NextPid
<1>4. 1 .. n \cup {n + 1} = 1 .. n + 1 /\ n + 1 \notin 1 .. n
  OBVIOUS
<1> QED BY <1>1, <1>3, <1>4

(* A creation adds a record of frames that were free, and may lose others. *)
LEMMA AddedInv ==
  ASSUME PmInv, NEW rec \in Records, NEW tab, NEW more,
         Added(rec, tab), space' \in Nat,
         RunsApart(rec), rec.alive => Into(tab, FramesOf(rec)),
         FramesOf(rec) \cap used = {}, more \cap used = {}, more \cap FramesOf(rec) = {},
         used' = used \cup more \cup FramesOf(rec), lost' = lost \cup more
  PROVE  PmInv'
<1> DEFINE new == NextPid
<1>1. new \notin DOMAIN procs /\ \E n \in Nat : DOMAIN procs \cup {new} = 1 .. n
  BY FreshPid
<1>2. /\ DOMAIN procs' = DOMAIN procs \cup {new} /\ procs'[new] = rec
      /\ \A p \in DOMAIN procs : procs'[p] = procs[p]
  BY <1>1 DEF Added
<1>3. /\ DOMAIN table' = DOMAIN procs \cup {new} /\ table'[new] = tab
      /\ \A p \in DOMAIN procs : table'[p] = table[p]
  BY <1>1 DEF Added, PmInv
<1> HIDE DEF new
<1>4. /\ \A p \in DOMAIN procs : procs[p] \in Records /\ RunsApart(procs[p])
      /\ \A p \in DOMAIN procs : procs[p].alive => Into(table[p], FramesOf(procs[p]))
      /\ \A p, q \in DOMAIN procs : p # q => FramesOf(procs[p]) \cap FramesOf(procs[q]) = {}
      /\ \A p \in DOMAIN procs : FramesOf(procs[p]) \cap lost = {}
      /\ used = lost \cup UNION {FramesOf(procs[p]) : p \in DOMAIN procs}
  BY DEF PmInv
<1>5. \A p \in DOMAIN procs' : procs'[p] \in Records /\ RunsApart(procs'[p])
  BY <1>2, <1>4
<1>6. \A p \in DOMAIN procs' : procs'[p].alive => Into(table'[p], FramesOf(procs'[p]))
  BY <1>2, <1>3, <1>4
<1> DEFINE F(p) == FramesOf(procs[p])
           G(p) == IF p = new THEN FramesOf(rec) ELSE F(p)
           D == DOMAIN procs
<1>7. \A p \in DOMAIN procs' : FramesOf(procs'[p]) = G(p)
  BY <1>1, <1>2
<1>8. \A p \in D : F(p) \subseteq used
  BY <1>4
<1>9. \A p, q \in DOMAIN procs' : p # q => G(p) \cap G(q) = {}
  <2> HIDE DEF F
  <2> QED BY <1>1, <1>2, <1>4, <1>8 DEF F
<1>10. \A p \in DOMAIN procs' : G(p) \cap lost' = {}
  <2>1. lost \subseteq used
    BY <1>4
  <2> HIDE DEF F
  <2> QED BY <1>1, <1>2, <1>4, <1>8, <2>1 DEF F
<1>11. used' = lost' \cup UNION {G(p) : p \in DOMAIN procs'}
  <2>1. UNION {G(p) : p \in DOMAIN procs'} = FramesOf(rec) \cup UNION {F(p) : p \in D}
    <3> HIDE DEF F
    <3> QED BY <1>1, <1>2
  <2> HIDE DEF G
  <2> QED BY <1>4, <2>1
<1>12. /\ \A p, q \in DOMAIN procs' : p # q => FramesOf(procs'[p]) \cap FramesOf(procs'[q]) = {}
       /\ \A p \in DOMAIN procs' : FramesOf(procs'[p]) \cap lost' = {}
       /\ used' = lost' \cup UNION {FramesOf(procs'[p]) : p \in DOMAIN procs'}
  <2> HIDE DEF G
  <2> QED BY <1>7, <1>9, <1>10, <1>11
<1>13. (\E n \in Nat : DOMAIN procs' = 1 .. n) /\ DOMAIN table' = DOMAIN procs'
  BY <1>1, <1>2, <1>3
<1> QED BY <1>5, <1>6, <1>12, <1>13 DEF PmInv

(* A creation that fails half way keeps the invariant: what it took is     *)
(* lost.                                                                   *)
LEMMA FailedInv == ASSUME PmInv, ulime_proc_create, Failed PROVE PmInv'
<1>1. space \in Nat /\ space' \in Nat
  BY ProcessMemoryAssumption, SMTT(60) DEF PmInv, ulime_proc_create
<1>2. NewRecord \in Records /\ FramesOf(NewRecord) = {} /\ RunsApart(NewRecord) /\ ~ NewRecord.alive
  BY <1>1 DEF NewRecord, Records, FramesOf, RunsApart, Code, HeapOf, StackOf, TopOf, FrameRun
<1>3. Added(NewRecord, <<>>)
  BY DEF Failed
<1>4. \E more : /\ more \cap used = {}
                /\ used' = used \cup more /\ lost' = lost \cup more
  <2>1. CASE StackAt = 0 /\ UNCHANGED <<used, lost>>
    <3>1. {} \cap used = {} /\ used' = used \cup {} /\ lost' = lost \cup {}
      BY <2>1
    <3> QED BY <3>1
  <2>2. CASE /\ StackAt # 0 /\ CodeAt = 0
             /\ used' = WithStack
             /\ lost' = lost \cup FrameRun(StackAt, StackPages)
    BY <2>2, ObtainedFree DEF WithStack
  <2>3. CASE /\ StackAt # 0 /\ CodeAt # 0 /\ HeapAt = 0
             /\ used' = WithCode \ FrameRun(StackAt, StackPages)
             /\ lost' = lost \cup FrameRun(CodeAt, CodePages)
    <3> DEFINE st == FrameRun(StackAt, StackPages)
               co == FrameRun(CodeAt, CodePages)
    <3>1. st \cap used = {} /\ co \cap (used \cup st) = {} /\ WithCode = used \cup st \cup co
      BY <2>3, ObtainedFree DEF WithStack, WithCode
    <3>2. used' = WithCode \ st /\ lost' = lost \cup co
      BY <2>3
    <3> HIDE DEF st, co
    <3>3. co \cap used = {} /\ used' = used \cup co
      BY <3>1, <3>2
    <3> QED BY <3>2, <3>3
  <2> QED BY <2>1, <2>2, <2>3 DEF Failed
<1>5. PICK more : /\ more \cap used = {}
                  /\ used' = used \cup more /\ lost' = lost \cup more
  BY <1>4
<1> QED BY <1>1, <1>2, <1>3, <1>5, AddedInv

(* The record a creation makes, with what load and fork change of it.      *)
LEMMA MadeInv ==
  ASSUME PmInv, ulime_proc_create, NEW rec \in Records, NEW tab, Made(rec, tab),
         rec.code = CodeAt, rec.heap = HeapAt, rec.stack = StackAt,
         rec.pml4 = Pml4At, rec.tables = TablesAt,
         rec.alive => Into(tab, FramesOf(rec))
  PROVE  PmInv'
<1>1. space' \in Nat
  BY ProcessMemoryAssumption, SMTT(60) DEF PmInv, ulime_proc_create
<1> DEFINE st == FrameRun(StackAt, StackPages)
           co == FrameRun(CodeAt, CodePages)
           he == FrameRun(HeapAt, HeapPages)
<1>2. /\ st \cap used = {} /\ co \cap (used \cup st) = {} /\ he \cap (used \cup st \cup co) = {}
      /\ Pml4At \notin used \cup st \cup co \cup he
      /\ TablesAt \notin used \cup st \cup co \cup he \cup {Pml4At}
      /\ Pml4At # 0 /\ TablesAt # 0
      /\ used' = used \cup st \cup co \cup he \cup {Pml4At, TablesAt} /\ lost' = lost
  BY ObtainedFree DEF Made, HasRuns, HasTables, WithStack, WithCode, WithHeap
<1>3. Code(rec) = co /\ HeapOf(rec) = he /\ StackOf(rec) = st /\ TopOf(rec) = {Pml4At, TablesAt}
  BY <1>2 DEF Code, HeapOf, StackOf, TopOf
<1>4. Added(rec, tab)
  BY DEF Made
<1> HIDE DEF st, co, he
<1>5. FramesOf(rec) \cap used = {} /\ RunsApart(rec)
  BY <1>2, <1>3 DEF FramesOf, RunsApart
<1>6. used' = used \cup {} \cup FramesOf(rec) /\ lost' = lost \cup {}
      /\ {} \cap used = {} /\ {} \cap FramesOf(rec) = {}
  BY <1>2, <1>3 DEF FramesOf
<1> QED BY <1>1, <1>4, <1>5, <1>6, AddedInv

(* A record with all its runs is complete.                                 *)
LEMMA ObtainedTyped ==
  ASSUME PmInv, HasRuns
  PROVE  /\ Obtained \in Records /\ Complete(Obtained)
         /\ Obtained.code = CodeAt /\ Obtained.heap = HeapAt /\ Obtained.stack = StackAt
         /\ Obtained.pml4 = Pml4At /\ Obtained.tables = TablesAt /\ Obtained.base = space
<1>1. space \in Nat /\ StackAt \in Nat /\ CodeAt \in Nat /\ HeapAt \in Nat
      /\ Pml4At \in Nat /\ TablesAt \in Nat
  BY ObtainedFree DEF PmInv
<1>2. StackAt # 0 /\ CodeAt # 0 /\ HeapAt # 0
  BY DEF HasRuns
<1>3. NewRecord \in Records /\ NewRecord.base = space
  BY <1>1 DEF NewRecord, Records
<1> QED BY <1>1, <1>2, <1>3 DEF Obtained, Records, Complete

(* The frames of a record are named by five of its fields.                 *)
LEMMA SameFrames ==
  ASSUME NEW r, NEW s, r.code = s.code, r.heap = s.heap, r.stack = s.stack,
         r.pml4 = s.pml4, r.tables = s.tables
  PROVE  FramesOf(r) = FramesOf(s)
  BY DEF FramesOf, Code, HeapOf, StackOf, TopOf

(* Starting a program keeps the invariant.                                 *)
LEMMA StartedInv == ASSUME PmInv, NEW n \in 0 .. HeapPages, Started(n) PROVE PmInv'
<1>1. ulime_proc_create
  BY DEF Started
<1>2. CASE Failed
  BY <1>1, <1>2, FailedInv
<1>3. CASE Panicked
  BY <1>1, <1>3, ProcessMemoryAssumption, SMTT(60) DEF Panicked, ulime_proc_create, PmInv
<1>4. CASE Made([Obtained EXCEPT !.alive = FALSE], OwnMap(Obtained))
  <2> DEFINE rec == [Obtained EXCEPT !.alive = FALSE]
  <2>1. HasRuns
    BY <1>4 DEF Made
  <2>2. rec \in Records /\ rec.code = CodeAt /\ rec.heap = HeapAt /\ rec.stack = StackAt
        /\ rec.pml4 = Pml4At /\ rec.tables = TablesAt /\ ~ rec.alive
    <3> HIDE DEF Obtained
    <3> QED BY <2>1, ObtainedTyped DEF Records
  <2> HIDE DEF rec
  <2> QED BY <1>1, <1>4, <2>2, MadeInv DEF rec
<1>5. CASE Made(elf_load(Obtained, n).rec, elf_load(Obtained, n).tab)
  <2> DEFINE rec == elf_load(Obtained, n).rec
  <2>1. HasRuns
    BY <1>5 DEF Made
  <2>2. rec \in Records /\ rec.code = CodeAt /\ rec.heap = HeapAt /\ rec.stack = StackAt
        /\ rec.pml4 = Pml4At /\ rec.tables = TablesAt
    <3> DEFINE rip == Obtained.base + CodePages
               rsp == Obtained.base + CodePages + HeapPages + StackPages - 1
    <3>1. rec = [Obtained EXCEPT !.rip = rip, !.rsp = rsp, !.vma = UserBase]
      BY DEF elf_load
    <3>2. rip \in Int /\ rsp \in Int /\ UserBase \in Nat
      BY <2>1, ObtainedTyped, ProcessMemoryAssumption DEF Records
    <3> HIDE DEF rec, rip, rsp
    <3> QED BY <2>1, <3>1, <3>2, ObtainedTyped DEF Records
  <2>3. Into(elf_load(Obtained, n).tab, FramesOf(Obtained))
    BY <2>1, ObtainedTyped, ElfMapInto
  <2> HIDE DEF rec
  <2>4. FramesOf(rec) = FramesOf(Obtained)
    BY <2>1, <2>2, ObtainedTyped, SameFrames
  <2> QED BY <1>1, <1>5, <2>2, <2>3, <2>4, MadeInv DEF rec
<1> QED BY <1>2, <1>3, <1>4, <1>5 DEF Started

(* Starting a process of the kernel keeps the invariant.                   *)
LEMMA KprocInv == ASSUME PmInv, kproc PROVE PmInv'
<1>1. CASE Failed \/ Panicked
  <2>1. Started(0) /\ 0 \in 0 .. HeapPages
    BY <1>1, ProcessMemoryAssumption DEF kproc, Started
  <2> QED BY <2>1, StartedInv
<1>2. CASE Made([Obtained EXCEPT !.alive = FALSE], OwnMap(Obtained))
  <2>1. Started(0) /\ 0 \in 0 .. HeapPages
    BY <1>2, ProcessMemoryAssumption DEF kproc, Started
  <2> QED BY <2>1, StartedInv
<1> QED BY <1>1, <1>2 DEF kproc

(* fork keeps the invariant, with and without a free task slot.            *)
LEMMA ForkInv ==
  ASSUME PmInv, NEW p \in DOMAIN procs, NEW slot \in BOOLEAN, fork_memory(p, slot)
  PROVE  PmInv'
<1> DEFINE rec == [Obtained EXCEPT !.rip = procs[p].rip, !.rsp = procs[p].rsp, !.vma = procs[p].vma,
                                   !.parent = p, !.depth = procs[p].depth + 1, !.alive = slot]
<1>1. ulime_proc_create /\ procs[p] \in Records /\ p \in Nat
  BY DEF fork_memory, PmInv
<1>2. CASE Failed
  BY <1>1, <1>2, FailedInv
<1>3. CASE Panicked
  BY <1>1, <1>3, ProcessMemoryAssumption, SMTT(60) DEF Panicked, ulime_proc_create, PmInv
<1>4. CASE Made(rec, ChildMap(p, Obtained))
  <2>1. HasRuns
    BY <1>4 DEF Made
  <2>2. rec \in Records /\ rec.code = CodeAt /\ rec.heap = HeapAt /\ rec.stack = StackAt
        /\ rec.pml4 = Pml4At /\ rec.tables = TablesAt
    <3> HIDE DEF Obtained
    <3>1. /\ procs[p].rip \in Int /\ procs[p].rsp \in Int /\ procs[p].vma \in Nat
          /\ procs[p].depth + 1 \in Nat
      BY <1>1 DEF Records
    <3> QED BY <1>1, <2>1, <3>1, ObtainedTyped, ZenonT(60) DEF Records
  <2> HIDE DEF rec
  <2>3. Into(ChildMap(p, Obtained), FramesOf(Obtained))
    BY <1>1, <2>1, ObtainedTyped, ChildMapInto
  <2>4. FramesOf(rec) = FramesOf(Obtained)
    BY <2>1, <2>2, ObtainedTyped, SameFrames
  <2> QED BY <1>1, <1>4, <2>2, <2>3, <2>4, MadeInv
<1> QED BY <1>2, <1>3, <1>4 DEF fork_memory

(* exit keeps the invariant: it gives back heap and stack and nothing      *)
(* else's frames.                                                          *)
LEMMA ExitInv == ASSUME PmInv, NEW p \in DOMAIN procs, exit_memory(p) PROVE PmInv'
<1> DEFINE r == procs[p]
           s == [r EXCEPT !.alive = FALSE, !.heap = 0, !.stack = 0]
<1>1. r \in Records /\ RunsApart(r)
  BY DEF PmInv
<1>2. /\ procs' = [procs EXCEPT ![p] = s] /\ used' = used \ (HeapOf(r) \cup StackOf(r))
      /\ UNCHANGED <<space, table, lost, memPanic>>
  BY DEF exit_memory, ExitFreed, HeapOf, StackOf
<1>3. /\ s \in Records /\ s.heap = 0 /\ s.stack = 0 /\ s.code = r.code
      /\ s.pml4 = r.pml4 /\ s.tables = r.tables /\ ~ s.alive
  <2> HIDE DEF r
  <2> QED BY <1>1 DEF Records
<1> HIDE DEF s
<1>4. /\ FramesOf(s) = Code(r) \cup TopOf(r) /\ RunsApart(s)
      /\ FramesOf(s) = FramesOf(r) \ (HeapOf(r) \cup StackOf(r))
  BY <1>1, <1>3 DEF FramesOf, RunsApart, Code, HeapOf, StackOf, TopOf, FrameRun
<1>5. /\ DOMAIN procs' = DOMAIN procs /\ procs'[p] = s
      /\ \A q \in DOMAIN procs : q # p => procs'[q] = procs[q]
  BY <1>2
<1>6. /\ \A q \in DOMAIN procs : procs[q] \in Records /\ RunsApart(procs[q])
      /\ \A q \in DOMAIN procs : procs[q].alive => Into(table[q], FramesOf(procs[q]))
      /\ \A q, o \in DOMAIN procs : q # o => FramesOf(procs[q]) \cap FramesOf(procs[o]) = {}
      /\ \A q \in DOMAIN procs : FramesOf(procs[q]) \cap lost = {}
      /\ used = lost \cup UNION {FramesOf(procs[q]) : q \in DOMAIN procs}
  BY DEF PmInv
<1>7. \A q \in DOMAIN procs' : procs'[q] \in Records /\ RunsApart(procs'[q])
  BY <1>3, <1>4, <1>5, <1>6
<1>8. \A q \in DOMAIN procs' : procs'[q].alive => Into(table'[q], FramesOf(procs'[q]))
  BY <1>2, <1>3, <1>5, <1>6
<1> DEFINE F(q) == FramesOf(procs[q])
           G(q) == FramesOf(procs'[q])
           freed == HeapOf(r) \cup StackOf(r)
<1>9. /\ \A q \in DOMAIN procs : G(q) = F(q) \ freed
      /\ freed \subseteq F(p)
  <2>1. freed \subseteq F(p)
    BY DEF FramesOf
  <2>2. ASSUME NEW q \in DOMAIN procs PROVE G(q) = F(q) \ freed
    <3>1. CASE q = p
      BY <1>4, <1>5, <3>1
    <3>2. CASE q # p
      <4>1. F(q) \cap F(p) = {} /\ G(q) = F(q)
        BY <1>5, <1>6, <3>2
      <4> HIDE DEF F, G, freed
      <4> QED BY <2>1, <4>1
    <3> QED BY <3>1, <3>2
  <2> QED BY <2>1, <2>2
<1>10. lost \cap freed = {}
  BY <1>6, <1>9
<1>11. used' = used \ freed /\ lost' = lost
  BY <1>2
<1>12. /\ \A q, o \in DOMAIN procs' : q # o => G(q) \cap G(o) = {}
       /\ \A q \in DOMAIN procs' : G(q) \cap lost' = {}
       /\ used' = lost' \cup UNION {G(q) : q \in DOMAIN procs'}
  <2>1. /\ \A q, o \in DOMAIN procs : q # o => F(q) \cap F(o) = {}
        /\ \A q \in DOMAIN procs : F(q) \cap lost = {}
        /\ used = lost \cup UNION {F(q) : q \in DOMAIN procs}
    BY <1>6
  <2> HIDE DEF F, G, freed
  <2> QED BY <1>5, <1>9, <1>10, <1>11, <2>1
<1>13. (\E n \in Nat : DOMAIN procs' = 1 .. n) /\ DOMAIN table' = DOMAIN procs' /\ space' \in Nat
  BY <1>2, <1>5 DEF PmInv
<1> QED BY <1>7, <1>8, <1>12, <1>13 DEF PmInv

(* Nobody holds memory at first.                                           *)
LEMMA InitPmInv == PmInit => PmInv
<1> SUFFICES ASSUME PmInit PROVE PmInv
  OBVIOUS
<1>1. DOMAIN procs = {} /\ DOMAIN table = {} /\ space \in Nat /\ used = {} /\ lost = {}
  BY ProcessMemoryAssumption DEF PmInit
<1>2. {} = 1 .. 0
  OBVIOUS
<1> QED BY <1>1, <1>2 DEF PmInv

(* Every operation keeps the invariant.                                    *)
LEMMA NextPmInv == PmInv /\ [PmNext]_pmVars => PmInv'
<1> SUFFICES ASSUME PmInv, [PmNext]_pmVars PROVE PmInv'
  OBVIOUS
<1>1. ASSUME NEW n \in 0 .. HeapPages, uproc(n) \/ execve_memory(n) PROVE PmInv'
  BY <1>1, StartedInv DEF uproc, execve_memory
<1>2. CASE UNCHANGED pmVars
  BY <1>2 DEF pmVars, PmInv
<1> QED BY <1>1, <1>2, KprocInv, ForkInv, ExitInv DEF PmNext

(* Whatever the sizes of processes and memory: no living process can reach *)
(* a frame that is not its own, however creations fail and whoever forks   *)
(* or exits (syscalls.c:157-166, 648-666, ulime.c:137-248).                *)
THEOREM ProcessMemoryOwned == PmSpec => []LiveMappingsOwned
<1>1. PmSpec => []PmInv
  BY InitPmInv, NextPmInv, PTL DEF PmSpec
<1> QED BY <1>1, PmInvOwned, PTL

(* And no frame in use is forgotten, except those of a creation that ran   *)
(* out of memory half way.                                                 *)
THEOREM ProcessMemoryAccounted == PmSpec => []EveryFrameAccounted
<1>1. PmSpec => []PmInv
  BY InitPmInv, NextPmInv, PTL DEF PmSpec
<1> QED BY <1>1, PmInvOwned, PTL
-----------------------------------------------------------------------------

Region == [used : BOOLEAN, id : Nat, page_count : 0 .. IPC_MAX_SHM_PAGES,
           phys_pages : [Index -> 0 .. ShmFrames], ref_count : Nat,
           virt_per_proc : [ShmPids -> Nat]]

Holders(shm) == {p \in ShmPids : shm.virt_per_proc[p] # 0}

Taken(slots, p) == {s \in Slots : slots[s].used /\ slots[s].virt_per_proc[p] # 0}

Typed(slots, next, fr, mp) ==
  /\ slots \in [Slots -> Region]
  /\ next \in Nat \ {0}
  /\ fr \subseteq Memory
  /\ mp \in [ShmPids -> SUBSET (Nat \X Memory)]

(* Every page of a region in use has a frame, and its count is right.      *)
Filled(shm) == \A i \in 1 .. shm.page_count : shm.phys_pages[i] # 0

Counted(shm) == shm.ref_count = Cardinality(Holders(shm))

(* A process's page table maps what it is attached to and nothing else.    *)
MapsTaken(slots, mp) ==
  \A p \in ShmPids :
    mp[p] = UNION {Mapping(slots[s], slots[s].virt_per_proc[p]) : s \in Taken(slots, p)}

(* Addresses are handed out upwards, and two regions of a process lie one  *)
(* after the other.                                                        *)
End(shm, p) == shm.virt_per_proc[p] + shm.page_count

Apart(slots, next) ==
  \A p \in ShmPids : \A s \in Taken(slots, p) :
    /\ End(slots[s], p) <= next
    /\ \A t \in Taken(slots, p) :
         s # t => \/ End(slots[s], p) <= slots[t].virt_per_proc[p]
                  \/ End(slots[t], p) <= slots[s].virt_per_proc[p]

(* Every frame is free or in one region.                                   *)
Exclusive(slots, fr) ==
  /\ Memory = fr \cup UNION {Pages(slots[s]) : s \in {t \in Slots : slots[t].used}}
  /\ \A s \in Slots : slots[s].used => Pages(slots[s]) \cap fr = {}
  /\ \A s, t \in Slots : slots[s].used /\ slots[t].used /\ s # t =>
       Pages(slots[s]) \cap Pages(slots[t]) = {}

Sound(slots, next, fr, mp) ==
  /\ Typed(slots, next, fr, mp)
  /\ \A s \in Slots : slots[s].used => Filled(slots[s]) /\ Counted(slots[s])
  /\ MapsTaken(slots, mp)
  /\ Apart(slots, next)
  /\ Exclusive(slots, fr)

(* MappedFramesOwned is inductive only because a region whose count falls  *)
(* to zero has no process left (Counted), and NoAddressTwice only because  *)
(* a new mapping starts above every earlier one (Apart).                   *)
ShmInv ==
  /\ Sound(shm_table, user_space_used, free, mapped)
  /\ shm_counter \in Nat

-----------------------------------------------------------------------------
(* Sets of frames can be counted.                                          *)
LEMMA MemoryIsFinite ==
  ASSUME NEW S \in SUBSET Memory
  PROVE  IsFiniteSet(S) /\ Cardinality(S) \in Nat
<1>1. ShmFrames \in Int /\ 1 \in Int
  BY SharedMemoryAssumption
<1>2. IsFiniteSet(Memory)
  BY <1>1, FS_Interval DEF Memory
<1> QED BY <1>2, FS_Subset, FS_CardinalityType

(* The processes that hold a region can be counted.                        *)
LEMMA HoldersAreFinite ==
  ASSUME NEW shm
  PROVE  IsFiniteSet(Holders(shm)) /\ Cardinality(Holders(shm)) \in Nat
<1>1. Holders(shm) \in SUBSET ShmPids
  BY DEF Holders
<1> QED BY <1>1, SharedMemoryAssumption, FS_Subset, FS_CardinalityType

(* The slot shm_create takes is free.                                      *)
LEMMA FirstFreeSlot ==
  ASSUME Free_slots # {}
  PROVE  Min(Free_slots) \in Free_slots
<1>1. Free_slots \in SUBSET Nat
  BY DEF Free_slots, Slots
<1>2. \E n \in Free_slots : \A m \in Free_slots : n =< m
  <2> HIDE DEF Free_slots
  <2> QED BY <1>1, MinExists
<1> QED BY <1>2, Zenon DEF Min

(* A mapped frame is one of the region's.                                  *)
LEMMA MappingOfRegion ==
  ASSUME NEW shm \in Region, Filled(shm), NEW v \in Nat, NEW m \in Mapping(shm, v)
  PROVE  /\ m[2] \in Pages(shm) /\ m[2] \in Memory
         /\ m[1] \in Nat /\ v <= m[1] /\ m[1] < v + shm.page_count
         /\ m = <<m[1], shm.phys_pages[m[1] - v + 1]>>
<1>1. PICK i \in 1 .. shm.page_count : m = <<v + i - 1, shm.phys_pages[i]>>
  BY DEF Mapping
<1>2. shm.page_count \in 0 .. IPC_MAX_SHM_PAGES /\ IPC_MAX_SHM_PAGES \in Nat
  BY SharedMemoryAssumption DEF Region
<1>3. i \in Index /\ i \in Nat /\ i >= 1 /\ i <= shm.page_count
  BY <1>2 DEF Index
<1>4. shm.phys_pages[i] \in 0 .. ShmFrames /\ shm.phys_pages[i] # 0
  BY <1>3 DEF Region, Filled
<1>5. shm.phys_pages[i] \in Memory /\ shm.phys_pages[i] \in Pages(shm)
  BY <1>4, SharedMemoryAssumption DEF Memory, Pages
<1>6. m[1] = v + i - 1 /\ m[2] = shm.phys_pages[i]
  BY <1>1
<1>7. m[1] - v + 1 = i
  BY <1>3, <1>6
<1>8. m[1] \in Nat /\ v <= m[1] /\ m[1] < v + shm.page_count
  BY <1>2, <1>3, <1>6
<1> QED BY <1>1, <1>5, <1>6, <1>7, <1>8

(* What the invariant says of the states.                                  *)
LEMMA SoundIsRegionsSound == ShmInv => RegionsSound
<1> SUFFICES ASSUME ShmInv PROVE RegionsSound
  OBVIOUS
<1>1. /\ Typed(shm_table, user_space_used, free, mapped)
      /\ \A s \in Slots : shm_table[s].used => Filled(shm_table[s]) /\ Counted(shm_table[s])
      /\ MapsTaken(shm_table, mapped)
      /\ Apart(shm_table, user_space_used)
      /\ Exclusive(shm_table, free)
  BY DEF ShmInv, Sound
<1>2. CountsMatch
  BY <1>1 DEF CountsMatch, Counted, Holders
<1>3. FramesExclusive
  BY <1>1 DEF FramesExclusive, Exclusive
<1>4. ASSUME NEW p \in ShmPids, NEW m \in mapped[p]
      PROVE  \E s \in Taken(shm_table, p) : m \in Mapping(shm_table[s], shm_table[s].virt_per_proc[p])
  BY <1>1, <1>4 DEF MapsTaken
<1>5. ASSUME NEW p \in ShmPids, NEW m \in mapped[p], NEW s \in Taken(shm_table, p),
             m \in Mapping(shm_table[s], shm_table[s].virt_per_proc[p])
      PROVE  /\ m[2] \in Pages(shm_table[s]) /\ m[2] \in Memory
             /\ m[1] \in Nat /\ shm_table[s].virt_per_proc[p] <= m[1] /\ m[1] < End(shm_table[s], p)
             /\ m = <<m[1], shm_table[s].phys_pages[m[1] - shm_table[s].virt_per_proc[p] + 1]>>
  <2>1. shm_table[s] \in Region /\ Filled(shm_table[s]) /\ shm_table[s].virt_per_proc[p] \in Nat
    BY <1>1 DEF Typed, Taken, Region
  <2> QED BY <1>5, <2>1, MappingOfRegion DEF End
<1>6. MappedFramesOwned
  <2> SUFFICES ASSUME NEW p \in ShmPids, NEW m \in mapped[p]
               PROVE  /\ m[2] \notin free
                      /\ \E s \in Slots : shm_table[s].used /\ m[2] \in Pages(shm_table[s])
                                           /\ shm_table[s].virt_per_proc[p] # 0
    BY DEF MappedFramesOwned
  <2>1. PICK s \in Taken(shm_table, p) : m \in Mapping(shm_table[s], shm_table[s].virt_per_proc[p])
    BY <1>4
  <2>2. m[2] \in Pages(shm_table[s])
    BY <1>5, <2>1
  <2>3. s \in Slots /\ shm_table[s].used /\ shm_table[s].virt_per_proc[p] # 0
    BY DEF Taken
  <2>4. Pages(shm_table[s]) \cap free = {}
    BY <1>1, <2>3 DEF Exclusive
  <2> QED BY <2>2, <2>3, <2>4
<1>7. NoAddressTwice
  <2> SUFFICES ASSUME NEW p \in ShmPids, NEW m \in mapped[p], NEW n \in mapped[p], m[1] = n[1]
               PROVE  m = n
    BY DEF NoAddressTwice
  <2>1. PICK s \in Taken(shm_table, p) : m \in Mapping(shm_table[s], shm_table[s].virt_per_proc[p])
    BY <1>4
  <2>2. PICK t \in Taken(shm_table, p) : n \in Mapping(shm_table[t], shm_table[t].virt_per_proc[p])
    BY <1>4
  <2>3. /\ m[1] \in Nat /\ shm_table[s].virt_per_proc[p] <= m[1] /\ m[1] < End(shm_table[s], p)
        /\ m = <<m[1], shm_table[s].phys_pages[m[1] - shm_table[s].virt_per_proc[p] + 1]>>
    BY <1>5, <2>1
  <2>4. /\ shm_table[t].virt_per_proc[p] <= m[1] /\ m[1] < End(shm_table[t], p)
        /\ n = <<n[1], shm_table[t].phys_pages[n[1] - shm_table[t].virt_per_proc[p] + 1]>>
    BY <1>5, <2>2
  <2>5. \A r \in {s, t} : /\ shm_table[r].virt_per_proc[p] \in Nat
                           /\ End(shm_table[r], p) \in Nat
    BY <1>1 DEF Typed, Taken, Region, End
  <2>6. s = t
    BY <1>1, <2>3, <2>4, <2>5 DEF Apart
  <2> QED BY <2>3, <2>4, <2>6
<1> QED BY <1>2, <1>3, <1>6, <1>7 DEF RegionsSound

(* No region exists at first.                                              *)
LEMMA InitShmInv == ShmInit => ShmInv
<1> SUFFICES ASSUME ShmInit PROVE ShmInv
  OBVIOUS
<1>1. \A s \in Slots : ~ shm_table[s].used
  BY DEF ShmInit, ipc_shm_init
<1>2. Typed(shm_table, user_space_used, free, mapped)
  BY SharedMemoryAssumption DEF ShmInit, ipc_shm_init, Typed, Region, NoVirt
<1>3. \A p : Taken(shm_table, p) = {}
  BY <1>1 DEF Taken
<1>4. MapsTaken(shm_table, mapped) /\ Apart(shm_table, user_space_used)
  BY <1>3 DEF MapsTaken, Apart, ShmInit, ipc_shm_init
<1>5. Exclusive(shm_table, free)
  BY <1>1 DEF Exclusive, ShmInit, ipc_shm_init
<1> QED BY <1>1, <1>2, <1>4, <1>5 DEF ShmInv, Sound, ShmInit, ipc_shm_init

-----------------------------------------------------------------------------
(* A fresh region holds the frames it was given, each of them, for one     *)
(* with i frames no larger is the i-th of its array.                       *)
LEMMA NewRegionHolds ==
  ASSUME NEW old \in Region, NEW frames \in SUBSET Memory, Cardinality(frames) \in Index,
         NEW id \in Nat
  PROVE  /\ NewRegion(old, frames, id) \in Region
         /\ NewRegion(old, frames, id).used
         /\ Filled(NewRegion(old, frames, id)) /\ Counted(NewRegion(old, frames, id))
         /\ Holders(NewRegion(old, frames, id)) = {}
         /\ Pages(NewRegion(old, frames, id)) = frames
<1> DEFINE n == Cardinality(frames)
           th(i) == CHOOSE f \in frames : Rank(frames, f) = i
           new == NewRegion(old, frames, id)
<1>1. /\ IsFiniteSet(frames) /\ n \in Nat /\ frames \in SUBSET Nat
      /\ n \in 1 .. IPC_MAX_SHM_PAGES /\ IPC_MAX_SHM_PAGES \in Nat
  BY MemoryIsFinite, SharedMemoryAssumption DEF Memory, Index
<1>2. ASSUME NEW i \in 1 .. n PROVE th(i) \in frames /\ Rank(frames, th(i)) = i
  BY <1>1, RankOnto
<1>3. new = [used |-> TRUE, id |-> id, page_count |-> n,
             phys_pages |-> [i \in Index |-> IF i <= n THEN th(i) ELSE old.phys_pages[i]],
             ref_count |-> 0, virt_per_proc |-> NoVirt]
  BY DEF NewRegion, Rank
<1>4. \A i \in Index : i <= n => i \in 1 .. n
  BY <1>1 DEF Index
<1>5. \A f \in frames : f \in 1 .. ShmFrames
  BY DEF Memory
<1> HIDE DEF th, new
<1>6. new.phys_pages \in [Index -> 0 .. ShmFrames]
  <2>1. \A i \in 1 .. n : th(i) \in 0 .. ShmFrames
    BY <1>2, <1>5, SharedMemoryAssumption
  <2>2. \A i \in Index : old.phys_pages[i] \in 0 .. ShmFrames
    BY DEF Region
  <2> QED BY <1>3, <1>4, <2>1, <2>2
<1>7. new \in Region
  BY <1>1, <1>3, <1>6 DEF Region, NoVirt
<1>8. \A i \in 1 .. n : i \in Index /\ new.phys_pages[i] = th(i)
  BY <1>1, <1>3 DEF Index
<1>9. Filled(new)
  BY <1>2, <1>3, <1>5, <1>8 DEF Filled
<1>10. Holders(new) = {} /\ Counted(new)
  BY <1>3, FS_EmptySet DEF Holders, NoVirt, Counted
<1>11. Pages(new) = frames
  <2>1. Pages(new) = {th(i) : i \in 1 .. n} \ {0}
    BY <1>3, <1>8 DEF Pages
  <2>2. ASSUME NEW f \in frames PROVE \E i \in 1 .. n : f = th(i)
    <3>1. Rank(frames, f) \in 1 .. n
      BY <1>1, RanksAreDistinct
    <3>2. th(Rank(frames, f)) \in frames /\ Rank(frames, th(Rank(frames, f))) = Rank(frames, f)
      BY <1>2, <3>1
    <3>3. ASSUME NEW g \in frames, Rank(frames, g) = Rank(frames, f) PROVE g = f
      <4>1. Rank(frames, g) \in 1 .. n /\ (f < g => Rank(frames, f) < Rank(frames, g))
            /\ (g < f => Rank(frames, g) < Rank(frames, f))
        BY <1>1, RanksAreDistinct
      <4>2. f \in Nat /\ g \in Nat /\ Rank(frames, f) \in Nat
        BY <1>1, <3>1
      <4> QED BY <3>3, <4>1, <4>2
    <3> QED BY <3>1, <3>2, <3>3
  <2> QED BY <1>2, <1>5, <2>1, <2>2
<1>12. new.used
  BY <1>3
<1> QED BY <1>7, <1>9, <1>10, <1>11, <1>12 DEF new

(* A slot that was not in use takes a region nobody is attached to.        *)
LEMMA CreateSound ==
  ASSUME NEW slots, NEW next, NEW fr, NEW mp, Sound(slots, next, fr, mp),
         NEW s \in Slots, ~ slots[s].used,
         NEW frames \in SUBSET fr, Cardinality(frames) \in Index, NEW id \in Nat
  PROVE  Sound([slots EXCEPT ![s] = NewRegion(@, frames, id)], next, fr \ frames, mp)
<1> DEFINE new == NewRegion(slots[s], frames, id)
           T == [slots EXCEPT ![s] = new]
<1>1. /\ Typed(slots, next, fr, mp)
      /\ \A t \in Slots : slots[t].used => Filled(slots[t]) /\ Counted(slots[t])
      /\ MapsTaken(slots, mp) /\ Apart(slots, next) /\ Exclusive(slots, fr)
  BY DEF Sound
<1>2. /\ new \in Region /\ new.used /\ Filled(new) /\ Counted(new)
      /\ Holders(new) = {} /\ Pages(new) = frames
  <2>1. slots[s] \in Region /\ frames \in SUBSET Memory
    BY <1>1 DEF Typed
  <2> QED BY <2>1, NewRegionHolds
<1> HIDE DEF new
<1>3. T[s] = new /\ \A t \in Slots : t # s => T[t] = slots[t]
  BY <1>1 DEF Typed
<1>4. Typed(T, next, fr \ frames, mp)
  BY <1>1, <1>2 DEF Typed
<1> HIDE DEF T
<1>5. \A t \in Slots : T[t].used => Filled(T[t]) /\ Counted(T[t])
  BY <1>1, <1>2, <1>3
<1>6. ASSUME NEW p \in ShmPids
      PROVE  Taken(T, p) = Taken(slots, p) /\ \A t \in Taken(slots, p) : t # s /\ T[t] = slots[t]
  BY <1>2, <1>3 DEF Taken, Holders
<1>7. MapsTaken(T, mp) /\ Apart(T, next)
  BY <1>1, <1>6 DEF MapsTaken, Apart
<1>8. Exclusive(T, fr \ frames)
  <2>1. \A t \in Slots : T[t].used => t = s \/ (slots[t].used /\ T[t] = slots[t])
    BY <1>3
  <2>2. \A t \in Slots : slots[t].used => t # s /\ T[t] = slots[t] /\ Pages(T[t]) \cap fr = {}
    BY <1>1, <1>3 DEF Exclusive
  <2>3. Pages(T[s]) = frames /\ T[s].used
    BY <1>2, <1>3
  <2>4. Memory = (fr \ frames) \cup UNION {Pages(T[r]) : r \in {t \in Slots : T[t].used}}
    <3>1. {Pages(T[r]) : r \in {t \in Slots : T[t].used}}
             = {Pages(slots[r]) : r \in {t \in Slots : slots[t].used}} \cup {frames}
      BY <2>1, <2>2, <2>3
    <3> QED BY <1>1, <3>1 DEF Exclusive
  <2>5. \A t \in Slots : T[t].used => Pages(T[t]) \cap (fr \ frames) = {}
    BY <2>1, <2>2, <2>3
  <2>6. \A r, t \in Slots : T[r].used /\ T[t].used /\ r # t => Pages(T[r]) \cap Pages(T[t]) = {}
    BY <1>1, <2>1, <2>2, <2>3 DEF Exclusive
  <2> QED BY <2>4, <2>5, <2>6 DEF Exclusive
<1>9. Sound(T, next, fr \ frames, mp)
  BY <1>4, <1>5, <1>7, <1>8 DEF Sound
<1> QED BY <1>9 DEF T, new

AttachedTo(shm, p, v) == [shm EXCEPT !.virt_per_proc[p] = v, !.ref_count = @ + 1]

(* Attaching adds one holder at its address and changes nothing else.      *)
LEMMA AttachedRegion ==
  ASSUME NEW shm \in Region, NEW p \in ShmPids, NEW v \in Nat
  PROVE  /\ AttachedTo(shm, p, v) \in Region
         /\ AttachedTo(shm, p, v).used = shm.used
         /\ AttachedTo(shm, p, v).page_count = shm.page_count
         /\ AttachedTo(shm, p, v).phys_pages = shm.phys_pages
         /\ AttachedTo(shm, p, v).ref_count = shm.ref_count + 1
         /\ AttachedTo(shm, p, v).virt_per_proc = [shm.virt_per_proc EXCEPT ![p] = v]
<1>1. [shm.virt_per_proc EXCEPT ![p] = v] \in [ShmPids -> Nat] /\ shm.ref_count + 1 \in Nat
  BY DEF Region
<1>2. AttachedTo(shm, p, v) = [shm EXCEPT !.virt_per_proc = [shm.virt_per_proc EXCEPT ![p] = v],
                                          !.ref_count = shm.ref_count + 1]
  BY DEF Region, AttachedTo
<1> QED BY <1>1, <1>2 DEF Region

(* Attaching maps a region above everything mapped before.                 *)
LEMMA AttachSound ==
  ASSUME NEW slots, NEW fr, NEW mp, Sound(slots, user_space_used, fr, mp),
         NEW s \in Slots, slots[s].used,
         NEW p \in ShmPids, slots[s].virt_per_proc[p] = 0
  PROVE  Sound(AttachIn(slots, p, s), NextVirt(slots[s]), fr,
               [mp EXCEPT ![p] = @ \cup Mapping(slots[s], user_space_used)])
<1> DEFINE next == user_space_used
           new == AttachedTo(slots[s], p, next)
           T == AttachIn(slots, p, s)
           M == [mp EXCEPT ![p] = @ \cup Mapping(slots[s], next)]
<1>1. /\ Typed(slots, next, fr, mp)
      /\ \A t \in Slots : slots[t].used => Filled(slots[t]) /\ Counted(slots[t])
      /\ MapsTaken(slots, mp) /\ Apart(slots, next) /\ Exclusive(slots, fr)
  BY DEF Sound
<1>2. slots[s] \in Region /\ next \in Nat \ {0} /\ slots[s].page_count \in Nat
  BY <1>1, SharedMemoryAssumption DEF Typed, Region
<1>3. T = [slots EXCEPT ![s] = new]
  BY <1>1 DEF AttachIn, AttachedTo, Typed
<1>4. T[s] = new /\ \A t \in Slots : t # s => T[t] = slots[t]
  BY <1>1, <1>3 DEF Typed
<1>5. /\ new.used = slots[s].used /\ new.page_count = slots[s].page_count
      /\ new.phys_pages = slots[s].phys_pages /\ new.ref_count = slots[s].ref_count + 1
      /\ new.virt_per_proc = [slots[s].virt_per_proc EXCEPT ![p] = next]
      /\ new \in Region
  <2> DEFINE shm == slots[s]
             v == user_space_used
  <2>1. shm \in Region /\ v \in Nat
    BY <1>2
  <2> HIDE DEF shm, v, T, M
  <2>2. AttachedTo(shm, p, v) \in Region
    BY <2>1, AttachedRegion, ZenonT(60)
  <2>3. AttachedTo(shm, p, v).used = shm.used
    BY <2>1, AttachedRegion, ZenonT(60)
  <2>4. AttachedTo(shm, p, v).page_count = shm.page_count
    BY <2>1, AttachedRegion, ZenonT(60)
  <2>5. AttachedTo(shm, p, v).phys_pages = shm.phys_pages
    BY <2>1, AttachedRegion, ZenonT(60)
  <2>6. AttachedTo(shm, p, v).ref_count = shm.ref_count + 1
    BY <2>1, AttachedRegion, ZenonT(60)
  <2>7. AttachedTo(shm, p, v).virt_per_proc = [shm.virt_per_proc EXCEPT ![p] = v]
    BY <2>1, AttachedRegion, ZenonT(60)
  <2> QED BY <2>2, <2>3, <2>4, <2>5, <2>6, <2>7 DEF shm, v
<1>6. /\ new.virt_per_proc[p] = next
      /\ \A q \in ShmPids : q # p => new.virt_per_proc[q] = slots[s].virt_per_proc[q]
  BY <1>2, <1>5 DEF Region
<1>7. \A v : Mapping(new, v) = Mapping(slots[s], v)
  BY <1>5 DEF Mapping
<1>8. Pages(new) = Pages(slots[s]) /\ Filled(new)
  BY <1>1, <1>5 DEF Pages, Filled
<1>9. Counted(new)
  <2>1. Holders(new) = Holders(slots[s]) \cup {p} /\ p \notin Holders(slots[s])
    BY <1>2, <1>6 DEF Holders
  <2>2. Cardinality(Holders(new)) = Cardinality(Holders(slots[s])) + 1
    BY <2>1, HoldersAreFinite, FS_AddElement, ZenonT(60)
  <2> QED BY <1>1, <1>5, <2>2 DEF Counted
<1> HIDE DEF new, T
<1>10. Mapping(slots[s], next) \in SUBSET (Nat \X Memory)
  <2>1. Filled(slots[s])
    BY <1>1
  <2>2. ASSUME NEW m \in Mapping(slots[s], next) PROVE m \in Nat \X Memory
    <3>1. m[2] \in Memory /\ m[1] \in Nat /\ m = <<m[1], slots[s].phys_pages[m[1] - next + 1]>>
      BY <1>2, <2>1, MappingOfRegion
    <3> QED BY <3>1
  <2> QED BY <2>2
<1>11. Typed(T, next + slots[s].page_count, fr, M)
  <2>1. T \in [Slots -> Region]
    BY <1>1, <1>3, <1>5 DEF Typed
  <2>2. M \in [ShmPids -> SUBSET (Nat \X Memory)]
    BY <1>1, <1>10 DEF Typed
  <2> QED BY <1>1, <1>2, <2>1, <2>2 DEF Typed
<1>12. \A t \in Slots : T[t].used => Filled(T[t]) /\ Counted(T[t])
  BY <1>1, <1>4, <1>8, <1>9
<1>13. ASSUME NEW q \in ShmPids, q # p
       PROVE  /\ Taken(T, q) = Taken(slots, q) /\ M[q] = mp[q]
              /\ \A t \in Slots : /\ T[t].virt_per_proc[q] = slots[t].virt_per_proc[q]
                                  /\ T[t].page_count = slots[t].page_count
                                  /\ \A v : Mapping(T[t], v) = Mapping(slots[t], v)
  <2>1. \A t \in Slots : /\ T[t].virt_per_proc[q] = slots[t].virt_per_proc[q]
                         /\ T[t].used = slots[t].used /\ T[t].page_count = slots[t].page_count
                         /\ \A v : Mapping(T[t], v) = Mapping(slots[t], v)
    <3> SUFFICES ASSUME NEW t \in Slots
                 PROVE  /\ T[t].virt_per_proc[q] = slots[t].virt_per_proc[q]
                        /\ T[t].used = slots[t].used /\ T[t].page_count = slots[t].page_count
                        /\ \A v : Mapping(T[t], v) = Mapping(slots[t], v)
      OBVIOUS
    <3>1. CASE t = s
      BY <1>4, <1>5, <1>6, <1>7, <1>13, <3>1
    <3>2. CASE t # s
      BY <1>4, <3>2
    <3> QED BY <3>1, <3>2
  <2>2. Taken(T, q) = Taken(slots, q)
    BY <2>1 DEF Taken
  <2>3. M[q] = mp[q]
    BY <1>1, <1>13 DEF Typed
  <2> QED BY <2>1, <2>2, <2>3
<1>14. /\ Taken(T, p) = Taken(slots, p) \cup {s} /\ s \notin Taken(slots, p)
       /\ \A t \in Taken(slots, p) : t # s /\ T[t] = slots[t]
       /\ M[p] = mp[p] \cup Mapping(slots[s], next)
  <2>1. M[p] = mp[p] \cup Mapping(slots[s], next)
    BY <1>1 DEF Typed
  <2>2. s \notin Taken(slots, p)
    BY DEF Taken
  <2>3. Taken(T, p) = Taken(slots, p) \cup {s}
    BY <1>2, <1>4, <1>5, <1>6, <2>2, ZenonT(60) DEF Taken
  <2> QED BY <1>4, <2>1, <2>2, <2>3 DEF Taken
<1>15. MapsTaken(T, M)
  <2> SUFFICES ASSUME NEW q \in ShmPids
               PROVE  M[q] = UNION {Mapping(T[t], T[t].virt_per_proc[q]) : t \in Taken(T, q)}
    BY DEF MapsTaken
  <2> HIDE DEF M
  <2>1. mp[q] = UNION {Mapping(slots[t], slots[t].virt_per_proc[q]) : t \in Taken(slots, q)}
    BY <1>1 DEF MapsTaken
  <2>2. CASE q # p
    <3>1. \A t \in Taken(slots, q) : Mapping(T[t], T[t].virt_per_proc[q])
                                      = Mapping(slots[t], slots[t].virt_per_proc[q])
      <4> SUFFICES ASSUME NEW t \in Taken(slots, q)
                   PROVE  Mapping(T[t], T[t].virt_per_proc[q]) = Mapping(slots[t], slots[t].virt_per_proc[q])
        OBVIOUS
      <4>1. t \in Slots
        BY DEF Taken
      <4>2. T[t].virt_per_proc[q] = slots[t].virt_per_proc[q]
        BY <1>13, <2>2, <4>1
      <4>3. Mapping(T[t], slots[t].virt_per_proc[q]) = Mapping(slots[t], slots[t].virt_per_proc[q])
        BY <1>13, <2>2, <4>1
      <4> QED BY <4>2, <4>3
    <3>2. Taken(T, q) = Taken(slots, q) /\ M[q] = mp[q]
      BY <1>13, <2>2
    <3> QED BY <2>1, <3>1, <3>2
  <2>3. CASE q = p
    <3>1. Mapping(T[s], T[s].virt_per_proc[p]) = Mapping(slots[s], next)
      BY <1>4, <1>6, <1>7
    <3>2. {Mapping(T[t], T[t].virt_per_proc[p]) : t \in Taken(T, p)}
            = {Mapping(slots[t], slots[t].virt_per_proc[p]) : t \in Taken(slots, p)}
              \cup {Mapping(slots[s], next)}
      BY <1>14, <3>1
    <3> QED BY <1>14, <2>1, <2>3, <3>2
  <2> QED BY <2>2, <2>3
<1>16. Apart(T, next + slots[s].page_count)
  <2> SUFFICES ASSUME NEW q \in ShmPids, NEW r \in Taken(T, q)
               PROVE  /\ End(T[r], q) <= next + slots[s].page_count
                      /\ \A t \in Taken(T, q) :
                           r # t => \/ End(T[r], q) <= T[t].virt_per_proc[q]
                                    \/ End(T[t], q) <= T[r].virt_per_proc[q]
    BY DEF Apart
  <2>1. \A t \in Taken(slots, q) : End(slots[t], q) \in Nat
    BY <1>1, SharedMemoryAssumption DEF Taken, Typed, Region, End
  <2>2. CASE q # p
    <3>1. Taken(T, q) = Taken(slots, q)
      BY <1>13, <2>2
    <3>2. \A t \in Taken(slots, q) : /\ End(T[t], q) = End(slots[t], q)
                                      /\ T[t].virt_per_proc[q] = slots[t].virt_per_proc[q]
      BY <1>13, <2>2 DEF Taken, End
    <3> QED BY <1>1, <1>2, <2>1, <3>1, <3>2 DEF Apart
  <2>3. CASE q = p
    <3>1. End(T[s], p) = next + slots[s].page_count /\ T[s].virt_per_proc[p] = next
      BY <1>4, <1>5, <1>6 DEF End
    <3>2. \A t \in Taken(slots, p) : T[t] = slots[t] /\ End(slots[t], p) <= next
      BY <1>1, <1>14 DEF Apart
    <3>3. Taken(T, p) = Taken(slots, p) \cup {s}
      BY <1>14
    <3> QED BY <1>1, <1>2, <2>1, <2>3, <3>1, <3>2, <3>3 DEF Apart
  <2> QED BY <2>2, <2>3
<1>17. Exclusive(T, fr)
  <2>1. ASSUME NEW t \in Slots PROVE T[t].used = slots[t].used /\ Pages(T[t]) = Pages(slots[t])
    <3>1. CASE t = s
      BY <1>4, <1>5, <1>8, <3>1
    <3>2. CASE t # s
      BY <1>4, <3>2
    <3> QED BY <3>1, <3>2
  <2> QED BY <1>1, <2>1, SMTT(60) DEF Exclusive
<1>18. Sound(T, next + slots[s].page_count, fr, M)
  BY <1>11, <1>12, <1>15, <1>16, <1>17 DEF Sound
<1> QED BY <1>18 DEF T, NextVirt

(* The count reaches zero when the last process detaches, and no sooner.   *)
LEMMA LastGoneIsAlone ==
  ASSUME NEW shm \in Region, Counted(shm), NEW p \in Holders(shm)
  PROVE  LastGone(shm) <=> Holders(shm) = {p}
<1>1. IsFiniteSet(Holders(shm)) /\ Cardinality(Holders(shm)) \in Nat
  BY HoldersAreFinite
<1>2. Cardinality(Holders(shm)) # 0
  BY <1>1, FS_EmptySet
<1>3. Cardinality(Holders(shm)) = 1 <=> \E x : Holders(shm) = {x}
  BY <1>1, FS_Singleton
<1>4. LastGone(shm) <=> Cardinality(Holders(shm)) = 1
  BY <1>1, <1>2 DEF LastGone, Counted, Region
<1> QED BY <1>3, <1>4

(* Detaching takes one holder away, and the region with the last.          *)
LEMMA DetachedRegion ==
  ASSUME NEW shm \in Region, shm.used, Counted(shm), NEW p \in Holders(shm)
  PROVE  /\ Detached(shm, p) \in Region
         /\ Detached(shm, p).virt_per_proc = [shm.virt_per_proc EXCEPT ![p] = 0]
         /\ Detached(shm, p).used <=> ~ LastGone(shm)
         /\ ~ LastGone(shm) => /\ Detached(shm, p).page_count = shm.page_count
                               /\ Detached(shm, p).phys_pages = shm.phys_pages
                               /\ Counted(Detached(shm, p))
<1> DEFINE virt == [shm.virt_per_proc EXCEPT ![p] = 0]
           cleared == [i \in Index |-> IF i <= shm.page_count THEN 0 ELSE shm.phys_pages[i]]
<1>1. p \in ShmPids /\ virt \in [ShmPids -> Nat]
  BY DEF Holders, Region
<1>2. cleared \in [Index -> 0 .. ShmFrames]
  BY SharedMemoryAssumption DEF Region
<1>3. shm = [used |-> shm.used, id |-> shm.id, page_count |-> shm.page_count,
             phys_pages |-> shm.phys_pages, ref_count |-> shm.ref_count,
             virt_per_proc |-> shm.virt_per_proc]
  BY DEF Region
<1> HIDE DEF virt, cleared
<1>4. CASE LastGone(shm)
  <2>1. Detached(shm, p) = [shm EXCEPT !.virt_per_proc = virt, !.used = FALSE, !.ref_count = 0,
                                       !.phys_pages = cleared]
    BY <1>3, <1>4 DEF Detached, virt, cleared
  <2> QED BY <1>1, <1>2, <1>4, <2>1 DEF Region, virt
<1>5. CASE ~ LastGone(shm)
  <2>1. Detached(shm, p) = [shm EXCEPT !.virt_per_proc = virt, !.ref_count = shm.ref_count - 1]
    BY <1>3, <1>5 DEF Detached, virt
  <2>2. shm.ref_count - 1 \in Nat
    BY <1>5 DEF LastGone, Region
  <2>3. /\ Detached(shm, p) \in Region /\ Detached(shm, p).virt_per_proc = virt
        /\ Detached(shm, p).ref_count = shm.ref_count - 1
        /\ Detached(shm, p).page_count = shm.page_count
        /\ Detached(shm, p).phys_pages = shm.phys_pages /\ Detached(shm, p).used
    BY <1>1, <2>1, <2>2 DEF Region
  <2>4. Holders(Detached(shm, p)) = Holders(shm) \ {p}
    BY <1>1, <2>3 DEF Holders, Region, virt
  <2>5. Cardinality(Holders(shm) \ {p}) = Cardinality(Holders(shm)) - 1
    BY HoldersAreFinite, FS_RemoveElement
  <2> QED BY <1>5, <2>3, <2>4, <2>5 DEF Counted, virt
<1> QED BY <1>4, <1>5

(* Detaching a process from some of its regions.                           *)
LEMMA DetachSound ==
  ASSUME NEW slots, NEW next, NEW fr, NEW mp, Sound(slots, next, fr, mp),
         NEW p \in ShmPids, NEW gone \in SUBSET Taken(slots, p)
  PROVE  Sound([s \in Slots |-> IF s \in gone THEN Detached(slots[s], p) ELSE slots[s]], next,
               fr \cup UNION {Released(slots[s]) : s \in {t \in gone : LastGone(slots[t])}},
               [mp EXCEPT ![p] =
                  @ \ UNION {Mapping(slots[s], slots[s].virt_per_proc[p]) : s \in gone}])
<1> DEFINE T == [s \in Slots |-> IF s \in gone THEN Detached(slots[s], p) ELSE slots[s]]
           dead == {t \in gone : LastGone(slots[t])}
           F == fr \cup UNION {Released(slots[s]) : s \in dead}
           cut == UNION {Mapping(slots[s], slots[s].virt_per_proc[p]) : s \in gone}
           M == [mp EXCEPT ![p] = @ \ cut]
<1>1. /\ Typed(slots, next, fr, mp)
      /\ \A t \in Slots : slots[t].used => Filled(slots[t]) /\ Counted(slots[t])
      /\ MapsTaken(slots, mp) /\ Apart(slots, next) /\ Exclusive(slots, fr)
  BY DEF Sound
<1>2. \A s \in Slots : slots[s] \in Region
  BY <1>1 DEF Typed
<1>3. \A s \in gone : s \in Slots /\ slots[s].used /\ p \in Holders(slots[s])
  BY DEF Taken, Holders
<1>4. ASSUME NEW s \in gone
      PROVE  /\ T[s] \in Region
             /\ T[s].virt_per_proc = [slots[s].virt_per_proc EXCEPT ![p] = 0]
             /\ T[s].used <=> s \notin dead
             /\ s \notin dead => /\ T[s].page_count = slots[s].page_count
                                 /\ T[s].phys_pages = slots[s].phys_pages
                                 /\ Counted(T[s])
             /\ s \in dead => Holders(slots[s]) = {p}
  <2>1. T[s] = Detached(slots[s], p) /\ (s \in dead <=> LastGone(slots[s]))
    BY <1>3
  <2>2. slots[s] \in Region /\ slots[s].used /\ Counted(slots[s]) /\ p \in Holders(slots[s])
    BY <1>1, <1>2, <1>3
  <2> HIDE DEF T, dead
  <2>3. /\ Detached(slots[s], p) \in Region
        /\ Detached(slots[s], p).virt_per_proc = [slots[s].virt_per_proc EXCEPT ![p] = 0]
        /\ Detached(slots[s], p).used <=> ~ LastGone(slots[s])
        /\ ~ LastGone(slots[s]) => /\ Detached(slots[s], p).page_count = slots[s].page_count
                                   /\ Detached(slots[s], p).phys_pages = slots[s].phys_pages
                                   /\ Counted(Detached(slots[s], p))
    BY <2>2, DetachedRegion
  <2>4. LastGone(slots[s]) <=> Holders(slots[s]) = {p}
    BY <2>2, LastGoneIsAlone
  <2> QED BY <2>1, <2>3, <2>4
<1>5. \A s \in Slots : s \notin gone => T[s] = slots[s]
  OBVIOUS
<1>6. T \in [Slots -> Region]
  <2>1. \A s \in Slots : T[s] \in Region
    BY <1>2, <1>4, <1>5
  <2> QED BY <2>1
<1>7. dead \subseteq gone /\ gone \subseteq Slots
  BY <1>3
<1>8. \A s \in dead : Released(slots[s]) = Pages(slots[s])
  BY DEF Released
<1> HIDE DEF T, dead
<1>9. ASSUME NEW s \in Slots
      PROVE  /\ T[s].used <=> slots[s].used /\ s \notin dead
             /\ T[s].used => /\ T[s].page_count = slots[s].page_count
                             /\ T[s].phys_pages = slots[s].phys_pages
                             /\ Counted(T[s])
             /\ \A q \in ShmPids : T[s].virt_per_proc[q] =
                  IF s \in gone /\ q = p THEN 0 ELSE slots[s].virt_per_proc[q]
  <2>1. CASE s \in gone
    <3>1. slots[s].virt_per_proc \in [ShmPids -> Nat]
      BY <1>2 DEF Region
    <3> QED BY <1>3, <1>4, <2>1, <3>1, ZenonT(60)
  <2>2. CASE s \notin gone
    BY <1>1, <1>5, <1>7, <2>2
  <2> QED BY <2>1, <2>2
<1>10. ASSUME NEW s \in Slots, T[s].used
       PROVE  /\ Pages(T[s]) = Pages(slots[s]) /\ Filled(T[s])
              /\ \A v : Mapping(T[s], v) = Mapping(slots[s], v)
  <2>1. T[s].page_count = slots[s].page_count /\ T[s].phys_pages = slots[s].phys_pages
        /\ Filled(slots[s])
    BY <1>1, <1>9, <1>10
  <2> QED BY <2>1 DEF Pages, Filled, Mapping
<1>11. Typed(T, next, F, M)
  <2>1. \A s \in Slots : Pages(slots[s]) \subseteq Memory
    <3> SUFFICES ASSUME NEW s \in Slots, NEW f \in Pages(slots[s]) PROVE f \in Memory
      OBVIOUS
    <3>1. PICK i \in 1 .. slots[s].page_count : f = slots[s].phys_pages[i] /\ f # 0
      BY DEF Pages
    <3>2. i \in Index
      BY <1>2, SharedMemoryAssumption, SMTT(60) DEF Region, Index
    <3>3. f \in 0 .. ShmFrames
      BY <1>2, <3>1, <3>2 DEF Region
    <3> QED BY <3>1, <3>3, SharedMemoryAssumption DEF Memory
  <2>2. F \subseteq Memory
    BY <1>1, <1>7, <1>8, <2>1 DEF Typed
  <2>3. M \in [ShmPids -> SUBSET (Nat \X Memory)]
    BY <1>1 DEF Typed
  <2> QED BY <1>1, <1>6, <2>2, <2>3 DEF Typed
<1>12. ASSUME NEW q \in ShmPids, q # p
       PROVE  Taken(T, q) = Taken(slots, q) /\ M[q] = mp[q]
  <2>1. \A s \in dead : q \notin Holders(slots[s])
    BY <1>4, <1>7, <1>12, ZenonT(60)
  <2>2. \A s \in Slots : s \in Taken(T, q) <=> s \in Taken(slots, q)
    BY <1>9, <1>12, <2>1 DEF Taken, Holders
  <2>3. M[q] = mp[q]
    BY <1>1, <1>12 DEF Typed
  <2> QED BY <2>2, <2>3 DEF Taken
<1>13. Taken(T, p) = Taken(slots, p) \ gone /\ M[p] = mp[p] \ cut
  <2>1. \A s \in Slots : s \in Taken(T, p) <=> s \in Taken(slots, p) /\ s \notin gone
    BY <1>7, <1>9 DEF Taken
  <2>2. M[p] = mp[p] \ cut
    BY <1>1 DEF Typed
  <2> QED BY <2>1, <2>2 DEF Taken
<1>14. ASSUME NEW q \in ShmPids, NEW s \in Taken(T, q)
       PROVE  /\ s \in Taken(slots, q) /\ s \in Slots /\ T[s].used
              /\ T[s].virt_per_proc[q] = slots[s].virt_per_proc[q]
              /\ End(T[s], q) = End(slots[s], q)
              /\ Mapping(T[s], T[s].virt_per_proc[q]) = Mapping(slots[s], slots[s].virt_per_proc[q])
  <2>1. s \in Slots /\ T[s].used
    BY DEF Taken
  <2>2. s \in Taken(slots, q) /\ ~ (s \in gone /\ q = p)
    BY <1>12, <1>13
  <2>3. T[s].virt_per_proc[q] = slots[s].virt_per_proc[q] /\ T[s].page_count = slots[s].page_count
    BY <1>9, <2>1, <2>2
  <2> QED BY <1>10, <2>1, <2>2, <2>3 DEF End
<1>15. MapsTaken(T, M)
  <2> SUFFICES ASSUME NEW q \in ShmPids
               PROVE  M[q] = UNION {Mapping(T[t], T[t].virt_per_proc[q]) : t \in Taken(T, q)}
    BY DEF MapsTaken
  <2> HIDE DEF M
  <2>1. mp[q] = UNION {Mapping(slots[t], slots[t].virt_per_proc[q]) : t \in Taken(slots, q)}
    BY <1>1 DEF MapsTaken
  <2>2. {Mapping(T[t], T[t].virt_per_proc[q]) : t \in Taken(T, q)}
          = {Mapping(slots[t], slots[t].virt_per_proc[q]) : t \in Taken(T, q)}
    BY <1>14
  <2>3. CASE q # p
    BY <1>12, <2>1, <2>2, <2>3
  <2>4. CASE q = p
    <3>1. ASSUME NEW s \in Taken(slots, p) \ gone, NEW t \in gone,
                 NEW m \in Mapping(slots[s], slots[s].virt_per_proc[p]),
                 m \in Mapping(slots[t], slots[t].virt_per_proc[p])
          PROVE  FALSE
      <4>1. s \in Slots /\ slots[s].used /\ t \in Slots /\ slots[t].used /\ t \in Taken(slots, p)
        BY <1>3 DEF Taken
      <4>2. \A r \in {s, t} : /\ slots[r] \in Region /\ Filled(slots[r])
                               /\ slots[r].virt_per_proc[p] \in Nat
        BY <1>1, <1>2, <4>1 DEF Region
      <4>3. m[1] \in Nat /\ slots[s].virt_per_proc[p] <= m[1] /\ m[1] < End(slots[s], p)
        BY <4>2, MappingOfRegion DEF End
      <4>4. slots[t].virt_per_proc[p] <= m[1] /\ m[1] < End(slots[t], p)
        BY <3>1, <4>2, MappingOfRegion DEF End
      <4>5. \A r \in {s, t} : End(slots[r], p) \in Nat
        BY <4>2, SharedMemoryAssumption DEF Region, End
      <4>6. \/ End(slots[s], p) <= slots[t].virt_per_proc[p]
            \/ End(slots[t], p) <= slots[s].virt_per_proc[p]
        BY <1>1, <4>1 DEF Apart
      <4> DEFINE at(r) == slots[r].virt_per_proc[p]
                 to(r) == End(slots[r], p)
                 page == m[1]
      <4>7. at(s) \in Nat /\ at(t) \in Nat /\ to(s) \in Nat /\ to(t) \in Nat /\ page \in Nat
        BY <4>2, <4>3, <4>5
      <4>8. at(s) <= page /\ page < to(s) /\ at(t) <= page /\ page < to(t)
        BY <4>3, <4>4
      <4>9. to(s) <= at(t) \/ to(t) <= at(s)
        BY <4>6
      <4> HIDE DEF at, to, page, T, M, F
      <4> QED BY <4>7, <4>8, <4>9, SMTT(30)
    <3>2. M[p] = mp[p] \ cut /\ Taken(T, p) = Taken(slots, p) \ gone
      BY <1>13
    <3>3. mp[p] \ cut = UNION {Mapping(slots[t], slots[t].virt_per_proc[p]) :
                                 t \in Taken(slots, p) \ gone}
      <4> DEFINE of(t) == Mapping(slots[t], slots[t].virt_per_proc[p])
                 stay == Taken(slots, p) \ gone
      <4>1. mp[p] = UNION {of(t) : t \in Taken(slots, p)}
        BY <2>1, <2>4
      <4>2. \A t \in stay, u \in gone : of(t) \cap of(u) = {}
        BY <3>1
      <4>3. stay \cup gone = Taken(slots, p)
        OBVIOUS
      <4>4. UNION {of(t) : t \in stay} = mp[p] \ UNION {of(u) : u \in gone}
        <5> HIDE DEF of, stay, T, M, F
        <5> QED BY <4>1, <4>2, <4>3
      <4> QED BY <4>4
    <3> DEFINE kept == {Mapping(slots[t], slots[t].virt_per_proc[p]) : t \in Taken(slots, p) \ gone}
    <3>4. Taken(T, q) = Taken(slots, p) \ gone
      BY <2>4, <3>2
    <3>5. {Mapping(slots[t], slots[t].virt_per_proc[q]) : t \in Taken(T, q)} = kept
      BY <2>4, <3>4
    <3>6. M[q] = UNION kept
      BY <2>4, <3>2, <3>3
    <3> HIDE DEF kept
    <3> QED BY <2>2, <3>5, <3>6
  <2> QED BY <2>3, <2>4
<1>16. Apart(T, next)
  BY <1>1, <1>14 DEF Apart
<1>17. Exclusive(T, F)
  <2>1. \A s \in Slots : T[s].used => /\ slots[s].used /\ s \notin dead
                                      /\ Pages(T[s]) = Pages(slots[s])
    BY <1>9, <1>10
  <2>2. \A s \in Slots : slots[s].used => T[s].used \/ s \in dead
    BY <1>9
  <2>3. \A s \in dead : s \in Slots /\ slots[s].used
    BY <1>3, <1>7
  <2>4. F = fr \cup UNION {Pages(slots[s]) : s \in dead}
    BY <1>8
  <2> HIDE DEF F
  <2>5. Memory = F \cup UNION {Pages(T[r]) : r \in {t \in Slots : T[t].used}}
    <3>1. Memory = fr \cup UNION {Pages(slots[r]) : r \in {t \in Slots : slots[t].used}}
      BY <1>1 DEF Exclusive
    <3>2. {Pages(slots[r]) : r \in {t \in Slots : slots[t].used}}
            = {Pages(slots[s]) : s \in dead} \cup {Pages(T[r]) : r \in {t \in Slots : T[t].used}}
      BY <2>1, <2>2, <2>3
    <3> QED BY <2>4, <3>1, <3>2
  <2>6. \A s \in Slots : T[s].used => Pages(T[s]) \cap F = {}
    BY <1>1, <2>1, <2>3, <2>4 DEF Exclusive
  <2>7. \A r, t \in Slots : T[r].used /\ T[t].used /\ r # t => Pages(T[r]) \cap Pages(T[t]) = {}
    BY <1>1, <2>1 DEF Exclusive
  <2> QED BY <2>5, <2>6, <2>7 DEF Exclusive
<1>18. \A s \in Slots : T[s].used => Filled(T[s]) /\ Counted(T[s])
  BY <1>9, <1>10
<1>19. Sound(T, next, F, M)
  BY <1>11, <1>15, <1>16, <1>17, <1>18 DEF Sound
<1> QED BY <1>19 DEF T, dead

-----------------------------------------------------------------------------
(* The numbers a creation that fails leaves behind are frame numbers.      *)
LEMMA OrderExists ==
  ASSUME NEW S \in SUBSET Memory
  PROVE  \E q \in [1 .. Cardinality(S) -> S] : \A i, j \in DOMAIN q : i < j => q[i] < q[j]
<1> DEFINE n == Cardinality(S)
           q == [i \in 1 .. n |-> CHOOSE f \in S : Rank(S, f) = i]
<1>1. IsFiniteSet(S) /\ n \in Nat /\ S \in SUBSET Nat
  BY MemoryIsFinite DEF Memory
<1>2. \A i \in 1 .. n : q[i] \in S /\ Rank(S, q[i]) = i
  BY <1>1, RankOnto
<1>3. q \in [1 .. n -> S] /\ DOMAIN q = 1 .. n
  BY <1>2
<1> HIDE DEF q
<1>4. ASSUME NEW i \in 1 .. n, NEW j \in 1 .. n, i < j PROVE q[i] < q[j]
  <2>1. q[i] \in S /\ q[j] \in S /\ Rank(S, q[i]) = i /\ Rank(S, q[j]) = j
    BY <1>2
  <2>2. q[j] < q[i] => Rank(S, q[j]) < Rank(S, q[i])
    BY <1>1, <2>1, RanksAreDistinct
  <2>3. q[i] \in Nat /\ q[j] \in Nat
    BY <1>1, <2>1
  <2>4. i \in Nat /\ j \in Nat
    BY <1>1
  <2> QED BY <1>4, <2>1, <2>2, <2>3, <2>4
<1> QED BY <1>3, <1>4

(* A creation that runs out of frames keeps the invariant.                 *)
LEMMA CreateFailsShmInv ==
  ASSUME ShmInv, NEW pages, shm_create_fails(pages)
  PROVE  ShmInv'
<1> DEFINE s == Min(Free_slots)
           n == Cardinality(free)
           order == CHOOSE q \in [1 .. n -> free] : \A i, j \in DOMAIN q : i < j => q[i] < q[j]
           left == [i \in Index |-> IF i <= n THEN order[i] ELSE shm_table[s].phys_pages[i]]
<1>1. /\ Typed(shm_table, user_space_used, free, mapped)
      /\ \A t \in Slots : shm_table[t].used => Filled(shm_table[t]) /\ Counted(shm_table[t])
      /\ MapsTaken(shm_table, mapped) /\ Apart(shm_table, user_space_used)
      /\ Exclusive(shm_table, free)
  BY DEF ShmInv, Sound
<1>2. s \in Slots /\ ~ shm_table[s].used
  BY FirstFreeSlot DEF shm_create_fails, Free_slots
<1>3. free \in SUBSET Memory /\ n \in Nat
  BY <1>1, MemoryIsFinite DEF Typed
<1>4. order \in [1 .. n -> free]
  BY <1>3, OrderExists
<1> HIDE DEF order
<1>5. left \in [Index -> 0 .. ShmFrames]
  <2>1. ASSUME NEW i \in Index, i <= n PROVE order[i] \in 0 .. ShmFrames
    <3>1. i \in 1 .. n
      BY <1>3, <2>1, SharedMemoryAssumption DEF Index
    <3>2. order[i] \in 1 .. ShmFrames
      BY <1>3, <1>4, <3>1 DEF Memory
    <3> QED BY <3>2
  <2>2. \A i \in Index : shm_table[s].phys_pages[i] \in 0 .. ShmFrames
    BY <1>1, <1>2 DEF Typed, Region
  <2> QED BY <2>1, <2>2
<1>6. shm_table' = [shm_table EXCEPT ![s].phys_pages = left]
  BY DEF shm_create_fails, left, order
<1> HIDE DEF s, left
<1>7. /\ shm_table'[s] = [shm_table[s] EXCEPT !.phys_pages = left]
      /\ \A t \in Slots : t # s => shm_table'[t] = shm_table[t]
      /\ shm_table' \in [Slots -> Region]
  <2>1. [shm_table[s] EXCEPT !.phys_pages = left] \in Region
    BY <1>1, <1>2, <1>5 DEF Typed, Region
  <2>2. shm_table' = [shm_table EXCEPT ![s] = [shm_table[s] EXCEPT !.phys_pages = left]]
    BY <1>1, <1>2, <1>6 DEF Typed
  <2> QED BY <1>1, <1>2, <2>1, <2>2 DEF Typed
<1>8. ~ shm_table'[s].used
  BY <1>1, <1>2, <1>7 DEF Typed, Region
<1>9. \A t \in Slots : shm_table[t].used => t # s
  BY <1>2
<1>10. \A t \in Slots : shm_table'[t].used => t # s
  BY <1>8
<1>11. user_space_used' = user_space_used /\ free' = free /\ mapped' = mapped
       /\ shm_counter' = shm_counter
  BY DEF shm_create_fails
<1>12. Typed(shm_table', user_space_used', free', mapped')
  BY <1>1, <1>7, <1>11 DEF Typed
<1>13. \A t \in Slots : shm_table'[t].used => Filled(shm_table'[t]) /\ Counted(shm_table'[t])
  BY <1>1, <1>7, <1>10
<1>14. ASSUME NEW p \in ShmPids
       PROVE  /\ Taken(shm_table', p) = Taken(shm_table, p)
              /\ \A t \in Taken(shm_table, p) : shm_table'[t] = shm_table[t]
  BY <1>7, <1>9, <1>10 DEF Taken
<1>15. MapsTaken(shm_table', mapped') /\ Apart(shm_table', user_space_used')
  BY <1>1, <1>11, <1>14 DEF MapsTaken, Apart
<1>16. Exclusive(shm_table', free')
  <2>1. {t \in Slots : shm_table'[t].used} = {t \in Slots : shm_table[t].used}
    BY <1>7, <1>9, <1>10
  <2>2. \A t \in Slots : shm_table'[t].used => shm_table[t].used /\ shm_table'[t] = shm_table[t]
    BY <1>7, <1>10
  <2>3. {Pages(shm_table'[r]) : r \in {t \in Slots : shm_table'[t].used}}
          = {Pages(shm_table[r]) : r \in {t \in Slots : shm_table[t].used}}
    BY <2>1, <2>2
  <2> QED BY <1>1, <1>11, <2>2, <2>3 DEF Exclusive
<1>17. Sound(shm_table', user_space_used', free', mapped')
  BY <1>12, <1>13, <1>15, <1>16 DEF Sound
<1> QED BY <1>11, <1>17 DEF ShmInv

(* Creating a region and attaching its creator keeps the invariant.        *)
LEMMA MmapCreateShmInv ==
  ASSUME ShmInv, NEW p \in ShmPids, NEW pages, mmap_create(p, pages)
  PROVE  ShmInv'
<1> DEFINE s == Min(Free_slots)
<1>1. Sound(shm_table, user_space_used, free, mapped) /\ shm_counter \in Nat
  BY DEF ShmInv
<1>2. PICK frames \in SUBSET free :
        /\ Cardinality(frames) = pages /\ pages \in Index
        /\ free' = free \ frames /\ shm_counter' = shm_counter + 1
        /\ IF p < ShmMaxProcs
           THEN /\ shm_table' = AttachIn(create_in(s, frames), p, s)
                /\ mapped' = [mapped EXCEPT ![p] = @ \cup Mapping(create_in(s, frames)[s], user_space_used)]
                /\ user_space_used' = NextVirt(create_in(s, frames)[s])
           ELSE shm_table' = create_in(s, frames) /\ UNCHANGED <<mapped, user_space_used>>
  BY DEF mmap_create
<1>3. s \in Slots /\ ~ shm_table[s].used
  BY FirstFreeSlot DEF mmap_create, Free_slots
<1> HIDE DEF s
<1> DEFINE T == create_in(s, frames)
<1>4. Sound(T, user_space_used, free', mapped)
  BY <1>1, <1>2, <1>3, CreateSound DEF create_in
<1>5. CASE ~ (p < ShmMaxProcs)
  BY <1>1, <1>2, <1>4, <1>5 DEF ShmInv
<1>6. CASE p < ShmMaxProcs
  <2>1. /\ T[s].used /\ T[s].virt_per_proc[p] = 0
    <3>1. T[s] = NewRegion(shm_table[s], frames, shm_counter)
      BY <1>1, <1>3 DEF create_in, Sound, Typed
    <3> QED BY <3>1 DEF NewRegion, NoVirt
  <2> HIDE DEF T
  <2>2. Sound(AttachIn(T, p, s), NextVirt(T[s]), free',
              [mapped EXCEPT ![p] = @ \cup Mapping(T[s], user_space_used)])
    BY <1>3, <1>4, <2>1, AttachSound
  <2>3. shm_counter' \in Nat
    BY <1>1, <1>2
  <2> QED BY <1>2, <1>6, <2>2, <2>3 DEF ShmInv, T
<1> QED BY <1>5, <1>6

(* Every call keeps the invariant.                                         *)
LEMMA NextShmInv == ShmInv /\ [ShmNext]_shmVars => ShmInv'
<1> SUFFICES ASSUME ShmInv, [ShmNext]_shmVars PROVE ShmInv'
  OBVIOUS
<1>1. Sound(shm_table, user_space_used, free, mapped) /\ shm_counter \in Nat
  BY DEF ShmInv
<1>2. ASSUME NEW p \in ShmPids, NEW pages \in Index, mmap_create(p, pages) PROVE ShmInv'
  BY <1>2, MmapCreateShmInv
<1>3. ASSUME NEW pages \in Index, shm_create_fails(pages) PROVE ShmInv'
  BY <1>3, CreateFailsShmInv
<1>4. ASSUME NEW p \in ShmPids, NEW id, shm_attach(p, id) PROVE ShmInv'
  <2>1. PICK s \in shm_find(id) :
          /\ shm_table[s].virt_per_proc[p] = 0
          /\ shm_table' = AttachIn(shm_table, p, s)
          /\ mapped' = [mapped EXCEPT ![p] = @ \cup Mapping(shm_table[s], user_space_used)]
          /\ user_space_used' = NextVirt(shm_table[s])
          /\ shm_counter' = shm_counter /\ free' = free
    BY <1>4 DEF shm_attach
  <2>2. s \in Slots /\ shm_table[s].used
    BY DEF shm_find
  <2> QED BY <1>1, <2>1, <2>2, AttachSound DEF ShmInv
<1>5. ASSUME NEW p \in ShmPids, NEW gone \in SUBSET Taken(shm_table, p), DetachFrom(p, gone)
      PROVE  ShmInv'
  <2> DEFINE T == [s \in Slots |-> IF s \in gone THEN Detached(shm_table[s], p) ELSE shm_table[s]]
             F == free \cup UNION {Released(shm_table[s]) : s \in {t \in gone : LastGone(shm_table[t])}}
             M == [mapped EXCEPT ![p] =
                     @ \ UNION {Mapping(shm_table[s], shm_table[s].virt_per_proc[p]) : s \in gone}]
  <2>1. Sound(shm_table', user_space_used', free', mapped')
    <3>1. Sound(T, user_space_used, F, M)
      BY <1>1, DetachSound
    <3>2. shm_table' = T /\ free' = F /\ mapped' = M /\ user_space_used' = user_space_used
      BY <1>5 DEF DetachFrom
    <3> HIDE DEF T, F, M
    <3> QED BY <3>1, <3>2
  <2>2. user_space_used' = user_space_used /\ shm_counter' = shm_counter
    BY <1>5 DEF DetachFrom
  <2> QED BY <1>1, <2>1, <2>2 DEF ShmInv
<1>6. \A p : Attached(p) = Taken(shm_table, p)
  BY DEF Attached, Taken
<1>7. ASSUME NEW p \in ShmPids, NEW id, shm_detach(p, id) PROVE ShmInv'
  <2>1. DetachFrom(p, shm_find(id) \cap Attached(p))
    BY <1>7 DEF shm_detach
  <2> QED BY <1>5, <1>6, <2>1
<1>8. ASSUME NEW p \in ShmPids, shm_detach_all(p) PROVE ShmInv'
  <2>1. DetachFrom(p, Attached(p))
    BY <1>8 DEF shm_detach_all
  <2> QED BY <1>5, <1>6, <2>1
<1>9. CASE UNCHANGED shmVars
  BY <1>1, <1>9 DEF shmVars, ShmInv
<1> QED BY <1>2, <1>3, <1>4, <1>7, <1>8, <1>9 DEF ShmNext

(* Whatever is created, attached and detached, in any order and by any     *)
(* number of processes, reference counts count the processes attached, no  *)
(* mapping outlives its frame, no frame is in two regions or also free,    *)
(* and no address has two meanings (shared_memory.c:48-149).               *)
THEOREM SharedMemoryRegionsSound == ShmSpec => []RegionsSound
<1> QED BY InitShmInv, NextShmInv, SoundIsRegionsSound, PTL DEF ShmSpec

-----------------------------------------------------------------------------
(* What an entry of a table can hold.                                      *)
PageEntry == [to : TableFrames \cup DataFrames \cup {0}, user : BOOLEAN]

(* The table with address a is the one that serves page in space s after k *)
(* levels: an address is the space, the depth and a page below the table.  *)
Serves(a, s, page, k) == a.space = s /\ a.depth = k /\ \A j \in 1..k : a.via[j] = page[j]

(* The half of a space that is its own.                                    *)
OwnHalf(s, page) == IsKernel(page) <=> s = 1
OwnPages(s) == {page \in VirtPages : OwnHalf(s, page)}
Inner == 0 .. Levels - 2

(* The parts of the inductive invariant, for tables T, top tables sp, what *)
(* was asked (ask), what was inherited (inh) and addresses of the tables.  *)
TypedTables(T) == DOMAIN T \subseteq TableFrames /\ T \in [DOMAIN T -> [AllIndices -> PageEntry]]
TypedSpaces(sp, ask, inh) ==
    /\ sp \in Seq(TableFrames) /\ Len(sp) >= 1
    /\ ask \in Seq([VirtPages -> PageEntry]) /\ Len(ask) = Len(sp)
    /\ inh \in Seq(SUBSET VirtPages) /\ Len(inh) = Len(sp)

(* Each top table has the address of its space, and no table another space. *)
TopsServe(T, sp, addr) ==
    /\ \A s \in 1..Len(sp) : sp[s] \in DOMAIN T /\ addr[sp[s]].space = s /\ addr[sp[s]].depth = 0
    /\ \A t \in DOMAIN T : addr[t].space \in 1..Len(sp)

(* No two tables have the same address.                                    *)
OneTable(T, sp, addr) ==
    \A s \in 1..Len(sp) : \A page \in OwnPages(s), k \in 0..Levels-1 : \A t, u \in DOMAIN T :
        Serves(addr[t], s, page, k) /\ Serves(addr[u], s, page, k) => t = u

(* An entry above the last level leads to the table of the next level.     *)
EntriesLead(T, sp, addr) ==
    \A s \in 1..Len(sp) : \A page \in OwnPages(s), k \in Inner : \A t \in DOMAIN T :
        Serves(addr[t], s, page, k) /\ T[t][page[k + 1]].to # 0 =>
            /\ T[t][page[k + 1]].to \in DOMAIN T
            /\ Serves(addr[T[t][page[k + 1]].to], s, page, k + 1)

(* A table below the top is led to by one of the level above.              *)
TablesLinked(T, sp, addr) ==
    \A s \in 1..Len(sp) : \A page \in OwnPages(s), k \in Inner : \A u \in DOMAIN T :
        Serves(addr[u], s, page, k + 1) =>
            \E t \in DOMAIN T : Serves(addr[t], s, page, k) /\ T[t][page[k + 1]].to = u

(* The entries of the last level say what was asked.                       *)
LeavesAsked(T, sp, ask, addr) ==
    \A s \in 1..Len(sp) : \A page \in OwnPages(s) : \A t \in DOMAIN T :
        Serves(addr[t], s, page, Levels - 1) => T[t][page[Levels]] = ask[s][page]

(* Nothing was asked below an entry that leads nowhere, and nothing for    *)
(* programs below one without the user bit.                                *)
WaysOpen(T, sp, ask, addr) ==
    \A s \in 1..Len(sp) : \A page \in OwnPages(s), k \in Inner : \A t \in DOMAIN T :
        Serves(addr[t], s, page, k) =>
            /\ T[t][page[k + 1]].to = 0 => ask[s][page] = NoPage
            /\ ask[s][page].user = TRUE => T[t][page[k + 1]].user = TRUE

(* The top of a process leads where the kernel's leads, for what the       *)
(* process inherited; the kernel asks for its own half only.               *)
HalfCopied(T, sp, ask, inh) ==
    /\ \A s \in 2..Len(sp) : \A page \in inh[s] :
         /\ IsKernel(page)
         /\ T[sp[s]][page[1]].to = T[sp[1]][page[1]].to
         /\ T[sp[1]][page[1]].to # 0
    /\ \A page \in VirtPages : ask[1][page].to # 0 => IsKernel(page)

Tree(T, sp, ask, inh, addr) ==
    /\ TypedTables(T) /\ TypedSpaces(sp, ask, inh)
    /\ TopsServe(T, sp, addr) /\ OneTable(T, sp, addr)
    /\ EntriesLead(T, sp, addr) /\ TablesLinked(T, sp, addr)
    /\ LeavesAsked(T, sp, ask, addr) /\ WaysOpen(T, sp, ask, addr)
    /\ HalfCopied(T, sp, ask, inh)

PagInv == (\E addr : Tree(entries, spaces, asked, inherited, addr)) /\ pagePanic \in BOOLEAN

-----------------------------------------------------------------------------
(* Induction over the levels.                                              *)
LEMMA LevelByLevel ==
  ASSUME NEW n \in Nat, NEW Off \in SUBSET (0..n), 0 \notin Off,
         \A k \in 0..n : k # 0 /\ k \in Off => k - 1 \in Off
  PROVE  Off = {}
<1> SUFFICES ASSUME Off # {} PROVE FALSE
  OBVIOUS
<1>1. Off \in SUBSET Nat
  OBVIOUS
<1>2. PICK k \in Off : \A x \in Off : k <= x
  BY <1>1, MinExists
<1>3. k # 0 /\ k \in 0..n
  OBVIOUS
<1> QED BY <1>2, <1>3

(* What the processor finds, level by level.                               *)
NextEntry(e, i) ==
    IF e.to = 0 THEN NoPage
    ELSE [to |-> entries[e.to][i].to, user |-> e.user /\ entries[e.to][i].user]

WayTo(s, page, n, f) ==
    f = [j \in 0..n |-> IF j = 0 THEN [to |-> spaces[s], user |-> TRUE] ELSE NextEntry(f[j - 1], page[j])]

(* The recursive function that Found chooses exists.                       *)
LEMMA WayExists ==
  ASSUME NEW s, NEW page, NEW n \in Nat
  PROVE  \E f : WayTo(s, page, n, f)
<1> DEFINE None == {m \in Nat : \A f : ~ WayTo(s, page, m, f)}
           top == [to |-> spaces[s], user |-> TRUE]
<1> SUFFICES ASSUME None # {}
             PROVE  FALSE
  OBVIOUS
<1>1. PICK m \in None : \A x \in None : m <= x
  BY MinExists
<1>2. m \in Nat /\ \A f : ~ WayTo(s, page, m, f)
  OBVIOUS
<1>3. CASE m = 0
  <2> DEFINE f == [k \in 0..0 |-> top]
  <2>1. f = [k \in 0..0 |-> IF k = 0 THEN top ELSE NextEntry(f[k - 1], page[k])]
    <3> HIDE DEF top
    <3> QED OBVIOUS
  <2> QED BY <2>1, <1>2, <1>3 DEF WayTo
<1>4. CASE m # 0
  <2>1. m - 1 \in Nat /\ m - 1 \notin None
    BY <1>1, <1>2, <1>4
  <2>2. PICK g : WayTo(s, page, m - 1, g)
    BY <2>1
  <2> HIDE DEF None
  <2> DEFINE f == [k \in 0..m |-> IF k = m THEN NextEntry(g[m - 1], page[m]) ELSE g[k]]
  <2>3. ASSUME NEW k \in 0..m
        PROVE  f[k] = IF k = 0 THEN top ELSE NextEntry(f[k - 1], page[k])
    <3>1. \A j \in 0..m-1 : g[j] = IF j = 0 THEN top ELSE NextEntry(g[j - 1], page[j])
      <4> HIDE DEF top
      <4> QED BY <2>2 DEF WayTo, top
    <3>2. \A j \in 0..m-1 : f[j] = g[j]
      BY <1>2
    <3>3. f[m] = NextEntry(g[m - 1], page[m])
      BY <1>2
    <3> HIDE DEF f, top
    <3>4. CASE k = m
      BY <3>2, <3>3, <3>4, <2>1, <1>4
    <3>5. CASE k # m
      <4>1. k \in 0..m-1 /\ (k # 0 => k - 1 \in 0..m-1)
        BY <3>5, <1>2
      <4> QED BY <4>1, <3>1, <3>2
    <3> QED BY <3>4, <3>5
  <2>4. f = [k \in 0..m |-> IF k = 0 THEN top ELSE NextEntry(f[k - 1], page[k])]
    <3>1. f = [k \in 0..m |-> f[k]]
      OBVIOUS
    <3> HIDE DEF f, top
    <3> QED BY <2>3, <3>1
  <2> QED BY <2>4, <1>2 DEF WayTo
<1> QED BY <1>3, <1>4

(* So Found goes one level further at a time.                              *)
LEMMA FoundUnfold ==
  ASSUME NEW s, NEW page
  PROVE  /\ Found(s, page, 0) = [to |-> spaces[s], user |-> TRUE]
         /\ \A k \in 1..Levels : Found(s, page, k) = NextEntry(Found(s, page, k - 1), page[k])
<1> DEFINE f == CHOOSE way : WayTo(s, page, Levels, way)
<1>1. Levels \in Nat /\ Levels >= 2
  BY PagingAssumption
<1>2. WayTo(s, page, Levels, f)
  BY <1>1, WayExists
<1>3. \A k : Found(s, page, k) = f[k]
  BY Zenon DEF Found, WayTo, NextEntry
<1> DEFINE top == [to |-> spaces[s], user |-> TRUE]
<1> HIDE DEF f, top
<1>4. f = [j \in 0..Levels |-> IF j = 0 THEN top ELSE NextEntry(f[j - 1], page[j])]
  BY <1>2 DEF WayTo, top
<1>5. \A k \in 0..Levels : f[k] = IF k = 0 THEN top ELSE NextEntry(f[k - 1], page[k])
  BY <1>4
<1>6. f[0] = top /\ \A k \in 1..Levels : f[k] = NextEntry(f[k - 1], page[k])
  BY <1>1, <1>5
<1> QED BY <1>3, <1>6 DEF top

(* The walk, level by level.                                               *)
Walk(s, page, user, n, f) ==
    f = [k \in 0..n |-> IF k = 0 THEN [tables |-> entries, at |-> spaces[s]] ELSE Level(f[k - 1], page[k], user)]

(* The recursive function that Walked chooses exists.                      *)
LEMMA WalkExists ==
  ASSUME NEW s, NEW page, NEW user, NEW n \in Nat
  PROVE  \E f : Walk(s, page, user, n, f)
<1> DEFINE None == {m \in Nat : \A f : ~ Walk(s, page, user, m, f)}
           top == [tables |-> entries, at |-> spaces[s]]
<1> SUFFICES ASSUME None # {}
             PROVE  FALSE
  OBVIOUS
<1>1. PICK m \in None : \A x \in None : m <= x
  BY MinExists
<1>2. m \in Nat /\ \A f : ~ Walk(s, page, user, m, f)
  OBVIOUS
<1>3. CASE m = 0
  <2> DEFINE f == [k \in 0..0 |-> top]
  <2>1. f = [k \in 0..0 |-> IF k = 0 THEN top ELSE Level(f[k - 1], page[k], user)]
    <3> HIDE DEF top
    <3> QED OBVIOUS
  <2> QED BY <2>1, <1>2, <1>3 DEF Walk
<1>4. CASE m # 0
  <2>1. m - 1 \in Nat /\ m - 1 \notin None
    BY <1>1, <1>2, <1>4
  <2>2. PICK g : Walk(s, page, user, m - 1, g)
    BY <2>1
  <2> HIDE DEF None
  <2> DEFINE f == [k \in 0..m |-> IF k = m THEN Level(g[m - 1], page[m], user) ELSE g[k]]
  <2>3. ASSUME NEW k \in 0..m
        PROVE  f[k] = IF k = 0 THEN top ELSE Level(f[k - 1], page[k], user)
    <3>1. \A j \in 0..m-1 : g[j] = IF j = 0 THEN top ELSE Level(g[j - 1], page[j], user)
      <4> HIDE DEF top
      <4> QED BY <2>2 DEF Walk, top
    <3>2. \A j \in 0..m-1 : f[j] = g[j]
      BY <1>2
    <3>3. f[m] = Level(g[m - 1], page[m], user)
      BY <1>2
    <3> HIDE DEF f, top
    <3>4. CASE k = m
      BY <3>2, <3>3, <3>4, <2>1, <1>4
    <3>5. CASE k # m
      <4>1. k \in 0..m-1 /\ (k # 0 => k - 1 \in 0..m-1)
        BY <3>5, <1>2
      <4> QED BY <4>1, <3>1, <3>2
    <3> QED BY <3>4, <3>5
  <2>4. f = [k \in 0..m |-> IF k = 0 THEN top ELSE Level(f[k - 1], page[k], user)]
    <3>1. f = [k \in 0..m |-> f[k]]
      OBVIOUS
    <3> HIDE DEF f, top
    <3> QED BY <2>3, <3>1
  <2> QED BY <2>4, <1>2 DEF Walk
<1> QED BY <1>3, <1>4

(* So the walk is a sequence of levels that ends in Walked.                *)
LEMMA WalkUnfold ==
  ASSUME NEW s, NEW page, NEW user
  PROVE  \E f : /\ Walked(s, page, user) = f[Levels - 1]
                /\ f[0] = [tables |-> entries, at |-> spaces[s]]
                /\ \A k \in 1..Levels-1 : f[k] = Level(f[k - 1], page[k], user)
<1> DEFINE f == CHOOSE made : Walk(s, page, user, Levels - 1, made)
<1>1. Levels \in Nat /\ Levels >= 2 /\ Levels - 1 \in Nat
  BY PagingAssumption
<1>2. Walk(s, page, user, Levels - 1, f)
  BY <1>1, WalkExists
<1>3. Walked(s, page, user) = f[Levels - 1]
  BY Zenon DEF Walked, Walk
<1> DEFINE top == [tables |-> entries, at |-> spaces[s]]
<1> HIDE DEF f, top
<1>4. f = [k \in 0..Levels-1 |-> IF k = 0 THEN top ELSE Level(f[k - 1], page[k], user)]
  BY <1>2 DEF Walk, top
<1>5. \A k \in 0..Levels-1 : f[k] = IF k = 0 THEN top ELSE Level(f[k - 1], page[k], user)
  BY <1>4
<1>6. f[0] = top /\ \A k \in 1..Levels-1 : f[k] = Level(f[k - 1], page[k], user)
  BY <1>1, <1>5
<1> QED BY <1>3, <1>6 DEF top

-----------------------------------------------------------------------------
(* What a page's indices and the levels are.                               *)
LEMMA Indexed ==
  /\ Levels \in Nat /\ Levels >= 2 /\ 0 \notin TableFrames /\ 0 \notin DataFrames
  /\ \A page \in VirtPages : page[1] \in TopIndices /\ \A k \in 1..Levels : page[k] \in AllIndices
  /\ \A s : \A page \in OwnPages(s) : page \in VirtPages
  BY PagingAssumption DEF VirtPages, AllIndices, OwnPages

(* U is T with the user bit of one entry set, if the page is for programs. *)
Marked(T, U, at, i, user) ==
    /\ DOMAIN U = DOMAIN T /\ U \in [DOMAIN T -> [AllIndices -> PageEntry]]
    /\ \A t \in DOMAIN T, j \in AllIndices :
         /\ U[t][j].to = T[t][j].to /\ (T[t][j].user = TRUE => U[t][j].user = TRUE)
         /\ t # at => U[t][j] = T[t][j]
    /\ user = TRUE => U[at][i].user = TRUE

(* The assignment of the code is such a change.                            *)
LEMMA MarkedByLevel ==
  ASSUME NEW T, TypedTables(T), NEW at \in DOMAIN T, NEW i \in AllIndices, NEW user \in BOOLEAN
  PROVE  Marked(T, [T EXCEPT ![at][i].user = @ \/ user], at, i, user)
<1> DEFINE U == [T EXCEPT ![at][i].user = @ \/ user]
           mark == T[at][i].user \/ user
           new == [T[at][i] EXCEPT !.user = mark]
<1>1. T \in [DOMAIN T -> [AllIndices -> PageEntry]]
  BY DEF TypedTables
<1>2. mark \in BOOLEAN /\ T[at][i] \in PageEntry
  <2>1. T[at][i] \in PageEntry
    BY <1>1
  <2> QED BY <2>1 DEF PageEntry
<1>3. U = [T EXCEPT ![at] = [T[at] EXCEPT ![i] = new]]
  OBVIOUS
<1>4. new \in PageEntry /\ new.to = T[at][i].to /\ new.user = mark
  <2> HIDE DEF mark
  <2> QED BY <1>2 DEF PageEntry
<1>5. (T[at][i].user = TRUE => mark = TRUE) /\ (user = TRUE => mark = TRUE)
  OBVIOUS
<1> HIDE DEF U, new, mark
<1>6. DOMAIN U = DOMAIN T /\ U \in [DOMAIN T -> [AllIndices -> PageEntry]]
  BY <1>1, <1>3, <1>4
<1>7. \A t \in DOMAIN T, j \in AllIndices : U[t][j] = IF t = at /\ j = i THEN new ELSE T[t][j]
  BY <1>1, <1>3
<1>8. Marked(T, U, at, i, user)
  BY <1>4, <1>5, <1>6, <1>7 DEF Marked
<1> QED BY <1>8 DEF U

(* That keeps the invariant.                                               *)
LEMMA MarkKeeps ==
  ASSUME NEW T, NEW sp, NEW ask, NEW inh, NEW addr, Tree(T, sp, ask, inh, addr),
         NEW s \in 1..Len(sp), NEW page \in OwnPages(s), NEW k \in Inner, NEW user \in BOOLEAN,
         NEW at \in DOMAIN T, Serves(addr[at], s, page, k),
         NEW U, Marked(T, U, at, page[k + 1], user)
  PROVE  Tree(U, sp, ask, inh, addr)
<1>1. T \in [DOMAIN T -> [AllIndices -> PageEntry]] /\ DOMAIN T \subseteq TableFrames
  BY DEF Tree, TypedTables
<1>2. DOMAIN U = DOMAIN T /\ U \in [DOMAIN T -> [AllIndices -> PageEntry]]
  BY DEF Marked
<1>3. \A t \in DOMAIN T, j \in AllIndices : t # at => U[t][j] = T[t][j]
  BY DEF Marked
<1>4. \A t \in DOMAIN T, j \in AllIndices :
        U[t][j].to = T[t][j].to /\ (T[t][j].user = TRUE => U[t][j].user = TRUE)
  BY DEF Marked
<1>5. Tree(U, sp, ask, inh, addr)
  <2> USE DEF Tree
  <2>1. TypedTables(U) /\ TypedSpaces(sp, ask, inh)
    BY <1>1, <1>2 DEF TypedTables
  <2>2. TopsServe(U, sp, addr) /\ OneTable(U, sp, addr)
    BY <1>2 DEF TopsServe, OneTable
  <2>3. EntriesLead(U, sp, addr)
    <3> SUFFICES ASSUME NEW x \in 1..Len(sp), NEW p \in OwnPages(x), NEW n \in Inner, NEW t \in DOMAIN T,
                        Serves(addr[t], x, p, n), U[t][p[n + 1]].to # 0
                 PROVE  /\ U[t][p[n + 1]].to \in DOMAIN T
                        /\ Serves(addr[U[t][p[n + 1]].to], x, p, n + 1)
      BY <1>2 DEF EntriesLead
    <3>1. p[n + 1] \in AllIndices
      BY Indexed DEF Inner
    <3> QED BY <1>4, <3>1 DEF EntriesLead
  <2>4. TablesLinked(U, sp, addr)
    <3> SUFFICES ASSUME NEW x \in 1..Len(sp), NEW p \in OwnPages(x), NEW n \in Inner, NEW u \in DOMAIN T,
                        Serves(addr[u], x, p, n + 1)
                 PROVE  \E t \in DOMAIN T : Serves(addr[t], x, p, n) /\ U[t][p[n + 1]].to = u
      BY <1>2 DEF TablesLinked
    <3>1. PICK t \in DOMAIN T : Serves(addr[t], x, p, n) /\ T[t][p[n + 1]].to = u
      BY DEF TablesLinked
    <3>2. p[n + 1] \in AllIndices
      BY Indexed DEF Inner
    <3> QED BY <1>4, <3>1, <3>2
  <2>5. LeavesAsked(U, sp, ask, addr)
    <3> SUFFICES ASSUME NEW x \in 1..Len(sp), NEW p \in OwnPages(x), NEW t \in DOMAIN T,
                        Serves(addr[t], x, p, Levels - 1)
                 PROVE  U[t][p[Levels]] = ask[x][p]
      BY <1>2 DEF LeavesAsked
    <3>1. t # at
      BY Indexed DEF Serves, Inner
    <3>2. p[Levels] \in AllIndices
      BY Indexed
    <3> QED BY <1>3, <3>1, <3>2 DEF LeavesAsked
  <2>6. WaysOpen(U, sp, ask, addr)
    <3> SUFFICES ASSUME NEW x \in 1..Len(sp), NEW p \in OwnPages(x), NEW n \in Inner, NEW t \in DOMAIN T,
                        Serves(addr[t], x, p, n)
                 PROVE  /\ U[t][p[n + 1]].to = 0 => ask[x][p] = NoPage
                        /\ ask[x][p].user = TRUE => U[t][p[n + 1]].user = TRUE
      BY <1>2 DEF WaysOpen
    <3>1. p[n + 1] \in AllIndices
      BY Indexed DEF Inner
    <3> QED BY <1>4, <3>1 DEF WaysOpen
  <2>7. HalfCopied(U, sp, ask, inh)
    <3> SUFFICES ASSUME NEW x \in 2..Len(sp), NEW p \in inh[x]
                 PROVE  /\ IsKernel(p)
                        /\ U[sp[x]][p[1]].to = U[sp[1]][p[1]].to
                        /\ U[sp[1]][p[1]].to # 0
      BY DEF HalfCopied
    <3>1. p \in VirtPages /\ sp[x] \in DOMAIN T /\ sp[1] \in DOMAIN T
      BY DEF TypedSpaces, TopsServe
    <3>2. p[1] \in AllIndices
      BY <3>1, Indexed
    <3> QED BY <1>4, <3>1, <3>2, SMTT(60) DEF HalfCopied
  <2> QED BY <2>1, <2>2, <2>3, <2>4, <2>5, <2>6, <2>7
<1> QED BY <1>5

(* U is T with a new, empty table f that one entry leads to.               *)
LinkedTo(T, U, f, at, i, user) ==
    /\ DOMAIN U = DOMAIN T \cup {f} /\ U \in [DOMAIN T \cup {f} -> [AllIndices -> PageEntry]]
    /\ \A t \in DOMAIN T, j \in AllIndices : ~ (t = at /\ j = i) => U[t][j] = T[t][j]
    /\ U[at][i].to = f /\ U[at][i].user = user
    /\ \A j \in AllIndices : U[f][j] = NoPage

(* The allocation of a table in the code is such a change.                 *)
LEMMA LinkedByLevel ==
  ASSUME NEW T, TypedTables(T), NEW at \in DOMAIN T, NEW i \in AllIndices, NEW user \in BOOLEAN,
         NEW f \in TableFrames, f \notin DOMAIN T
  PROVE  LinkedTo(T, WithTable([T EXCEPT ![at][i] = [to |-> f, user |-> user]], f, FreshTable), f, at, i, user)
<1> DEFINE link == [to |-> f, user |-> user]
           V == [T EXCEPT ![at][i] = link]
           U == WithTable(V, f, FreshTable)
<1>1. T \in [DOMAIN T -> [AllIndices -> PageEntry]]
  BY DEF TypedTables
<1>2. link \in PageEntry /\ link.to = f /\ link.user = user /\ NoPage \in PageEntry
  BY DEF PageEntry, NoPage
<1>3. V = [T EXCEPT ![at] = [T[at] EXCEPT ![i] = link]]
  OBVIOUS
<1> HIDE DEF link, V
<1>4. DOMAIN V = DOMAIN T /\ V \in [DOMAIN T -> [AllIndices -> PageEntry]]
      /\ \A t \in DOMAIN T, j \in AllIndices : V[t][j] = IF t = at /\ j = i THEN link ELSE T[t][j]
  BY <1>1, <1>2, <1>3
<1>5. FreshTable \in [AllIndices -> PageEntry] /\ \A j \in AllIndices : FreshTable[j] = NoPage
  BY <1>2 DEF FreshTable
<1>6. /\ DOMAIN U = DOMAIN T \cup {f}
      /\ U \in [DOMAIN T \cup {f} -> [AllIndices -> PageEntry]]
      /\ \A t \in DOMAIN T, j \in AllIndices : U[t][j] = IF t = at /\ j = i THEN link ELSE T[t][j]
      /\ \A j \in AllIndices : U[f][j] = NoPage
  BY <1>4, <1>5 DEF WithTable
<1> HIDE DEF U
<1>7. LinkedTo(T, U, f, at, i, user)
  BY <1>2, <1>6 DEF LinkedTo
<1> QED BY <1>7 DEF U, V, link

(* The table f has an address of its own, and the invariant holds.         *)
Placed(U, T, sp, ask, inh, addr, s, page, n, f) ==
    \E b : /\ Tree(U, sp, ask, inh, b)
           /\ Serves(b[f], s, page, n)
           /\ \A t \in DOMAIN T : b[t] = addr[t]

(* The new table is placed one level below.                                *)
LEMMA LinkKeeps ==
  ASSUME NEW T, NEW sp, NEW ask, NEW inh, NEW addr, Tree(T, sp, ask, inh, addr),
         NEW s \in 1..Len(sp), NEW page \in OwnPages(s), NEW k \in Inner, NEW user \in BOOLEAN,
         NEW at \in DOMAIN T, Serves(addr[at], s, page, k), T[at][page[k + 1]].to = 0,
         NEW f \in TableFrames, f \notin DOMAIN T,
         NEW U, LinkedTo(T, U, f, at, page[k + 1], user)
  PROVE  Placed(U, T, sp, ask, inh, addr, s, page, k + 1, f)
<1> DEFINE i == page[k + 1]
           b == [t \in DOMAIN T \cup {f} |-> IF t = f THEN [space |-> s, depth |-> k + 1, via |-> page] ELSE addr[t]]
<1>1. T \in [DOMAIN T -> [AllIndices -> PageEntry]] /\ DOMAIN T \subseteq TableFrames
  BY DEF Tree, TypedTables
<1>2. i \in AllIndices /\ f # 0 /\ k \in Nat /\ k + 1 <= Levels - 1 /\ f # at
  BY Indexed DEF Inner
<1> HIDE DEF i
<1>3. NoPage.to = 0 /\ NoPage.user = FALSE
  BY DEF NoPage
<1>4. /\ DOMAIN U = DOMAIN T \cup {f}
      /\ U \in [DOMAIN T \cup {f} -> [AllIndices -> PageEntry]]
      /\ \A t \in DOMAIN T, j \in AllIndices : ~ (t = at /\ j = i) => U[t][j] = T[t][j]
      /\ U[at][i].to = f
      /\ \A j \in AllIndices : U[f][j] = NoPage
  BY DEF LinkedTo, i
<1>5. /\ \A t \in DOMAIN T : b[t] = addr[t]
      /\ b[f].space = s /\ b[f].depth = k + 1 /\ b[f].via = page
  OBVIOUS
<1> HIDE DEF b
<1>6. Serves(b[f], s, page, k + 1)
  BY <1>5 DEF Serves
<1>7. ASSUME NEW x \in 1..Len(sp), NEW p \in OwnPages(x), NEW n \in Nat, Serves(b[f], x, p, n)
       PROVE  x = s /\ n = k + 1 /\ p[k + 1] = i /\ Serves(addr[at], s, p, k) /\ p \in OwnPages(s)
  <2>1. x = s /\ n = k + 1 /\ \A j \in 1..k+1 : page[j] = p[j]
    BY <1>7, <1>5 DEF Serves
  <2>2. p[k + 1] = i /\ \A j \in 1..k : page[j] = p[j]
    BY <2>1, <1>2 DEF i
  <2> QED BY <2>1, <2>2 DEF Serves
<1>8. ASSUME NEW x \in 1..Len(sp), NEW p \in OwnPages(x), NEW n \in Nat, Serves(addr[at], x, p, n)
       PROVE  x = s /\ n = k
  BY <1>8 DEF Serves
<1>9. ASSUME NEW p \in OwnPages(s), NEW t \in DOMAIN T, Serves(addr[at], s, p, k), p[k + 1] = i
       PROVE  ~ Serves(addr[t], s, p, k + 1)
  <2> SUFFICES ASSUME Serves(addr[t], s, p, k + 1) PROVE FALSE
    OBVIOUS
  <2>1. PICK u \in DOMAIN T : Serves(addr[u], s, p, k) /\ T[u][p[k + 1]].to = t
    BY DEF Tree, TablesLinked
  <2>2. u = at
    <3>1. k \in 0..Levels-1
      BY <1>2, Indexed
    <3> QED BY <1>9, <2>1, <3>1 DEF Tree, OneTable
  <2> QED BY <1>1, <1>9, <2>1, <2>2, Indexed DEF i
<1>10. \A t \in DOMAIN T, j \in AllIndices : T[t][j].to # 0 => U[t][j] = T[t][j]
  BY <1>4 DEF i
<1>11. ASSUME NEW p \in OwnPages(s), Serves(addr[at], s, p, k), p[k + 1] = i
       PROVE  ask[s][p] = NoPage
  BY <1>11 DEF Tree, WaysOpen, i
<1>12. Tree(U, sp, ask, inh, b)
  <2>1. TypedTables(U) /\ TypedSpaces(sp, ask, inh)
    BY <1>1, <1>4 DEF TypedTables, Tree
  <2>2. TopsServe(U, sp, b)
    BY <1>4, <1>5 DEF Tree, TopsServe
  <2>3. OneTable(U, sp, b)
    <3> SUFFICES ASSUME NEW x \in 1..Len(sp), NEW p \in OwnPages(x), NEW n \in 0..Levels-1,
                        NEW t \in DOMAIN T \cup {f}, NEW u \in DOMAIN T \cup {f},
                        Serves(b[t], x, p, n), Serves(b[u], x, p, n), t # u
                 PROVE  FALSE
      BY <1>4 DEF OneTable
    <3>1. CASE t \in DOMAIN T /\ u \in DOMAIN T
      BY <1>5, <3>1 DEF Tree, OneTable
    <3>2. CASE t = f
      BY <1>5, <1>7, <1>9, <3>2
    <3>3. CASE u = f
      BY <1>5, <1>7, <1>9, <3>3
    <3> QED BY <3>1, <3>2, <3>3
  <2>4. EntriesLead(U, sp, b)
    <3> SUFFICES ASSUME NEW x \in 1..Len(sp), NEW p \in OwnPages(x), NEW n \in Inner, NEW t \in DOMAIN T \cup {f},
                        Serves(b[t], x, p, n), U[t][p[n + 1]].to # 0
                 PROVE  /\ U[t][p[n + 1]].to \in DOMAIN T \cup {f}
                        /\ Serves(b[U[t][p[n + 1]].to], x, p, n + 1)
      BY <1>4 DEF EntriesLead
    <3>1. p[n + 1] \in AllIndices /\ n \in Nat
      BY Indexed DEF Inner
    <3>2. t # f
      BY <1>3, <1>4, <3>1
    <3>3. CASE t = at /\ p[n + 1] = i
      <4>1. x = s /\ n = k
        BY <1>5, <1>8, <3>1, <3>2, <3>3
      <4>2. U[t][p[n + 1]].to = f
        BY <1>3, <1>4, <3>1, <3>3
      <4>3. \A j \in 1..k : page[j] = p[j]
        BY <1>5, <3>3, <4>1 DEF Serves
      <4>4. \A j \in 1..k+1 : page[j] = p[j]
        BY <1>2, <3>3, <4>1, <4>3 DEF i
      <4>5. Serves(b[f], x, p, n + 1)
        BY <1>5, <4>1, <4>4 DEF Serves
      <4> QED BY <4>2, <4>5
    <3>4. CASE ~ (t = at /\ p[n + 1] = i)
      <4>1. U[t][p[n + 1]] = T[t][p[n + 1]]
        BY <1>4, <3>1, <3>2, <3>4
      <4>2. T[t][p[n + 1]].to \in DOMAIN T /\ Serves(addr[T[t][p[n + 1]].to], x, p, n + 1)
        BY <1>5, <3>2, <4>1 DEF Tree, EntriesLead
      <4> QED BY <1>5, <4>1, <4>2
    <3> QED BY <3>3, <3>4
  <2>5. TablesLinked(U, sp, b)
    <3> SUFFICES ASSUME NEW x \in 1..Len(sp), NEW p \in OwnPages(x), NEW n \in Inner, NEW u \in DOMAIN T \cup {f},
                        Serves(b[u], x, p, n + 1)
                 PROVE  \E t \in DOMAIN T \cup {f} : Serves(b[t], x, p, n) /\ U[t][p[n + 1]].to = u
      BY <1>4 DEF TablesLinked
    <3>1. p[n + 1] \in AllIndices /\ n \in Nat /\ n + 1 \in Nat
      BY Indexed DEF Inner
    <3>2. CASE u = f
      <4>1. x = s /\ n = k /\ p[n + 1] = i /\ Serves(addr[at], s, p, k)
        BY <1>2, <1>7, <3>1, <3>2
      <4>2. U[at][p[n + 1]].to = f /\ Serves(b[at], x, p, n)
        BY <1>3, <1>4, <1>5, <3>1, <4>1
      <4> QED BY <3>2, <4>2
    <3>3. CASE u # f
      <4>1. PICK t \in DOMAIN T : Serves(addr[t], x, p, n) /\ T[t][p[n + 1]].to = u
        BY <1>5, <3>3 DEF Tree, TablesLinked
      <4>2. u # 0
        BY <1>1, <3>3, Indexed
      <4>3. U[t][p[n + 1]].to = u /\ Serves(b[t], x, p, n)
        BY <1>5, <1>10, <3>1, <4>1, <4>2
      <4> QED BY <4>3
    <3> QED BY <3>2, <3>3
  <2>6. LeavesAsked(U, sp, ask, b)
    <3> SUFFICES ASSUME NEW x \in 1..Len(sp), NEW p \in OwnPages(x), NEW t \in DOMAIN T \cup {f},
                        Serves(b[t], x, p, Levels - 1)
                 PROVE  U[t][p[Levels]] = ask[x][p]
      BY <1>4 DEF LeavesAsked
    <3>1. p[Levels] \in AllIndices /\ Levels - 1 \in Nat
      BY Indexed
    <3>2. CASE t = f
      <4>1. U[t][p[Levels]] = NoPage
        BY <1>4, <3>1, <3>2
      <4>2. ask[x][p] = NoPage
        BY <1>7, <1>11, <3>1, <3>2
      <4> QED BY <4>1, <4>2
    <3>3. CASE t # f
      <4>1. t # at
        BY <1>2, <1>5, <1>8, <3>1, <3>3
      <4>2. U[t][p[Levels]] = T[t][p[Levels]]
        BY <1>4, <3>1, <3>3, <4>1
      <4> QED BY <1>5, <3>3, <4>2 DEF Tree, LeavesAsked
    <3> QED BY <3>2, <3>3
  <2>7. WaysOpen(U, sp, ask, b)
    <3> SUFFICES ASSUME NEW x \in 1..Len(sp), NEW p \in OwnPages(x), NEW n \in Inner, NEW t \in DOMAIN T \cup {f},
                        Serves(b[t], x, p, n)
                 PROVE  /\ U[t][p[n + 1]].to = 0 => ask[x][p] = NoPage
                        /\ ask[x][p].user = TRUE => U[t][p[n + 1]].user = TRUE
      BY <1>4, ZenonT(60) DEF WaysOpen
    <3>1. p[n + 1] \in AllIndices /\ n \in Nat
      BY Indexed DEF Inner
    <3>2. CASE t = f
      <4>1. ask[x][p] = NoPage
        BY <1>7, <1>11, <3>1, <3>2
      <4> QED BY <1>3, <4>1
    <3>3. CASE t = at /\ p[n + 1] = i
      <4>1. x = s /\ n = k /\ Serves(addr[at], s, p, k)
        BY <1>2, <1>5, <1>8, <3>1, <3>3
      <4>2. ask[x][p] = NoPage
        BY <1>11, <3>3, <4>1
      <4> QED BY <1>3, <4>2
    <3>4. CASE t # f /\ ~ (t = at /\ p[n + 1] = i)
      <4>1. U[t][p[n + 1]] = T[t][p[n + 1]]
        BY <1>4, <3>1, <3>4
      <4> QED BY <1>5, <3>4, <4>1 DEF Tree, WaysOpen
    <3> QED BY <3>2, <3>3, <3>4
  <2>8. HalfCopied(U, sp, ask, inh)
    <3> SUFFICES ASSUME NEW x \in 2..Len(sp), NEW p \in inh[x]
                 PROVE  /\ IsKernel(p)
                        /\ U[sp[x]][p[1]].to = U[sp[1]][p[1]].to
                        /\ U[sp[1]][p[1]].to # 0
      BY DEF HalfCopied, Tree
    <3>1. p \in VirtPages /\ sp[x] \in DOMAIN T /\ sp[1] \in DOMAIN T
      BY DEF TypedSpaces, TopsServe, Tree
    <3>2. p[1] \in AllIndices
      BY <3>1, Indexed
    <3>3. IsKernel(p) /\ T[sp[x]][p[1]].to = T[sp[1]][p[1]].to /\ T[sp[1]][p[1]].to # 0
      BY DEF HalfCopied, Tree
    <3> QED BY <1>10, <3>1, <3>2, <3>3
  <2> QED BY <2>1, <2>2, <2>3, <2>4, <2>5, <2>6, <2>7, <2>8 DEF Tree
<1> QED BY <1>5, <1>6, <1>12 DEF Placed

(* The tables a walk has passed lead on, for programs if it is for them.   *)
OnWay(T, addr, s, page, k, user) ==
    \A j \in 0 .. k-1 : \A t \in DOMAIN T :
        Serves(addr[t], s, page, j) =>
            /\ T[t][page[j + 1]].to # 0
            /\ user = TRUE => T[t][page[j + 1]].user = TRUE

(* What holds of a walk for page after k levels.                           *)
WalkSound(w, sp, ask, inh, s, page, user, k) ==
    \E addr : /\ Tree(w.tables, sp, ask, inh, addr)
              /\ w.at # 0 => /\ w.at \in DOMAIN w.tables
                             /\ Serves(addr[w.at], s, page, k)
                             /\ OnWay(w.tables, addr, s, page, k, user)

(* It holds of the next level too.                                         *)
LEMMA LevelKeeps ==
  ASSUME NEW T, NEW at, NEW sp, NEW ask, NEW inh, NEW s \in 1..Len(sp), NEW page \in OwnPages(s),
         NEW k \in Inner, NEW user \in BOOLEAN,
         WalkSound([tables |-> T, at |-> at], sp, ask, inh, s, page, user, k),
         NEW w, w = Level([tables |-> T, at |-> at], page[k + 1], user)
  PROVE  WalkSound(w, sp, ask, inh, s, page, user, k + 1) /\ w = [tables |-> w.tables, at |-> w.at]
<1> DEFINE i == page[k + 1]
<1>1. PICK addr : /\ Tree(T, sp, ask, inh, addr)
                  /\ at # 0 => /\ at \in DOMAIN T
                               /\ Serves(addr[at], s, page, k)
                               /\ OnWay(T, addr, s, page, k, user)
  BY DEF WalkSound
<1>2. i \in AllIndices /\ k \in 0..Levels-1 /\ k \in Nat /\ page \in VirtPages
  BY Indexed DEF Inner
<1>3. w = Level([tables |-> T, at |-> at], i, user)
  OBVIOUS
<1> HIDE DEF i
<1>4. CASE at = 0
  <2>1. w = [tables |-> T, at |-> 0]
    BY <1>4, <1>3 DEF Level
  <2> QED BY <1>1, <2>1 DEF WalkSound
<1>5. CASE at # 0 /\ T[at][i].to # 0
  <2> DEFINE U == [T EXCEPT ![at][i].user = @ \/ user]
             next == T[at][i].to
  <2>1. w = [tables |-> U, at |-> next]
    BY <1>5, <1>3 DEF Level
  <2>2. Marked(T, U, at, i, user)
    BY <1>1, <1>2, <1>5, MarkedByLevel DEF Tree
  <2> HIDE DEF U
  <2>5. Tree(U, sp, ask, inh, addr)
    BY <1>1, <1>5, <2>2, MarkKeeps DEF i
  <2>6. /\ DOMAIN U = DOMAIN T
        /\ \A t \in DOMAIN T, j \in AllIndices :
             U[t][j].to = T[t][j].to /\ (T[t][j].user = TRUE => U[t][j].user = TRUE)
        /\ user = TRUE => U[at][i].user = TRUE
    BY <2>2 DEF Marked
  <2>3. next \in DOMAIN T /\ Serves(addr[next], s, page, k + 1)
    BY <1>1, <1>5 DEF Tree, EntriesLead, i
  <2>4. OnWay(U, addr, s, page, k + 1, user)
    <3> SUFFICES ASSUME NEW j \in 0..k, NEW t \in DOMAIN T, Serves(addr[t], s, page, j)
                 PROVE  U[t][page[j + 1]].to # 0 /\ (user = TRUE => U[t][page[j + 1]].user = TRUE)
      <4>1. 0 .. (k + 1) - 1 = 0..k
        BY <1>2
      <4> QED BY <2>6, <4>1 DEF OnWay
    <3>1. j + 1 \in 1..Levels /\ page[j + 1] \in AllIndices
      BY <1>2, Indexed DEF Inner
    <3>2. CASE j = k
      <4>1. t = at
        BY <1>1, <1>2, <1>5, <3>2 DEF Tree, OneTable
      <4> QED BY <1>2, <1>5, <2>6, <3>2, <4>1 DEF i
    <3>3. CASE j # k
      <4>1. j \in 0..k-1
        BY <1>2, <3>3
      <4>2. T[t][page[j + 1]].to # 0 /\ (user = TRUE => T[t][page[j + 1]].user = TRUE)
        BY <1>1, <1>5, <4>1 DEF OnWay
      <4> QED BY <2>6, <3>1, <4>2
    <3> QED BY <3>2, <3>3
  <2> HIDE DEF next
  <2> QED BY <2>1, <2>3, <2>4, <2>5, <2>6, SMTT(60) DEF WalkSound
<1>6. CASE at # 0 /\ T[at][i].to = 0 /\ TableFrames \subseteq DOMAIN T
  <2>1. w = [tables |-> T, at |-> 0]
    BY <1>6, <1>3 DEF Level
  <2> QED BY <1>1, <2>1 DEF WalkSound
<1>7. CASE at # 0 /\ T[at][i].to = 0 /\ ~ (TableFrames \subseteq DOMAIN T)
  <2> DEFINE f == FreeTable(T)
             U == WithTable([T EXCEPT ![at][i] = [to |-> f, user |-> user]], f, FreshTable)
  <2>1. w = [tables |-> U, at |-> f]
    BY <1>7, <1>3 DEF Level, Linked
  <2>2. f \in TableFrames /\ f \notin DOMAIN T
    BY <1>7 DEF FreeTable
  <2> HIDE DEF f
  <2>3. LinkedTo(T, U, f, at, i, user)
    BY <1>1, <1>2, <1>7, <2>2, LinkedByLevel DEF Tree
  <2> HIDE DEF U
  <2>4. PICK b : /\ Tree(U, sp, ask, inh, b)
                 /\ Serves(b[f], s, page, k + 1)
                 /\ \A t \in DOMAIN T : b[t] = addr[t]
    <3>1. /\ Tree(T, sp, ask, inh, addr) /\ at \in DOMAIN T /\ Serves(addr[at], s, page, k)
          /\ T[at][page[k + 1]].to = 0 /\ LinkedTo(T, U, f, at, page[k + 1], user)
      BY <1>1, <1>7, <2>3 DEF i
    <3>2. Placed(U, T, sp, ask, inh, addr, s, page, k + 1, f)
      BY <2>2, <3>1, LinkKeeps
    <3> QED BY <3>2 DEF Placed
  <2>5. /\ f # 0 /\ DOMAIN U = DOMAIN T \cup {f}
        /\ \A t \in DOMAIN T, j \in AllIndices : T[t][j].to # 0 => U[t][j] = T[t][j]
        /\ U[at][i].to # 0 /\ (user = TRUE => U[at][i].user = TRUE)
    BY <1>7, <2>2, <2>3, Indexed DEF LinkedTo
  <2>6. OnWay(U, b, s, page, k + 1, user)
    <3> SUFFICES ASSUME NEW j \in 0..k, NEW t \in DOMAIN T \cup {f}, Serves(b[t], s, page, j)
                 PROVE  U[t][page[j + 1]].to # 0 /\ (user = TRUE => U[t][page[j + 1]].user = TRUE)
      <4>1. 0 .. (k + 1) - 1 = 0..k
        BY <1>2
      <4> QED BY <2>5, <4>1 DEF OnWay
    <3>1. j + 1 \in 1..Levels /\ page[j + 1] \in AllIndices
      BY <1>2, Indexed DEF Inner
    <3>2. t \in DOMAIN T
      BY <2>4, <1>2 DEF Serves
    <3>3. CASE j = k
      <4>1. t = at
        BY <1>1, <1>2, <1>7, <2>4, <3>2, <3>3 DEF Tree, OneTable
      <4> QED BY <2>5, <3>3, <4>1 DEF i
    <3>4. CASE j # k
      <4>1. j \in 0..k-1
        BY <1>2, <3>4
      <4>2. T[t][page[j + 1]].to # 0 /\ (user = TRUE => T[t][page[j + 1]].user = TRUE)
        BY <1>1, <1>7, <2>4, <3>2, <4>1 DEF OnWay
      <4> QED BY <2>5, <3>1, <3>2, <4>2
    <3> QED BY <3>3, <3>4
  <2> QED BY <2>1, <2>4, <2>5, <2>6 DEF WalkSound
<1> QED BY <1>4, <1>5, <1>6, <1>7

(* It holds when the walk has reached the last table.                      *)
LEMMA WalkedSound ==
  ASSUME NEW addr, Tree(entries, spaces, asked, inherited, addr),
         NEW s \in 1..Len(spaces), NEW page \in OwnPages(s), NEW user \in BOOLEAN
  PROVE  WalkSound(Walked(s, page, user), spaces, asked, inherited, s, page, user, Levels - 1)
<1>1. PICK f : /\ Walked(s, page, user) = f[Levels - 1]
               /\ f[0] = [tables |-> entries, at |-> spaces[s]]
               /\ \A k \in 1..Levels-1 : f[k] = Level(f[k - 1], page[k], user)
  BY WalkUnfold
<1> DEFINE Ok(k) == /\ WalkSound(f[k], spaces, asked, inherited, s, page, user, k)
                    /\ f[k] = [tables |-> f[k].tables, at |-> f[k].at]
           Off == {k \in 0..Levels-1 : ~ Ok(k)}
<1>2. Ok(0)
  <2>1. spaces[s] \in DOMAIN entries /\ Serves(addr[spaces[s]], s, page, 0)
    BY DEF Tree, TopsServe, Serves
  <2>2. OnWay(entries, addr, s, page, 0, user)
    BY DEF OnWay
  <2> QED BY <1>1, <2>1, <2>2 DEF WalkSound
<1>3. ASSUME NEW k \in Inner, Ok(k) PROVE Ok(k + 1)
  <2>1. f[k + 1] = Level(f[k], page[k + 1], user)
    <3>1. k + 1 \in 1..Levels-1 /\ (k + 1) - 1 = k
      BY Indexed DEF Inner
    <3> QED BY <1>1, <3>1
  <2> DEFINE T == f[k].tables
             at == f[k].at
  <2>2. f[k] = [tables |-> T, at |-> at]
    BY <1>3
  <2>3. WalkSound([tables |-> T, at |-> at], spaces, asked, inherited, s, page, user, k)
    BY <1>3, <2>2
  <2> DEFINE w == f[k + 1]
  <2>4. w = Level([tables |-> T, at |-> at], page[k + 1], user)
    BY <2>1, <2>2
  <2> HIDE DEF T, at, w
  <2>5. WalkSound(w, spaces, asked, inherited, s, page, user, k + 1) /\ w = [tables |-> w.tables, at |-> w.at]
    BY <2>3, <2>4, LevelKeeps
  <2> QED BY <2>5 DEF w
<1> HIDE DEF Ok
<1>4. Off = {}
  <2>1. \A k \in 0..Levels-1 : k # 0 /\ k \in Off => k - 1 \in Off
    <3> SUFFICES ASSUME NEW k \in 0..Levels-1, k # 0, Ok(k - 1) PROVE Ok(k)
      BY Indexed
    <3>1. k - 1 \in Inner /\ (k - 1) + 1 = k
      BY Indexed DEF Inner
    <3> QED BY <1>3, <3>1
  <2>2. Levels - 1 \in Nat /\ Off \in SUBSET (0..Levels-1) /\ 0 \notin Off
    BY <1>2, Indexed
  <2> HIDE DEF Off
  <2> QED BY <2>1, <2>2, LevelByLevel
<1>5. Ok(Levels - 1)
  BY <1>4, Indexed
<1> QED BY <1>1, <1>5 DEF Ok

-----------------------------------------------------------------------------
(* The processor finds the tables that serve the page, as far as they go.  *)
WayOk(e, addr, s, page, k) ==
    /\ e.to # 0 => e.to \in DOMAIN entries /\ Serves(addr[e.to], s, page, k)
    /\ e.to = 0 => asked[s][page] = NoPage
    /\ e.user \in BOOLEAN
    /\ asked[s][page].user = TRUE => e.user = TRUE

(* One level of what is found, in terms of the entry it reads.             *)
LEMMA NextFacts ==
  ASSUME NEW e, NEW i
  PROVE  /\ e.to = 0 => NextEntry(e, i) = NoPage
         /\ e.to # 0 => NextEntry(e, i).to = entries[e.to][i].to
         /\ e.to # 0 => NextEntry(e, i).user \in BOOLEAN
         /\ e.to # 0 /\ e.user = TRUE /\ entries[e.to][i].user = TRUE => NextEntry(e, i).user = TRUE
         /\ e.to # 0 /\ entries[e.to][i].user = FALSE => NextEntry(e, i).user = FALSE
         /\ e.to # 0 => NextEntry(e, i) = [to |-> NextEntry(e, i).to, user |-> NextEntry(e, i).user]
  BY DEF NextEntry

(* That holds on every level above the last.                               *)
LEMMA FoundOk ==
  ASSUME NEW addr, Tree(entries, spaces, asked, inherited, addr),
         NEW s \in 1..Len(spaces), NEW page \in OwnPages(s)
  PROVE  \A k \in 0..Levels-1 : WayOk(Found(s, page, k), addr, s, page, k)
<1> DEFINE Off == {k \in 0..Levels-1 : ~ WayOk(Found(s, page, k), addr, s, page, k)}
<1>1. WayOk(Found(s, page, 0), addr, s, page, 0)
  <2>1. spaces[s] \in DOMAIN entries /\ Serves(addr[spaces[s]], s, page, 0)
    BY DEF Tree, TopsServe, Serves
  <2>2. spaces[s] # 0
    BY <2>1, Indexed DEF Tree, TypedTables
  <2> DEFINE e == Found(s, page, 0)
  <2>3. e.to = spaces[s] /\ e.user = TRUE
    BY FoundUnfold
  <2> HIDE DEF e
  <2>4. WayOk(e, addr, s, page, 0)
    BY <2>1, <2>2, <2>3 DEF WayOk
  <2> QED BY <2>4 DEF e
<1>2. ASSUME NEW k \in Inner, NEW e, NEW n, n = NextEntry(e, page[k + 1]), WayOk(e, addr, s, page, k)
      PROVE  WayOk(n, addr, s, page, k + 1)
  <2>1. page[k + 1] \in AllIndices /\ page \in VirtPages
    BY Indexed DEF Inner
  <2>2. CASE e.to = 0
    <3>1. n = NoPage /\ asked[s][page] = NoPage
      BY <1>2, <2>2, NextFacts DEF WayOk
    <3>2. NoPage.to = 0 /\ NoPage.user = FALSE
      BY DEF NoPage
    <3> QED BY <3>1, <3>2 DEF WayOk
  <2>3. CASE e.to # 0
    <3> DEFINE t == e.to
               x == entries[t][page[k + 1]]
    <3>1. t \in DOMAIN entries /\ Serves(addr[t], s, page, k)
      BY <1>2, <2>3 DEF WayOk
    <3>2. n.to = x.to /\ n.user \in BOOLEAN /\ (e.user = TRUE /\ x.user = TRUE => n.user = TRUE)
      BY <1>2, <2>3, NextFacts
    <3> HIDE DEF t
    <3>3. x.to # 0 => x.to \in DOMAIN entries /\ Serves(addr[x.to], s, page, k + 1)
      BY <3>1 DEF Tree, EntriesLead
    <3>4. /\ x.to = 0 => asked[s][page] = NoPage
          /\ asked[s][page].user = TRUE => x.user = TRUE
      BY <3>1 DEF Tree, WaysOpen
    <3>5. asked[s][page].user = TRUE => e.user = TRUE
      BY <1>2 DEF WayOk
    <3> HIDE DEF x
    <3> QED BY <3>2, <3>3, <3>4, <3>5 DEF WayOk
  <2> QED BY <2>2, <2>3
<1>3. Off = {}
  <2>1. \A k \in 0..Levels-1 : k # 0 /\ k \in Off => k - 1 \in Off
    <3> SUFFICES ASSUME NEW k \in 0..Levels-1, k # 0, WayOk(Found(s, page, k - 1), addr, s, page, k - 1)
                 PROVE  WayOk(Found(s, page, k), addr, s, page, k)
      BY Indexed
    <3>1. k - 1 \in Inner /\ (k - 1) + 1 = k /\ k \in 1..Levels
      BY Indexed DEF Inner
    <3>2. Found(s, page, k) = NextEntry(Found(s, page, k - 1), page[(k - 1) + 1])
      BY <3>1, FoundUnfold
    <3> DEFINE j == k - 1
               d == Found(s, page, k - 1)
    <3>3. j \in Inner /\ j + 1 = k /\ Found(s, page, k) = NextEntry(d, page[j + 1]) /\ WayOk(d, addr, s, page, j)
      BY <3>1, <3>2
    <3> HIDE DEF j, d
    <3> QED BY <1>2, <3>3
  <2>2. Levels - 1 \in Nat /\ Off \in SUBSET (0..Levels-1) /\ 0 \notin Off
    BY <1>1, Indexed
  <2> HIDE DEF Off
  <2> QED BY <2>1, <2>2, LevelByLevel
<1> QED BY <1>3

(* The invariant says that the tables answer what was asked.               *)
LEMMA TreeAnswers == PagInv => TablesAnswer
<1> SUFFICES ASSUME PagInv, NEW s \in 1..Len(spaces), NEW page \in VirtPages, IsKernel(page) <=> s = 1
             PROVE  Found(s, page, Levels) = asked[s][page]
  BY DEF TablesAnswer
<1>1. PICK addr : Tree(entries, spaces, asked, inherited, addr)
  BY DEF PagInv
<1>2. page \in OwnPages(s)
  BY DEF OwnPages, OwnHalf
<1> DEFINE e == Found(s, page, Levels - 1)
           a == asked[s][page]
<1>3. WayOk(e, addr, s, page, Levels - 1)
  BY <1>1, <1>2, FoundOk, Indexed
<1>4. Found(s, page, Levels) = NextEntry(e, page[Levels])
  <2>1. Levels \in 1..Levels
    BY Indexed
  <2> QED BY <2>1, FoundUnfold
<1>5. a \in PageEntry
  BY <1>1 DEF Tree, TypedSpaces
<1> HIDE DEF e
<1>6. CASE e.to = 0
  BY <1>3, <1>4, <1>6, NextFacts DEF WayOk
<1>7. CASE e.to # 0
  <2>1. entries[e.to][page[Levels]] = a
    BY <1>1, <1>2, <1>3, <1>7 DEF WayOk, Tree, LeavesAsked
  <2>2. a.user = TRUE => e.user = TRUE
    BY <1>3 DEF WayOk
  <2> DEFINE n == NextEntry(e, page[Levels])
  <2> HIDE DEF a
  <2>3. /\ n.to = a.to
        /\ e.user = TRUE /\ a.user = TRUE => n.user = TRUE
        /\ a.user = FALSE => n.user = FALSE
        /\ n = [to |-> n.to, user |-> n.user]
    BY <1>7, <2>1, NextFacts, ZenonT(60)
  <2> HIDE DEF n
  <2>4. a.user \in BOOLEAN /\ a = [to |-> a.to, user |-> a.user]
    BY <1>5 DEF PageEntry
  <2>5. n.to = a.to /\ n.user = a.user
    BY <2>2, <2>3, <2>4
  <2>6. n = a
    BY <2>3, <2>4, <2>5
  <2> QED BY <1>4, <2>6 DEF a, n
<1> QED BY <1>6, <1>7

(* What a process inherited it finds where the kernel finds it: from the   *)
(* second level on they read the same tables.                              *)
LEMMA TreeFollows == PagInv => KernelHalfFollows
<1> SUFFICES ASSUME PagInv, NEW s \in 2..Len(spaces), NEW page \in inherited[s]
             PROVE  Found(s, page, Levels).to = Found(1, page, Levels).to
  BY DEF KernelHalfFollows
<1>1. PICK addr : Tree(entries, spaces, asked, inherited, addr)
  BY DEF PagInv
<1>2. spaces[s] \in DOMAIN entries /\ spaces[1] \in DOMAIN entries /\ spaces[s] # 0 /\ spaces[1] # 0
  BY <1>1, Indexed, SMTT(60) DEF Tree, TopsServe, TypedTables, TypedSpaces
<1>3. entries[spaces[s]][page[1]].to = entries[spaces[1]][page[1]].to
  BY <1>1 DEF Tree, HalfCopied
<1> DEFINE Same(k) == Found(s, page, k).to = Found(1, page, k).to
           Off == {k \in 0..Levels-1 : ~ Same(k + 1)}
<1>4. \A x \in {1, s} : Found(x, page, 1).to = entries[spaces[x]][page[1]].to
  <2> SUFFICES ASSUME NEW x \in {1, s} PROVE Found(x, page, 1).to = entries[spaces[x]][page[1]].to
    OBVIOUS
  <2> DEFINE e == Found(x, page, 0)
  <2>1. e.to = spaces[x]
    BY FoundUnfold
  <2>2. Found(x, page, 1) = NextEntry(e, page[1])
    <3>1. 1 \in 1..Levels /\ 1 - 1 = 0
      BY Indexed
    <3> QED BY <3>1, FoundUnfold
  <2>3. e.to # 0
    BY <1>2, <2>1
  <2> HIDE DEF e
  <2>4. NextEntry(e, page[1]).to = entries[e.to][page[1]].to
    BY <2>3, NextFacts
  <2> QED BY <2>1, <2>2, <2>4
<1>5. Same(1)
  BY <1>3, <1>4
<1>6. ASSUME NEW k \in 1..Levels-1, Same(k) PROVE Same(k + 1)
  <2> DEFINE d == Found(s, page, k)
             e == Found(1, page, k)
  <2>1. k + 1 \in 1..Levels /\ (k + 1) - 1 = k
    BY Indexed
  <2>2. Found(s, page, k + 1) = NextEntry(d, page[k + 1]) /\ Found(1, page, k + 1) = NextEntry(e, page[k + 1])
    BY <2>1, FoundUnfold
  <2>3. d.to = e.to
    BY <1>6
  <2> HIDE DEF d, e
  <2>4. NextEntry(d, page[k + 1]).to = NextEntry(e, page[k + 1]).to
    BY <2>3 DEF NextEntry
  <2> QED BY <2>2, <2>4
<1> HIDE DEF Same
<1>7. Off = {}
  <2>1. \A k \in 0..Levels-1 : k # 0 /\ k \in Off => k - 1 \in Off
    <3> SUFFICES ASSUME NEW k \in 0..Levels-1, k # 0, Same((k - 1) + 1) PROVE Same(k + 1)
      BY Indexed
    <3>1. k \in 1..Levels-1 /\ (k - 1) + 1 = k
      BY Indexed
    <3> QED BY <1>6, <3>1
  <2>2. Levels - 1 \in Nat /\ Off \in SUBSET (0..Levels-1) /\ 0 \notin Off
    BY <1>5, Indexed
  <2> HIDE DEF Off
  <2> QED BY <2>1, <2>2, LevelByLevel
<1>8. Same(Levels)
  <2>1. Levels - 1 \in 0..Levels-1 /\ (Levels - 1) + 1 = Levels
    BY Indexed
  <2> QED BY <1>7, <2>1
<1> QED BY <1>8 DEF Same

-----------------------------------------------------------------------------
(* U is T with one entry written, and ask2 is ask with one page asked anew. *)
Written(T, U, at, i, e) ==
    /\ DOMAIN U = DOMAIN T /\ U \in [DOMAIN T -> [AllIndices -> PageEntry]]
    /\ \A t \in DOMAIN T, j \in AllIndices : U[t][j] = IF t = at /\ j = i THEN e ELSE T[t][j]

AskedAnew(ask, ask2, s, page, e) ==
    /\ ask2 \in Seq([VirtPages -> PageEntry]) /\ Len(ask2) = Len(ask)
    /\ \A x \in 1..Len(ask), p \in VirtPages : ask2[x][p] = IF x = s /\ p = page THEN e ELSE ask[x][p]

(* The assignment to the last table is such a change.                      *)
LEMMA WrittenByMap ==
  ASSUME NEW T, TypedTables(T), NEW at \in DOMAIN T, NEW i \in AllIndices, NEW e \in PageEntry
  PROVE  Written(T, [T EXCEPT ![at][i] = e], at, i, e)
<1> DEFINE U == [T EXCEPT ![at][i] = e]
<1>1. U = [T EXCEPT ![at] = [T[at] EXCEPT ![i] = e]]
  OBVIOUS
<1>2. T \in [DOMAIN T -> [AllIndices -> PageEntry]]
  BY DEF TypedTables
<1> HIDE DEF U
<1>3. Written(T, U, at, i, e)
  BY <1>1, <1>2 DEF Written
<1> QED BY <1>3 DEF U

(* So is the record of what was asked.                                     *)
LEMMA AskedByMap ==
  ASSUME NEW ask \in Seq([VirtPages -> PageEntry]), NEW s \in 1..Len(ask), NEW page \in VirtPages,
         NEW e \in PageEntry
  PROVE  AskedAnew(ask, [ask EXCEPT ![s][page] = e], s, page, e)
<1> DEFINE U == [ask EXCEPT ![s][page] = e]
<1>1. U = [ask EXCEPT ![s] = [ask[s] EXCEPT ![page] = e]]
  OBVIOUS
<1> HIDE DEF U
<1>2. AskedAnew(ask, U, s, page, e)
  BY <1>1 DEF AskedAnew
<1> QED BY <1>2 DEF U

(* The last entry is written: the page it is for is found there, all the   *)
(* others where they were, since no other page has this entry.             *)
LEMMA WriteKeeps ==
  ASSUME NEW T, NEW sp, NEW ask, NEW inh, NEW addr, Tree(T, sp, ask, inh, addr),
         NEW s \in 1..Len(sp), NEW page \in OwnPages(s), NEW e \in PageEntry,
         NEW at \in DOMAIN T, Serves(addr[at], s, page, Levels - 1),
         e = NoPage \/ OnWay(T, addr, s, page, Levels - 1, e.user),
         NEW U, Written(T, U, at, page[Levels], e),
         NEW ask2, AskedAnew(ask, ask2, s, page, e)
  PROVE  Tree(U, sp, ask2, inh, addr)
<1>1. /\ DOMAIN U = DOMAIN T /\ U \in [DOMAIN T -> [AllIndices -> PageEntry]]
      /\ \A t \in DOMAIN T, j \in AllIndices :
           U[t][j] = IF t = at /\ j = page[Levels] THEN e ELSE T[t][j]
  BY DEF Written
<1>2. /\ ask2 \in Seq([VirtPages -> PageEntry]) /\ Len(ask2) = Len(ask) /\ Len(ask) = Len(sp)
      /\ \A x \in 1..Len(sp), p \in VirtPages : ask2[x][p] = IF x = s /\ p = page THEN e ELSE ask[x][p]
  BY DEF AskedAnew, Tree, TypedSpaces
<1>3. page \in VirtPages /\ Levels - 1 \in Nat /\ Levels - 1 \in 0..Levels-1
  BY Indexed
<1>4. ASSUME NEW x \in 1..Len(sp), NEW p \in OwnPages(x), NEW n \in Nat, Serves(addr[at], x, p, n)
      PROVE  x = s /\ n = Levels - 1 /\ (p[Levels] = page[Levels] => p = page)
  <2>1. x = s /\ n = Levels - 1 /\ \A j \in 1..Levels-1 : p[j] = page[j]
    BY <1>4 DEF Serves
  <2>2. p \in [1..Levels -> AllIndices] /\ page \in [1..Levels -> AllIndices]
    BY DEF OwnPages, VirtPages
  <2>3. ASSUME p[Levels] = page[Levels] PROVE p = page
    <3>1. \A j \in 1..Levels : p[j] = page[j]
      BY <2>1, <2>3, Indexed
    <3>2. p = [j \in 1..Levels |-> p[j]] /\ page = [j \in 1..Levels |-> page[j]]
      BY <2>2
    <3>3. [j \in 1..Levels |-> p[j]] = [j \in 1..Levels |-> page[j]]
      BY <3>1
    <3> QED BY <3>2, <3>3
  <2> QED BY <2>1, <2>3
<1>5. \A t \in DOMAIN T, j \in AllIndices : t # at => U[t][j] = T[t][j]
  BY <1>1
<1>6. ASSUME NEW x \in 1..Len(sp), NEW p \in OwnPages(x), NEW n \in Inner, NEW t \in DOMAIN T,
             Serves(addr[t], x, p, n)
      PROVE  U[t][p[n + 1]] = T[t][p[n + 1]] /\ n \in Nat
  <2>1. n \in Nat /\ n # Levels - 1 /\ p[n + 1] \in AllIndices
    BY Indexed DEF Inner
  <2>2. t # at
    BY <1>4, <1>6, <2>1
  <2> QED BY <1>5, <2>1, <2>2
<1>7. TypedTables(U) /\ TypedSpaces(sp, ask2, inh)
  BY <1>1, <1>2 DEF Tree, TypedTables, TypedSpaces
<1>8. TopsServe(U, sp, addr) /\ OneTable(U, sp, addr)
  BY <1>1 DEF Tree, TopsServe, OneTable
<1>9. EntriesLead(U, sp, addr)
  <2> SUFFICES ASSUME NEW x \in 1..Len(sp), NEW p \in OwnPages(x), NEW n \in Inner, NEW t \in DOMAIN T,
                      Serves(addr[t], x, p, n), U[t][p[n + 1]].to # 0
               PROVE  /\ U[t][p[n + 1]].to \in DOMAIN T
                      /\ Serves(addr[U[t][p[n + 1]].to], x, p, n + 1)
    BY <1>1 DEF EntriesLead
  <2>1. U[t][p[n + 1]] = T[t][p[n + 1]]
    BY <1>6
  <2> QED BY <2>1 DEF Tree, EntriesLead
<1>10. TablesLinked(U, sp, addr)
  <2> SUFFICES ASSUME NEW x \in 1..Len(sp), NEW p \in OwnPages(x), NEW n \in Inner, NEW u \in DOMAIN T,
                      Serves(addr[u], x, p, n + 1)
               PROVE  \E t \in DOMAIN T : Serves(addr[t], x, p, n) /\ U[t][p[n + 1]].to = u
    BY <1>1 DEF TablesLinked
  <2>1. PICK t \in DOMAIN T : Serves(addr[t], x, p, n) /\ T[t][p[n + 1]].to = u
    BY DEF Tree, TablesLinked
  <2>2. U[t][p[n + 1]] = T[t][p[n + 1]]
    BY <1>6, <2>1
  <2> QED BY <2>1, <2>2
<1>11. LeavesAsked(U, sp, ask2, addr)
  <2> SUFFICES ASSUME NEW x \in 1..Len(sp), NEW p \in OwnPages(x), NEW t \in DOMAIN T,
                      Serves(addr[t], x, p, Levels - 1)
               PROVE  U[t][p[Levels]] = ask2[x][p]
    BY <1>1 DEF LeavesAsked
  <2>1. p \in VirtPages /\ p[Levels] \in AllIndices
    BY Indexed
  <2>2. CASE x = s /\ p = page
    <3>1. t = at
      BY <1>3, <2>2 DEF Tree, OneTable
    <3> QED BY <1>1, <1>2, <2>1, <2>2, <3>1
  <2>3. CASE ~ (x = s /\ p = page)
    <3>1. ~ (t = at /\ p[Levels] = page[Levels])
      BY <1>3, <1>4, <2>3
    <3>2. U[t][p[Levels]] = T[t][p[Levels]] /\ ask2[x][p] = ask[x][p]
      BY <1>1, <1>2, <2>1, <2>3, <3>1
    <3> QED BY <3>2 DEF Tree, LeavesAsked
  <2> QED BY <2>2, <2>3
<1>12. WaysOpen(U, sp, ask2, addr)
  <2> SUFFICES ASSUME NEW x \in 1..Len(sp), NEW p \in OwnPages(x), NEW n \in Inner, NEW t \in DOMAIN T,
                      Serves(addr[t], x, p, n)
               PROVE  /\ U[t][p[n + 1]].to = 0 => ask2[x][p] = NoPage
                      /\ ask2[x][p].user = TRUE => U[t][p[n + 1]].user = TRUE
    BY <1>1 DEF WaysOpen
  <2>1. U[t][p[n + 1]] = T[t][p[n + 1]] /\ p \in VirtPages
    BY <1>6, Indexed
  <2>2. CASE x = s /\ p = page
    <3>1. ask2[x][p] = e
      BY <1>2, <2>1, <2>2
    <3>2. CASE e = NoPage
      <4>1. NoPage.user = FALSE
        BY DEF NoPage
      <4> QED BY <3>1, <3>2, <4>1
    <3>3. CASE OnWay(T, addr, s, page, Levels - 1, e.user)
      <4>1. n \in 0 .. (Levels - 1) - 1
        BY Indexed DEF Inner
      <4>2. T[t][p[n + 1]].to # 0 /\ (e.user = TRUE => T[t][p[n + 1]].user = TRUE)
        BY <2>2, <3>3, <4>1 DEF OnWay
      <4> QED BY <2>1, <3>1, <4>2
    <3> QED BY <3>2, <3>3
  <2>3. CASE ~ (x = s /\ p = page)
    <3>1. ask2[x][p] = ask[x][p]
      BY <1>2, <2>1, <2>3
    <3> QED BY <2>1, <3>1 DEF Tree, WaysOpen
  <2> QED BY <2>2, <2>3
<1>13. HalfCopied(U, sp, ask2, inh)
  <2>1. ASSUME NEW x \in 2..Len(sp), NEW p \in inh[x]
        PROVE  /\ IsKernel(p)
               /\ U[sp[x]][p[1]].to = U[sp[1]][p[1]].to
               /\ U[sp[1]][p[1]].to # 0
    <3>1. p \in VirtPages /\ sp[x] \in DOMAIN T /\ sp[1] \in DOMAIN T
          /\ addr[sp[x]].depth = 0 /\ addr[sp[1]].depth = 0
      BY DEF TypedSpaces, TopsServe, Tree
    <3>2. p[1] \in AllIndices
      BY <3>1, Indexed
    <3>3. sp[x] # at /\ sp[1] # at
      BY <3>1, Indexed DEF Serves
    <3>4. IsKernel(p) /\ T[sp[x]][p[1]].to = T[sp[1]][p[1]].to /\ T[sp[1]][p[1]].to # 0
      BY DEF HalfCopied, Tree
    <3> QED BY <1>5, <3>1, <3>2, <3>3, <3>4
  <2>2. ASSUME NEW p \in VirtPages, ask2[1][p].to # 0 PROVE IsKernel(p)
    <3>1. 1 \in 1..Len(sp)
      BY DEF Tree, TypedSpaces
    <3>2. CASE s = 1 /\ p = page
      BY <3>2 DEF OwnPages, OwnHalf
    <3>3. CASE ~ (s = 1 /\ p = page)
      <4>1. ask[1][p].to # 0
        BY <1>2, <2>2, <3>1, <3>3
      <4> QED BY <4>1 DEF Tree, HalfCopied
    <3> QED BY <3>2, <3>3
  <2> QED BY <2>1, <2>2 DEF HalfCopied
<1> QED BY <1>7, <1>8, <1>9, <1>10, <1>11, <1>12, <1>13 DEF Tree

(* A table with the kernel's half is added, the top of a new space that    *)
(* inherits what the kernel had mapped and has asked for nothing.          *)
TopAdded(T, U, kernel, f) ==
    /\ DOMAIN U = DOMAIN T \cup {f} /\ U \in [DOMAIN T \cup {f} -> [AllIndices -> PageEntry]]
    /\ \A t \in DOMAIN T : U[t] = T[t]
    /\ \A j \in AllIndices : U[f][j] = IF j \in KernelTop THEN T[kernel][j] ELSE NoPage

SpaceAdded(sp, sp2, ask, ask2, inh, inh2, f) ==
    /\ TypedSpaces(sp2, ask2, inh2) /\ Len(sp2) = Len(sp) + 1
    /\ \A x \in 1..Len(sp) : sp2[x] = sp[x] /\ ask2[x] = ask[x] /\ inh2[x] = inh[x]
    /\ sp2[Len(sp) + 1] = f /\ ask2[Len(sp) + 1] = NothingAsked
    /\ inh2[Len(sp) + 1] = {page \in VirtPages : ask[1][page].to # 0}

(* paging_create_proc_pml4 adds such a table.                              *)
LEMMA TopAddedByCreate ==
  ASSUME TypedTables(entries), spaces[1] \in DOMAIN entries, NEW f \in TableFrames, f \notin DOMAIN entries
  PROVE  TopAdded(entries, WithTable(entries, f, TopTable), spaces[1], f)
<1>1. entries \in [DOMAIN entries -> [AllIndices -> PageEntry]]
  BY DEF TypedTables
<1>2. entries[spaces[1]] \in [AllIndices -> PageEntry] /\ NoPage \in PageEntry
  BY <1>1 DEF PageEntry, NoPage
<1>3. TopTable \in [AllIndices -> PageEntry]
      /\ \A j \in AllIndices : TopTable[j] = IF j \in KernelTop THEN entries[spaces[1]][j] ELSE NoPage
  BY <1>2 DEF TopTable
<1> DEFINE U == WithTable(entries, f, TopTable)
<1>4. /\ DOMAIN U = DOMAIN entries \cup {f}
      /\ U \in [DOMAIN entries \cup {f} -> [AllIndices -> PageEntry]]
      /\ \A t \in DOMAIN entries : U[t] = entries[t]
      /\ U[f] = TopTable
  BY <1>1, <1>3 DEF WithTable
<1> HIDE DEF U
<1>5. TopAdded(entries, U, spaces[1], f)
  BY <1>3, <1>4 DEF TopAdded
<1> QED BY <1>5 DEF U

(* And such a space.                                                       *)
LEMMA SpaceAddedByCreate ==
  ASSUME NEW sp, NEW ask, NEW inh, TypedSpaces(sp, ask, inh), NEW f \in TableFrames
  PROVE  SpaceAdded(sp, Append(sp, f), ask, Append(ask, NothingAsked),
                    inh, Append(inh, {page \in VirtPages : ask[1][page].to # 0}), f)
<1> DEFINE set == {page \in VirtPages : ask[1][page].to # 0}
           sp2 == Append(sp, f)
           ask2 == Append(ask, NothingAsked)
           inh2 == Append(inh, set)
<1>1. NothingAsked \in [VirtPages -> PageEntry] /\ set \in SUBSET VirtPages
  BY DEF NothingAsked, NoPage, PageEntry
<1> DEFINE none == NothingAsked
           Asks == [VirtPages -> PageEntry]
           Sets == SUBSET VirtPages
<1>2. none \in Asks /\ set \in Sets /\ sp \in Seq(TableFrames) /\ ask \in Seq(Asks) /\ inh \in Seq(Sets)
      /\ Len(ask) = Len(sp) /\ Len(inh) = Len(sp) /\ Len(sp) >= 1
  BY <1>1 DEF TypedSpaces
<1> HIDE DEF set, none, Asks, Sets
<1>3. /\ sp2 \in Seq(TableFrames) /\ Len(sp2) = Len(sp) + 1
      /\ \A x \in 1..Len(sp) : sp2[x] = sp[x]
      /\ sp2[Len(sp) + 1] = f
  BY <1>2
<1>4. /\ Append(ask, none) \in Seq(Asks) /\ Len(Append(ask, none)) = Len(sp) + 1
      /\ \A x \in 1..Len(sp) : Append(ask, none)[x] = ask[x]
      /\ Append(ask, none)[Len(sp) + 1] = none
  BY <1>2
<1>5. /\ inh2 \in Seq(Sets) /\ Len(inh2) = Len(sp) + 1
      /\ \A x \in 1..Len(sp) : inh2[x] = inh[x]
      /\ inh2[Len(sp) + 1] = set
  BY <1>2
<1>6. ask2 = Append(ask, none)
  BY DEF none
<1> HIDE DEF sp2, ask2, inh2
<1>7. TypedSpaces(sp2, ask2, inh2)
  BY <1>2, <1>3, <1>4, <1>5, <1>6 DEF TypedSpaces, Asks, Sets
<1>8. SpaceAdded(sp, sp2, ask, ask2, inh, inh2, f)
  BY <1>3, <1>4, <1>5, <1>6, <1>7 DEF SpaceAdded, set, none
<1> QED BY <1>8 DEF sp2, ask2, inh2, set

(* The invariant holds with the new space: its top is the one table of it. *)
LEMMA CreateKeeps ==
  ASSUME NEW T, NEW sp, NEW ask, NEW inh, NEW addr, Tree(T, sp, ask, inh, addr),
         NEW f \in TableFrames, f \notin DOMAIN T, NEW U, TopAdded(T, U, sp[1], f),
         NEW sp2, NEW ask2, NEW inh2, SpaceAdded(sp, sp2, ask, ask2, inh, inh2, f)
  PROVE  \E b : Tree(U, sp2, ask2, inh2, b)
<1> DEFINE n == Len(sp) + 1
           b == [t \in DOMAIN T \cup {f} |-> IF t = f THEN [space |-> n, depth |-> 0, via |-> 0] ELSE addr[t]]
<1>1. /\ \A t \in DOMAIN T : b[t] = addr[t]
      /\ b[f].space = n /\ b[f].depth = 0
  OBVIOUS
<1>2. /\ DOMAIN U = DOMAIN T \cup {f} /\ U \in [DOMAIN T \cup {f} -> [AllIndices -> PageEntry]]
      /\ \A t \in DOMAIN T : U[t] = T[t]
      /\ \A j \in AllIndices : U[f][j] = IF j \in KernelTop THEN T[sp[1]][j] ELSE NoPage
  BY DEF TopAdded
<1>3. /\ TypedSpaces(sp2, ask2, inh2) /\ Len(sp2) = n
      /\ \A x \in 1..Len(sp) : sp2[x] = sp[x] /\ ask2[x] = ask[x] /\ inh2[x] = inh[x]
      /\ sp2[n] = f /\ ask2[n] = NothingAsked
      /\ inh2[n] = {page \in VirtPages : ask[1][page].to # 0}
  BY DEF SpaceAdded
<1>4. Len(sp) \in Nat /\ Len(sp) >= 1 /\ n = Len(sp) + 1 /\ DOMAIN T \subseteq TableFrames /\ 1 \in 1..Len(sp)
  BY DEF Tree, TypedSpaces, TypedTables
<1> HIDE DEF n, b
<1>5. /\ \A x \in 1..n : x \in 1..Len(sp) \/ x = n
      /\ n \notin 1..Len(sp) /\ n # 1
      /\ \A x \in 2..n : x \in 2..Len(sp) \/ x = n
  BY <1>4
<1>6. ASSUME NEW x \in 1..n, NEW p, NEW k, NEW t \in DOMAIN T, Serves(b[t], x, p, k)
      PROVE  x \in 1..Len(sp) /\ Serves(addr[t], x, p, k)
  <2>1. Serves(addr[t], x, p, k) /\ addr[t].space \in 1..Len(sp)
    BY <1>1, <1>6 DEF Tree, TopsServe
  <2> QED BY <2>1 DEF Serves
<1>7. ASSUME NEW x \in 1..n, NEW p, NEW k, Serves(b[f], x, p, k)
      PROVE  x = n /\ k = 0
  BY <1>1, <1>7 DEF Serves
<1>8. NoPage.to = 0 /\ NoPage.user = FALSE
  BY DEF NoPage
<1>9. ASSUME NEW p \in OwnPages(n) PROVE U[f][p[0 + 1]] = NoPage
  <2>1. p[1] \in AllIndices /\ p[1] \notin KernelTop
    BY <1>5, Indexed DEF OwnPages, OwnHalf, IsKernel
  <2> QED BY <1>2, <2>1
<1>10. TypedTables(U)
  BY <1>2, <1>4 DEF TypedTables
<1>11. TopsServe(U, sp2, b)
  <2>1. ASSUME NEW x \in 1..n PROVE sp2[x] \in DOMAIN T \cup {f} /\ b[sp2[x]].space = x /\ b[sp2[x]].depth = 0
    <3>1. CASE x = n
      BY <1>1, <1>3, <3>1
    <3>2. CASE x \in 1..Len(sp)
      BY <1>1, <1>3, <3>2 DEF Tree, TopsServe
    <3> QED BY <1>5, <3>1, <3>2
  <2>2. ASSUME NEW t \in DOMAIN T \cup {f} PROVE b[t].space \in 1..n
    <3>1. \A x \in 1..Len(sp) : x \in 1..n
      BY <1>4
    <3>2. n \in 1..n
      BY <1>4
    <3> QED BY <1>1, <3>1, <3>2 DEF Tree, TopsServe
  <2> QED BY <1>2, <1>3, <2>1, <2>2 DEF TopsServe
<1>12. OneTable(U, sp2, b)
  <2> SUFFICES ASSUME NEW x \in 1..n, NEW p \in OwnPages(x), NEW k \in 0..Levels-1,
                      NEW t \in DOMAIN T \cup {f}, NEW u \in DOMAIN T \cup {f},
                      Serves(b[t], x, p, k), Serves(b[u], x, p, k)
               PROVE  t = u
    BY <1>2, <1>3 DEF OneTable
  <2>1. CASE t = f \/ u = f
    BY <1>5, <1>6, <1>7, <2>1
  <2>2. CASE t \in DOMAIN T /\ u \in DOMAIN T
    BY <1>6, <2>2 DEF Tree, OneTable
  <2> QED BY <2>1, <2>2
<1>13. EntriesLead(U, sp2, b)
  <2> SUFFICES ASSUME NEW x \in 1..n, NEW p \in OwnPages(x), NEW k \in Inner, NEW t \in DOMAIN T \cup {f},
                      Serves(b[t], x, p, k), U[t][p[k + 1]].to # 0
               PROVE  /\ U[t][p[k + 1]].to \in DOMAIN T \cup {f}
                      /\ Serves(b[U[t][p[k + 1]].to], x, p, k + 1)
    BY <1>2, <1>3 DEF EntriesLead
  <2>1. CASE t = f
    BY <1>7, <1>8, <1>9, <2>1
  <2>2. CASE t \in DOMAIN T
    <3>1. U[t] = T[t] /\ x \in 1..Len(sp) /\ Serves(addr[t], x, p, k)
      BY <1>2, <1>6, <2>2
    <3>2. T[t][p[k + 1]].to \in DOMAIN T /\ Serves(addr[T[t][p[k + 1]].to], x, p, k + 1)
      BY <2>2, <3>1 DEF Tree, EntriesLead
    <3> QED BY <1>1, <3>1, <3>2
  <2> QED BY <2>1, <2>2
<1>14. TablesLinked(U, sp2, b)
  <2> SUFFICES ASSUME NEW x \in 1..n, NEW p \in OwnPages(x), NEW k \in Inner, NEW u \in DOMAIN T \cup {f},
                      Serves(b[u], x, p, k + 1)
               PROVE  \E t \in DOMAIN T \cup {f} : Serves(b[t], x, p, k) /\ U[t][p[k + 1]].to = u
    BY <1>2, <1>3 DEF TablesLinked
  <2>1. u \in DOMAIN T
    <3>1. k + 1 # 0
      BY Indexed DEF Inner
    <3>2. b[u].depth = k + 1
      BY DEF Serves
    <3> QED BY <1>1, <3>1, <3>2
  <2>2. PICK t \in DOMAIN T : Serves(addr[t], x, p, k) /\ T[t][p[k + 1]].to = u
    <3>1. x \in 1..Len(sp) /\ Serves(addr[u], x, p, k + 1)
      BY <1>6, <2>1
    <3> QED BY <2>1, <3>1 DEF Tree, TablesLinked
  <2> QED BY <1>1, <1>2, <2>2
<1>15. LeavesAsked(U, sp2, ask2, b)
  <2> SUFFICES ASSUME NEW x \in 1..n, NEW p \in OwnPages(x), NEW t \in DOMAIN T \cup {f},
                      Serves(b[t], x, p, Levels - 1)
               PROVE  U[t][p[Levels]] = ask2[x][p]
    BY <1>2, <1>3 DEF LeavesAsked
  <2>1. t \in DOMAIN T
    <3>1. b[t].depth = Levels - 1
      BY DEF Serves
    <3> QED BY <1>1, <3>1, Indexed
  <2>2. x \in 1..Len(sp) /\ Serves(addr[t], x, p, Levels - 1)
    BY <1>6, <2>1
  <2> QED BY <1>2, <1>3, <2>1, <2>2 DEF Tree, LeavesAsked
<1>16. WaysOpen(U, sp2, ask2, b)
  <2> SUFFICES ASSUME NEW x \in 1..n, NEW p \in OwnPages(x), NEW k \in Inner, NEW t \in DOMAIN T \cup {f},
                      Serves(b[t], x, p, k)
               PROVE  /\ U[t][p[k + 1]].to = 0 => ask2[x][p] = NoPage
                      /\ ask2[x][p].user = TRUE => U[t][p[k + 1]].user = TRUE
    BY <1>2, <1>3, ZenonT(60) DEF WaysOpen
  <2>1. CASE t = f
    <3>1. ask2[x][p] = NoPage
      BY <1>3, <1>7, <2>1, Indexed DEF NothingAsked
    <3> QED BY <1>8, <3>1
  <2>2. CASE t \in DOMAIN T
    <3>1. U[t] = T[t] /\ x \in 1..Len(sp) /\ Serves(addr[t], x, p, k) /\ ask2[x] = ask[x]
      BY <1>2, <1>3, <1>6, <2>2
    <3> QED BY <2>2, <3>1 DEF Tree, WaysOpen
  <2> QED BY <2>1, <2>2
<1>17. HalfCopied(U, sp2, ask2, inh2)
  <2>1. /\ sp2[1] = sp[1] /\ ask2[1] = ask[1] /\ sp[1] \in DOMAIN T /\ U[sp[1]] = T[sp[1]]
        /\ addr[sp[1]].space = 1 /\ addr[sp[1]].depth = 0
    BY <1>2, <1>3, <1>4 DEF Tree, TopsServe
  <2>2. ASSUME NEW x \in 2..n, NEW p \in inh2[x]
        PROVE  /\ IsKernel(p)
               /\ U[sp2[x]][p[1]].to = U[sp2[1]][p[1]].to
               /\ U[sp2[1]][p[1]].to # 0
    <3>1. CASE x = n
      <4>1. p \in VirtPages /\ ask[1][p].to # 0
        BY <1>3, <2>2, <3>1
      <4>2. IsKernel(p) /\ p[1] \in AllIndices
        BY <4>1, Indexed DEF Tree, HalfCopied
      <4>3. p \in OwnPages(1) /\ Serves(addr[sp[1]], 1, p, 0)
        BY <2>1, <4>1, <4>2 DEF OwnPages, OwnHalf, Serves
      <4>4. T[sp[1]][p[0 + 1]].to # 0
        <5>1. 0 \in Inner
          BY Indexed DEF Inner
        <5>2. T[sp[1]][p[0 + 1]].to = 0 => ask[1][p] = NoPage
          BY <1>4, <2>1, <4>3, <5>1 DEF Tree, WaysOpen
        <5> QED BY <1>8, <4>1, <5>2
      <4>5. U[f][p[1]] = T[sp[1]][p[1]]
        BY <1>2, <4>2 DEF IsKernel
      <4> QED BY <1>3, <2>1, <3>1, <4>2, <4>4, <4>5
    <3>2. CASE x \in 2..Len(sp)
      <4>1. x \in 1..Len(sp)
        BY <3>2
      <4>2. sp2[x] = sp[x] /\ inh2[x] = inh[x] /\ sp[x] \in DOMAIN T
        BY <1>3, <4>1 DEF Tree, TopsServe
      <4> QED BY <1>2, <2>1, <2>2, <3>2, <4>2 DEF Tree, HalfCopied
    <3> QED BY <1>5, <3>1, <3>2
  <2> QED BY <1>3, <2>1, <2>2 DEF HalfCopied, Tree
<1>18. Tree(U, sp2, ask2, inh2, b)
  BY <1>3, <1>10, <1>11, <1>12, <1>13, <1>14, <1>15, <1>16, <1>17 DEF Tree
<1> QED BY <1>18

-----------------------------------------------------------------------------
(* The top table that is loaded makes the invariant true.                  *)
LEMMA PagInitInv == PagInit => PagInv
<1> SUFFICES ASSUME PagInit PROVE PagInv
  OBVIOUS
<1> DEFINE f == CHOOSE g \in TableFrames : TRUE
           addr == [t \in {f} |-> [space |-> 1, depth |-> 0, via |-> 0]]
           none == NothingAsked
           Asks == [VirtPages -> PageEntry]
           Sets == SUBSET VirtPages
<1>1. f \in TableFrames
  BY PagingAssumption
<1>2. entries = [t \in {f} |-> FreshTable] /\ spaces = <<f>> /\ asked = <<none>> /\ inherited = << {} >>
      /\ pagePanic = FALSE
  BY DEF PagInit
<1>3. none \in Asks /\ {} \in Sets /\ FreshTable \in [AllIndices -> PageEntry]
      /\ (\A p \in VirtPages : none[p] = NoPage) /\ \A j \in AllIndices : FreshTable[j] = NoPage
  BY DEF NothingAsked, FreshTable, NoPage, PageEntry
<1>4. NoPage.to = 0 /\ NoPage.user = FALSE
  BY DEF NoPage
<1> HIDE DEF f, none, Asks, Sets
<1>5. /\ spaces \in Seq(TableFrames) /\ Len(spaces) = 1 /\ spaces[1] = f
      /\ asked \in Seq(Asks) /\ Len(asked) = 1 /\ asked[1] = none
      /\ inherited \in Seq(Sets) /\ Len(inherited) = 1
  BY <1>1, <1>2, <1>3
<1>6. DOMAIN entries = {f} /\ entries[f] = FreshTable /\ entries \in [DOMAIN entries -> [AllIndices -> PageEntry]]
  BY <1>2, <1>3
<1>7. addr[f].space = 1 /\ addr[f].depth = 0
  OBVIOUS
<1> HIDE DEF addr
<1>8. \A x \in 1..Len(spaces) : x = 1
  BY <1>5
<1>9. TypedTables(entries) /\ TypedSpaces(spaces, asked, inherited)
  BY <1>1, <1>5, <1>6 DEF TypedTables, TypedSpaces, Asks, Sets
<1>10. TopsServe(entries, spaces, addr)
  BY <1>5, <1>6, <1>7, <1>8 DEF TopsServe
<1>11. OneTable(entries, spaces, addr)
  BY <1>6 DEF OneTable
<1>12. \A x \in 1..Len(spaces) : \A p \in OwnPages(x), k \in Inner : entries[f][p[k + 1]] = NoPage
  <2> SUFFICES ASSUME NEW x \in 1..Len(spaces), NEW p \in OwnPages(x), NEW k \in Inner
               PROVE  entries[f][p[k + 1]] = NoPage
    OBVIOUS
  <2>1. p[k + 1] \in AllIndices
    BY Indexed DEF Inner
  <2> QED BY <1>3, <1>6, <2>1
<1>13. EntriesLead(entries, spaces, addr)
  BY <1>4, <1>6, <1>12 DEF EntriesLead
<1>14. TablesLinked(entries, spaces, addr) /\ LeavesAsked(entries, spaces, asked, addr)
  <2>1. \A x, p, k : Serves(addr[f], x, p, k) => k = 0
    BY <1>7 DEF Serves
  <2>2. Levels - 1 # 0 /\ \A k \in Inner : k + 1 # 0
    BY Indexed DEF Inner
  <2> QED BY <1>6, <2>1, <2>2 DEF TablesLinked, LeavesAsked
<1>15. WaysOpen(entries, spaces, asked, addr)
  <2>1. \A x \in 1..Len(spaces) : \A p \in OwnPages(x) : asked[x][p] = NoPage
    BY <1>3, <1>5, <1>8, Indexed
  <2> QED BY <1>4, <2>1 DEF WaysOpen
<1>16. HalfCopied(entries, spaces, asked, inherited)
  <2>1. \A x \in 2..Len(spaces) : FALSE
    BY <1>5
  <2>2. \A p \in VirtPages : asked[1][p].to = 0
    BY <1>3, <1>4, <1>5
  <2> QED BY <2>1, <2>2 DEF HalfCopied
<1>17. Tree(entries, spaces, asked, inherited, addr)
  BY <1>9, <1>10, <1>11, <1>13, <1>14, <1>15, <1>16 DEF Tree
<1> QED BY <1>2, <1>17 DEF PagInv

(* Mapping a page keeps the invariant, also when a table is missing.       *)
LEMMA MapInv ==
  ASSUME PagInv, NEW s \in 1..Len(spaces), NEW page \in VirtPages, NEW frame \in DataFrames,
         NEW user \in BOOLEAN, IsKernel(page) <=> s = 1, paging_map_page(s, page, frame, user)
  PROVE  PagInv'
<1> DEFINE w == Walked(s, page, user)
           T == w.tables
           e == [to |-> frame, user |-> user]
<1>1. PICK old : Tree(entries, spaces, asked, inherited, old)
  BY DEF PagInv
<1>2. page \in OwnPages(s)
  BY DEF OwnPages, OwnHalf
<1>3. WalkSound(w, spaces, asked, inherited, s, page, user, Levels - 1)
  BY <1>1, <1>2, WalkedSound
<1>4. PICK addr : /\ Tree(T, spaces, asked, inherited, addr)
                  /\ w.at # 0 => /\ w.at \in DOMAIN T
                                 /\ Serves(addr[w.at], s, page, Levels - 1)
                                 /\ OnWay(T, addr, s, page, Levels - 1, user)
  BY <1>3 DEF WalkSound
<1>5. CASE w.at = 0
  <2>1. entries' = T /\ spaces' = spaces /\ asked' = asked /\ inherited' = inherited /\ pagePanic' = TRUE
    BY <1>5 DEF paging_map_page
  <2> HIDE DEF T
  <2>2. Tree(entries', spaces', asked', inherited', addr)
    BY <1>4, <2>1
  <2> QED BY <2>1, <2>2 DEF PagInv
<1>6. CASE w.at # 0
  <2> DEFINE at == w.at
             i == page[Levels]
  <2>1. /\ entries' = [T EXCEPT ![at][i] = e] /\ asked' = [asked EXCEPT ![s][page] = e]
        /\ spaces' = spaces /\ inherited' = inherited /\ pagePanic' = pagePanic
    BY <1>6 DEF paging_map_page
  <2>2. e \in PageEntry /\ e.user = user
    BY DEF PageEntry
  <2>3. at \in DOMAIN T /\ Serves(addr[at], s, page, Levels - 1) /\ OnWay(T, addr, s, page, Levels - 1, user)
    BY <1>4, <1>6
  <2> HIDE DEF w, T, e, at
  <2>4. i \in AllIndices
    BY Indexed
  <2>5. TypedTables(T) /\ asked \in Seq([VirtPages -> PageEntry]) /\ Len(asked) = Len(spaces)
    BY <1>4 DEF Tree, TypedSpaces
  <2>6. Written(T, entries', at, i, e)
    BY <2>1, <2>2, <2>3, <2>4, <2>5, WrittenByMap
  <2>7. AskedAnew(asked, asked', s, page, e)
    BY <2>1, <2>2, <2>5, AskedByMap
  <2>8. OnWay(T, addr, s, page, Levels - 1, e.user)
    BY <2>2, <2>3
  <2> DEFINE U == entries'
             ask2 == asked'
  <2>9. Written(T, U, at, i, e) /\ AskedAnew(asked, ask2, s, page, e)
    BY <2>6, <2>7
  <2> HIDE DEF U, ask2
  <2>10. Tree(U, spaces, ask2, inherited, addr)
    BY <1>2, <1>4, <2>2, <2>3, <2>8, <2>9, WriteKeeps
  <2>11. Tree(entries', spaces', asked', inherited', addr)
    BY <2>1, <2>10 DEF U, ask2
  <2> QED BY <2>1, <2>11 DEF PagInv
<1> QED BY <1>5, <1>6

(* So does unmapping one.                                                  *)
LEMMA UnmapInv ==
  ASSUME PagInv, NEW page \in VirtPages, IsKernel(page), paging_unmap_page(page)
  PROVE  PagInv'
<1> DEFINE at == TableOf(1, page)
           i == page[Levels]
           U == entries'
           ask2 == asked'
<1>1. PICK addr : Tree(entries, spaces, asked, inherited, addr)
  BY DEF PagInv
<1>2. 1 \in 1..Len(spaces) /\ page \in OwnPages(1) /\ i \in AllIndices
  BY <1>1, Indexed DEF OwnPages, OwnHalf, Tree, TypedSpaces
<1>3. /\ at # 0 /\ entries' = [entries EXCEPT ![at][i] = NoPage] /\ asked' = [asked EXCEPT ![1][page] = NoPage]
      /\ spaces' = spaces /\ inherited' = inherited /\ pagePanic' = pagePanic
  BY DEF paging_unmap_page
<1>4. at \in DOMAIN entries /\ Serves(addr[at], 1, page, Levels - 1)
  <2>1. WayOk(Found(1, page, Levels - 1), addr, 1, page, Levels - 1)
    BY <1>1, <1>2, FoundOk, Indexed
  <2> QED BY <1>3, <2>1 DEF WayOk, TableOf
<1>5. NoPage \in PageEntry
  BY DEF NoPage, PageEntry
<1>6. TypedTables(entries) /\ asked \in Seq([VirtPages -> PageEntry]) /\ Len(asked) = Len(spaces)
  BY <1>1 DEF Tree, TypedSpaces
<1> HIDE DEF at, i
<1>7. Written(entries, U, at, i, NoPage)
  BY <1>2, <1>3, <1>4, <1>5, <1>6, WrittenByMap
<1>8. AskedAnew(asked, ask2, 1, page, NoPage)
  BY <1>2, <1>3, <1>5, <1>6, AskedByMap
<1> HIDE DEF U, ask2
<1>9. Written(entries, U, at, page[Levels], NoPage)
  BY <1>7 DEF i
<1>10. Tree(U, spaces, ask2, inherited, addr)
  BY <1>1, <1>2, <1>4, <1>5, <1>8, <1>9, WriteKeeps
<1>11. Tree(entries', spaces', asked', inherited', addr)
  BY <1>3, <1>10 DEF U, ask2
<1> QED BY <1>3, <1>11 DEF PagInv

(* And making the page tables of a process.                                *)
LEMMA CreateInv ==
  ASSUME PagInv, paging_create_proc_pml4
  PROVE  PagInv'
<1>1. PICK addr : Tree(entries, spaces, asked, inherited, addr)
  BY DEF PagInv
<1>2. CASE TableFrames \subseteq DOMAIN entries
  <2>1. pagePanic' = TRUE /\ entries' = entries /\ spaces' = spaces /\ asked' = asked /\ inherited' = inherited
    BY <1>2 DEF paging_create_proc_pml4
  <2> QED BY <1>1, <2>1 DEF PagInv
<1>3. CASE ~ (TableFrames \subseteq DOMAIN entries)
  <2> DEFINE f == FreeTable(entries)
             U == WithTable(entries, f, TopTable)
             sp2 == Append(spaces, f)
             ask2 == Append(asked, NothingAsked)
             inh2 == Append(inherited, {page \in VirtPages : asked[1][page].to # 0})
  <2>1. entries' = U /\ spaces' = sp2 /\ asked' = ask2 /\ inherited' = inh2 /\ pagePanic' = pagePanic
    BY <1>3 DEF paging_create_proc_pml4
  <2>2. f \in TableFrames /\ f \notin DOMAIN entries
    BY <1>3 DEF FreeTable
  <2>3. TypedTables(entries) /\ TypedSpaces(spaces, asked, inherited) /\ spaces[1] \in DOMAIN entries
    BY <1>1 DEF Tree, TopsServe, TypedSpaces
  <2> HIDE DEF f
  <2>4. TopAdded(entries, U, spaces[1], f)
    BY <2>2, <2>3, TopAddedByCreate
  <2>5. SpaceAdded(spaces, sp2, asked, ask2, inherited, inh2, f)
    BY <2>2, <2>3, SpaceAddedByCreate
  <2> HIDE DEF U, sp2, ask2, inh2
  <2>6. \E b : Tree(U, sp2, ask2, inh2, b)
    BY <1>1, <2>2, <2>4, <2>5, CreateKeeps
  <2> QED BY <2>1, <2>6, <1>3 DEF PagInv
<1> QED BY <1>2, <1>3

(* The page tables of the kernel and of every process lead each page where *)
(* it was last mapped, for programs exactly if it was mapped for them, and *)
(* a process finds what it inherited where the kernel does, whatever the   *)
(* levels, the indices, the frames and the number of processes.            *)
THEOREM PagingTablesSound == PagSpec => []TablesSound
<1>1. ASSUME PagInv, [PagNext]_pagVars PROVE PagInv'
  <2>1. CASE UNCHANGED pagVars
    <3>1. entries' = entries /\ spaces' = spaces /\ asked' = asked /\ inherited' = inherited /\ pagePanic' = pagePanic
      BY <2>1 DEF pagVars
    <3> QED BY <1>1, <3>1 DEF PagInv
  <2>2. ASSUME NEW s \in 1..Len(spaces), NEW page \in VirtPages, NEW f \in DataFrames, NEW user \in BOOLEAN,
               IsKernel(page) <=> s = 1, paging_map_page(s, page, f, user)
        PROVE  PagInv'
    BY <1>1, <2>2, MapInv
  <2>3. ASSUME NEW page \in VirtPages, IsKernel(page), paging_unmap_page(page)
        PROVE  PagInv'
    BY <1>1, <2>3, UnmapInv
  <2>4. CASE paging_create_proc_pml4
    BY <1>1, <2>4, CreateInv
  <2> QED BY <1>1, <2>1, <2>2, <2>3, <2>4 DEF PagNext
<1>2. PagInv => TablesSound
  BY TreeAnswers, TreeFollows DEF TablesSound
<1> QED BY PagInitInv, <1>1, <1>2, PTL DEF PagSpec

=============================================================================
