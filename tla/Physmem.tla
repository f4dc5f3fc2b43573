------------------------------ MODULE Physmem -------------------------------
(***************************************************************************)
(* The physical page-frame allocator, emex/kernel/mem/phys/physmem.c: a    *)
(* bitmap and a page-frame table over all of physical memory, filled from  *)
(* the boot loader's memory map, searched first-fit.                       *)
(*                                                                         *)
(* Addresses are frame numbers (physmem_addr / PAGE_SIZE): every caller    *)
(* passes page-aligned addresses.  The variable held is not in the code:   *)
(* it records which runs callers own, because physmem_free_to itself       *)
(* checks nothing.  Callers free exactly the runs they were given (see     *)
(* ulime.c:172, ulime.c:266-268, syscalls.c:159-164, shared_memory.c:58).  *)
(***************************************************************************)
EXTENDS Naturals, FiniteSets

CONSTANTS
  NFrames,      (* bound: frames of the largest memory map considered      *)
  StartSearch,  (* 512 in the code: the search starts at 2 MB              *)
  Base16M,      (* 0x1000000 in frames, first choice for the tracking area *)
  Base1M,       (* 0x100000 in frames, second choice                       *)
  TrackFrames,  (* frames the bitmap and page-frame table occupy           *)
  MemMaps,      (* memory maps the boot loader may deliver                 *)
  MaxCount      (* bound: longest run a caller asks for                    *)

ASSUME PhysmemAssumption ==
  /\ NFrames \in Nat
  /\ StartSearch \in Nat \ {0}
  /\ MaxCount \in Nat

Frames == 0 .. (NFrames - 1)
Kinds == {"usable", "reclaimable", "reserved"}

VARIABLES
  total,       (* physmem_total                                            *)
  bitmap,      (* the set of frames whose bit is set (in use)              *)
  pageframes,  (* physmem_pageframes: rc and flags of each frame           *)
  held,        (* runs callers own: <<first frame, number of frames>>      *)
  ret          (* last call of physmem_alloc_to: <<count, address returned>> *)

physVars == <<total, bitmap, pageframes, held, ret>>

FrameFree   == [rc |-> 0, flags |-> {"FREE"}]
FrameUsed   == [rc |-> 1, flags |-> {"USED"}]
FrameKernel == [rc |-> 1, flags |-> {"USED", "KERNEL"}]

(* A record that was never written: it has what the memory under the table *)
(* held before, and a frame past physmem_total has none at all.  Nothing   *)
(* reads it.                                                               *)
FrameUntouched == [rc |-> 0, flags |-> {"UNTOUCHED"}]

Run(start, count) == {f \in Frames : start <= f /\ f < start + count}
Clip(start, count) == {f \in Run(start, count) : f < total}

-----------------------------------------------------------------------------
(* Boot: the memory map is a sequence of entries [base, length, type].     *)

Entry(mm, kinds) == {i \in DOMAIN mm : mm[i].type \in kinds}
Covered(mm, kinds) ==
  UNION {Run(mm[i].base, mm[i].length) : i \in Entry(mm, kinds)}

(* Total memory ends with the last usable or reclaimable frame.            *)
TotalOf(mm) ==
  LET ends == {0} \cup {mm[i].base + mm[i].length :
                          i \in Entry(mm, {"usable", "reclaimable"})}
  IN  CHOOSE e \in ends : \A d \in ends : d <= e

(* The first usable entry that is long enough, preferring high addresses;  *)
(* the code makes three passes with the lower bounds 16 MB, 1 MB and none. *)
physmem_addr_get_tracking(mm) ==
  LET fits(lo) == {i \in Entry(mm, {"usable"}) :
                     mm[i].length >= TrackFrames /\ mm[i].base >= lo}
      lo == IF fits(Base16M) # {} THEN Base16M
            ELSE IF fits(Base1M) # {} THEN Base1M ELSE 0
  IN  mm[CHOOSE i \in fits(lo) : \A j \in fits(lo) : i <= j].base

(* memset(0xFF), then the map's usable frames are cleared and the others   *)
(* set, in the order of the map (a later entry wins), then the tracking    *)
(* area is marked used.  A frame in a hole of the map, which no entry      *)
(* names, keeps its bit set and its page-frame record untouched: only the  *)
(* bitmap is filled before the map is walked.                              *)
physmem_addr_mark(mm) ==
  {f \in Frames : f < TotalOf(mm) /\
     \E i \in DOMAIN mm :
       /\ f \in Run(mm[i].base, mm[i].length)
       /\ mm[i].type = "usable"
       /\ \A j \in DOMAIN mm : f \in Run(mm[j].base, mm[j].length) => j <= i}

(* NFrames is the size of the largest machine: no map goes beyond it.      *)
ASSUME MemMapAssumption == \A mm \in MemMaps : TotalOf(mm) \in 0 .. NFrames

physmem_init(mm) ==
  LET track == Run(physmem_addr_get_tracking(mm), TrackFrames)
      freed == physmem_addr_mark(mm)
  IN  /\ total = TotalOf(mm)
      /\ bitmap = Frames \ (freed \ track)
      /\ pageframes = [f \in Frames |->
           IF f \in track THEN FrameUsed
           ELSE IF f \in freed THEN FrameFree
           ELSE IF f < TotalOf(mm) /\ f \in Covered(mm, Kinds) THEN FrameKernel
           ELSE FrameUntouched]

PhysInit ==
  /\ \E mm \in MemMaps : physmem_init(mm)
  /\ held = {}
  /\ ret = <<0, 0>>

-----------------------------------------------------------------------------
(* Seeded faults, one per property; the specification never uses them.     *)
FaultFitsEnds(start, count) ==     (* the run counter is not reset on a used frame *)
  /\ start >= StartSearch
  /\ start + count <= total
  /\ {start, start + count - 1} \cap bitmap = {}
FaultFitsShort(start, count) ==    (* the search stops one frame early *)
  /\ start >= StartSearch
  /\ start + count < total
  /\ \A f \in Run(start, count) : f \notin bitmap
FaultMarkShort(start, count) ==    (* the last frame of the run is not marked *)
  /\ bitmap' = bitmap \cup Clip(start, count - 1)
  /\ pageframes' = [f \in Frames |->
       IF f \in Clip(start, count - 1) THEN FrameUsed ELSE pageframes[f]]
FaultFreeNoRc(start, count) ==     (* the page-frame record is forgotten *)
  /\ bitmap' = bitmap \ Clip(start, count)
  /\ UNCHANGED pageframes
FaultFreeLong(start, count) ==     (* one frame too many is cleared *)
  /\ bitmap' = bitmap \ Clip(start, count + 1)
  /\ pageframes' = [f \in Frames |->
       IF f \in Clip(start, count + 1) THEN FrameFree ELSE pageframes[f]]
(* The first-fit search: the lowest start at or above StartSearch of a run *)
(* of count clear bits below physmem_total.  The loop counts the clear     *)
(* bits since the last set one, which is the same thing.                   *)
Fits(start, count) ==
  /\ start >= StartSearch
  /\ start + count <= total
  /\ \A f \in Run(start, count) : f \notin bitmap

FirstFit(start, count) ==
  /\ Fits(start, count)
  /\ \A s \in Frames : Fits(s, count) => start <= s

FaultAllocZero(count) ==           (* no early return for a count of zero *)
  \E start \in Frames :
    /\ FirstFit(start, count)
    /\ UNCHANGED <<total, bitmap, pageframes>>
    /\ held' = held \cup {<<start, count>>}
    /\ ret' = <<count, start>>

physmem_addr_mark_used(start, count) ==
  /\ bitmap' = bitmap \cup Clip(start, count)
  /\ pageframes' = [f \in Frames |->
       IF f \in Clip(start, count) THEN FrameUsed ELSE pageframes[f]]

physmem_addr_mark_free(start, count) ==
  /\ bitmap' = bitmap \ Clip(start, count)
  /\ pageframes' = [f \in Frames |->
       IF f \in Clip(start, count) THEN FrameFree ELSE pageframes[f]]

(* Success: the run found is marked and its address returned.              *)
physmem_alloc_to(count) ==
  \E start \in Frames :
    /\ count > 0
    /\ FirstFit(start, count)
    /\ physmem_addr_mark_used(start, count)
    /\ held' = held \cup {<<start, count>>}
    /\ ret' = <<count, start>>
    /\ UNCHANGED total

(* Failure: zero frames asked for, or no run: the address 0 is returned.   *)
physmem_alloc_fail(count) ==
  /\ count = 0 \/ \A s \in Frames : ~ Fits(s, count)
  /\ ret' = <<count, 0>>
  /\ UNCHANGED <<total, bitmap, pageframes, held>>

(* A caller gives a run back: no check, the bits are just cleared.         *)
physmem_free_to(r) ==
  /\ r \in held
  /\ physmem_addr_mark_free(r[1], r[2])
  /\ held' = held \ {r}
  /\ UNCHANGED <<total, ret>>

PhysNext ==
  \/ \E n \in 0 .. MaxCount : physmem_alloc_to(n) \/ physmem_alloc_fail(n)
  \/ \E r \in held : physmem_free_to(r)

PhysSpec == PhysInit /\ [][PhysNext]_physVars

-----------------------------------------------------------------------------
PhysTypeOK ==
  /\ total \in 0 .. NFrames
  /\ bitmap \subseteq Frames
  /\ pageframes \in [Frames -> {FrameFree, FrameUsed, FrameKernel, FrameUntouched}]
  /\ held \subseteq (Frames \X (1 .. MaxCount))
  /\ ret \in (0 .. MaxCount) \X (Frames \cup {0})

(* No frame is in the hands of two callers, however allocations and frees  *)
(* interleave (physmem_alloc_to/physmem_free_to, physmem.c:236-282).       *)
HeldRunsDisjoint ==
  \A r, q \in held : r # q => Run(r[1], r[2]) \cap Run(q[1], q[2]) = {}

(* A held run lies wholly below physmem_total and every bit of it is set:  *)
(* mark_used's clipping never leaves the tail of a run unmarked.           *)
HeldMarked ==
  \A r \in held :
    /\ r[1] >= StartSearch
    /\ r[1] + r[2] <= total
    /\ Run(r[1], r[2]) \subseteq bitmap

(* The bitmap and the page-frame table are two records of one fact: where  *)
(* the table has been written they agree, and a frame whose record has not *)
(* been written, in a hole of the memory map, stays in use for good.       *)
TablesAgree ==
  \A f \in Frames :
    IF pageframes[f] = FrameUntouched THEN f \in bitmap
    ELSE f \in bitmap <=> pageframes[f].rc = 1

(* What firmware, boot loader and the tracking area occupy is never handed *)
(* out or freed: only frames above StartSearch that were clear at boot or  *)
(* are held by a caller ever change.                                       *)
BootFramesStay ==
  [][\A f \in Frames : f \in bitmap /\ f \notin bitmap' =>
        \E r \in held : f \in Run(r[1], r[2])]_physVars

(* The promise of FrameAllocator, the clear bits at and above StartSearch  *)
(* below physmem_total being the frames that can be handed out.            *)
Abstract == INSTANCE FrameAllocator WITH
  Frames <- StartSearch .. (NFrames - 1),
  Counts <- 0 .. MaxCount,
  NoMem  <- 0,
  free   <- {f \in Frames : f >= StartSearch /\ f < total /\ f \notin bitmap},
  held   <- held,
  ret    <- ret

ImplementsFrameAllocator == Abstract!ASpec
=============================================================================
