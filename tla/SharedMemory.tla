---------------------------- MODULE SharedMemory ----------------------------
(***************************************************************************)
(* Shared memory regions (ipc/shared_memory.c) and the mmap system call    *)
(* over them (scalls/shm.c): a table of slots, each with the physical      *)
(* frames of its region, a reference count, and where every process has    *)
(* it mapped.                                                              *)
(*                                                                         *)
(* munmap does nothing, and shm_detach and shm_detach_all, although        *)
(* exported (ipc.h), have no caller yet: Detaching says whether they are   *)
(* used.  Addresses are page numbers.  mapped is the part of each          *)
(* process's page table that these functions write.                        *)
(***************************************************************************)
EXTENDS Naturals, FiniteSets, FiniteSetsExt

CONSTANTS
  ShmPids,           (* processes that make system calls                   *)
  ShmMaxProcs,       (* IPC_MAX_PROCS: pids at or above it cannot attach   *)
  IPC_MAX_SHM,       (* slots in the table                                 *)
  IPC_MAX_SHM_PAGES, (* pages of a region                                  *)
  ShmFrames,         (* physical frames the allocator has                  *)
  ShmBase,           (* ulime->user_space_used at the start                *)
  MaxId,             (* bound: regions ever created                        *)
  MaxVirt,           (* bound: pages of user address space handed out      *)
  Detaching          (* whether anybody calls shm_detach(_all)             *)

(* What is taken for granted of the constants.                             *)
ASSUME SharedMemoryAssumption ==
  /\ ShmPids \subseteq Nat /\ IsFiniteSet(ShmPids)
  /\ {ShmMaxProcs, ShmFrames, MaxId, MaxVirt} \subseteq Nat
  /\ {IPC_MAX_SHM, IPC_MAX_SHM_PAGES, ShmBase} \subseteq Nat \ {0}
  /\ Detaching \in BOOLEAN

Slots  == 1 .. IPC_MAX_SHM
Index  == 1 .. IPC_MAX_SHM_PAGES
Memory == 1 .. ShmFrames

VARIABLES
  shm_table,        (* slot -> [used, id, page_count, phys_pages, ref_count, virt_per_proc] *)
  shm_counter,      (* next id                                             *)
  user_space_used,  (* next free page of user address space, all processes *)
  free,             (* frames physmem_alloc_to can hand out                *)
  mapped            (* pid -> set of <<page, frame>>                       *)

shmVars == <<shm_table, shm_counter, user_space_used, free, mapped>>

NoVirt == [p \in ShmPids |-> 0]

ipc_shm_init ==
  /\ shm_table = [s \in Slots |->
       [used |-> FALSE, id |-> 0, page_count |-> 0, phys_pages |-> [i \in Index |-> 0],
        ref_count |-> 0, virt_per_proc |-> NoVirt]]
  /\ shm_counter = 1
  /\ user_space_used = ShmBase
  /\ free = Memory
  /\ mapped = [p \in ShmPids |-> {}]

shm_find(id) == {s \in Slots : shm_table[s].used /\ shm_table[s].id = id}

Free_slots == {s \in Slots : ~ shm_table[s].used}

(* The frames of a region, those beyond page_count being leftovers.        *)
Pages(shm) == {shm.phys_pages[i] : i \in 1 .. shm.page_count} \ {0}

-----------------------------------------------------------------------------
(* Seeded faults.                                                          *)
FaultAttachIn(table, p, s) ==      (* the count is set, not incremented *)
  [table EXCEPT ![s].virt_per_proc[p] = user_space_used, ![s].ref_count = 1]
FaultReleaseLeftovers(shm) ==      (* the whole array is freed, not page_count of it *)
  {shm.phys_pages[i] : i \in Index} \ {0}
FaultLastGone(shm) == shm.ref_count - 2 <= 0   (* decremented twice *)
FaultNextVirt(shm) == user_space_used + 1  (* one page, whatever the region's size *)

(* A slot taken for a fresh region: phys_pages beyond page_count keep what *)
(* the slot's last region left there.                                      *)
NewRegion(old, frames, id) ==
  [used |-> TRUE, id |-> id, page_count |-> Cardinality(frames),
   phys_pages |-> [i \in Index |->
     IF i <= Cardinality(frames) THEN CHOOSE f \in frames : Cardinality({g \in frames : g <= f}) = i
     ELSE old.phys_pages[i]],
   ref_count |-> 0, virt_per_proc |-> NoVirt]

(* Frames are taken one at a time; which ones is physmem's business.       *)
create_in(s, frames) == [shm_table EXCEPT ![s] = NewRegion(@, frames, shm_counter)]

(* Out of memory after k pages: they are given back, but their numbers     *)
(* stay behind in the unused slot.                                         *)
shm_create_fails(pages) ==
  /\ pages \in Index
  /\ Free_slots # {}
  /\ Cardinality(free) < pages
  /\ LET s == Min(Free_slots)
         order == CHOOSE q \in [1 .. Cardinality(free) -> free] :
                    \A i, j \in DOMAIN q : i < j => q[i] < q[j]
     IN  shm_table' = [shm_table EXCEPT ![s].phys_pages =
           [i \in Index |-> IF i <= Cardinality(free) THEN order[i] ELSE @[i]]]
  /\ UNCHANGED <<shm_counter, user_space_used, free, mapped>>

(* What attaching adds to the page table.                                  *)
Mapping(shm, virt) == {<<virt + i - 1, shm.phys_pages[i]>> : i \in 1 .. shm.page_count}

NextVirt(shm) == user_space_used + shm.page_count

AttachIn(table, p, s) ==
  [table EXCEPT ![s].virt_per_proc[p] = user_space_used, ![s].ref_count = @ + 1]

(* mmap of a new region: create and attach, in one system call.            *)
mmap_create(p, pages) ==
  /\ pages \in Index
  /\ Free_slots # {}
  /\ shm_counter <= MaxId
  /\ user_space_used + pages <= MaxVirt
  /\ \E frames \in SUBSET free :
       /\ Cardinality(frames) = pages
       /\ LET s == Min(Free_slots)
              table == create_in(s, frames)
          IN  /\ free' = free \ frames
              /\ shm_counter' = shm_counter + 1
              /\ IF p < ShmMaxProcs
                 THEN /\ shm_table' = AttachIn(table, p, s)
                      /\ mapped' = [mapped EXCEPT ![p] = @ \cup Mapping(table[s], user_space_used)]
                      /\ user_space_used' = NextVirt(table[s])
                 ELSE (* the region stays, attached to nobody *)
                      shm_table' = table /\ UNCHANGED <<mapped, user_space_used>>

(* mmap of an existing region; attaching again returns the old address.    *)
shm_attach(p, id) ==
  \E s \in shm_find(id) :
    /\ p < ShmMaxProcs
    /\ shm_table[s].virt_per_proc[p] = 0
    /\ user_space_used + shm_table[s].page_count <= MaxVirt
    /\ shm_table' = AttachIn(shm_table, p, s)
    /\ mapped' = [mapped EXCEPT ![p] = @ \cup Mapping(shm_table[s], user_space_used)]
    /\ user_space_used' = NextVirt(shm_table[s])
    /\ UNCHANGED <<shm_counter, free>>

(* What shm_free_phys gives back.                                          *)
Released(shm) == Pages(shm)

LastGone(shm) == shm.ref_count - 1 <= 0

(* The table after a process detached from slot s, and the frames freed.   *)
Detached(shm, p) ==
  IF LastGone(shm)
  THEN [shm EXCEPT !.virt_per_proc[p] = 0, !.used = FALSE, !.ref_count = 0,
                   !.phys_pages = [i \in Index |-> IF i <= shm.page_count THEN 0 ELSE @[i]]]
  ELSE [shm EXCEPT !.virt_per_proc[p] = 0, !.ref_count = @ - 1]

Attached(p) == {s \in Slots : shm_table[s].used /\ shm_table[s].virt_per_proc[p] # 0}

DetachFrom(p, gone) ==
  /\ shm_table' = [s \in Slots |-> IF s \in gone THEN Detached(shm_table[s], p) ELSE shm_table[s]]
  /\ mapped' = [mapped EXCEPT ![p] =
       @ \ UNION {Mapping(shm_table[s], shm_table[s].virt_per_proc[p]) : s \in gone}]
  /\ free' = free \cup UNION {Released(shm_table[s]) : s \in {t \in gone : LastGone(shm_table[t])}}
  /\ UNCHANGED <<shm_counter, user_space_used>>

shm_detach(p, id) ==
  /\ Detaching
  /\ p < ShmMaxProcs
  /\ shm_find(id) \cap Attached(p) # {}
  /\ DetachFrom(p, shm_find(id) \cap Attached(p))

shm_detach_all(p) ==
  /\ Detaching
  /\ p < ShmMaxProcs
  /\ Attached(p) # {}
  /\ DetachFrom(p, Attached(p))

ShmInit == ipc_shm_init

ShmNext ==
  \E p \in ShmPids :
    \/ \E pages \in Index : mmap_create(p, pages) \/ shm_create_fails(pages)
    \/ \E id \in 1 .. MaxId : shm_attach(p, id) \/ shm_detach(p, id)
    \/ shm_detach_all(p)

ShmSpec == ShmInit /\ [][ShmNext]_shmVars

-----------------------------------------------------------------------------
(* A region's count is the number of processes that have it mapped, across *)
(* attaching twice, detaching twice and reuse of the slot                  *)
(* (shared_memory.c:104-125, 128-149).                                     *)
CountsMatch ==
  \A s \in Slots : shm_table[s].used =>
    shm_table[s].ref_count = Cardinality({p \in ShmPids : shm_table[s].virt_per_proc[p] # 0})

(* Nobody keeps a mapping of a frame that was given back: a mapped frame   *)
(* belongs to a region in use, and is not free for physmem to hand out     *)
(* again (shared_memory.c:54-64, 147-148).                                 *)
MappedFramesOwned ==
  \A p \in ShmPids : \A m \in mapped[p] :
    /\ m[2] \notin free
    /\ \E s \in Slots : shm_table[s].used /\ m[2] \in Pages(shm_table[s])
                        /\ shm_table[s].virt_per_proc[p] # 0

(* Every frame is free or in exactly one region, in spite of the stale     *)
(* numbers a failed creation leaves in a slot (shared_memory.c:74-81).     *)
FramesExclusive ==
  /\ Memory = free \cup UNION {Pages(shm_table[s]) : s \in {t \in Slots : shm_table[t].used}}
  /\ \A s \in Slots : shm_table[s].used => Pages(shm_table[s]) \cap free = {}
  /\ \A s, t \in Slots : shm_table[s].used /\ shm_table[t].used /\ s # t =>
       Pages(shm_table[s]) \cap Pages(shm_table[t]) = {}

(* Two regions never share an address in one process: a later mapping      *)
(* would silently replace an earlier one (shared_memory.c:107-108).        *)
NoAddressTwice ==
  \A p \in ShmPids : \A m, n \in mapped[p] : m[1] = n[1] => m = n

(* Regions, mappings and free frames agree.                                 *)
RegionsSound == CountsMatch /\ MappedFramesOwned /\ FramesExclusive /\ NoAddressTwice

=============================================================================
