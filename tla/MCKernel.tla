------------------------------ MODULE MCKernel ------------------------------
(* Memory and messages of the kernel, side by side.  Where one uses another  *)
(* its module says what it takes for granted of it, so one run gives each    *)
(* behaviour to one of them (part) and leaves the others as they start.      *)
(* The bounds of the modules it extends are in the cfg: of three processes   *)
(* that map regions one has a pid that is too large; memory is enough for    *)
(* the processes of kproc and three programs, with one frame over, so that   *)
(* creations and forks fail at each of the runs they need; three processes   *)
(* have inboxes of two messages, except one pid that has none; page tables   *)
(* have three levels, so that there is one between the top and the leaves.   *)
EXTENDS Physmem, Heap, SharedMemory, Paging, ProcessMemory, Messages

VARIABLE part

e(b, l, t) == [base |-> b, length |-> l, type |-> t]

(* Three maps: usable memory around a reserved frame and a hole that no      *)
(* entry names; a reclaimable tail; only low memory long enough for the      *)
(* tracking area.                                                            *)
MCMemMaps == {
  << e(0, 2, "usable"), e(2, 2, "usable"), e(5, 1, "reserved"), e(6, 4, "usable") >>,
  << e(0, 1, "reserved"), e(1, 6, "usable"), e(7, 2, "reclaimable"), e(9, 1, "reserved") >>,
  << e(0, 4, "usable"), e(5, 4, "usable"), e(4, 1, "reclaimable") >> }

ASSUME KernelAssumption == HeapAssumption
-----------------------------------------------------------------------------
KernelInit ==
    /\ part \in {"frames", "heap", "regions", "tables", "spaces", "messages"}
    /\ PhysInit /\ (part = "frames" \/ physmem_init(CHOOSE mm \in MemMaps : TRUE))
    /\ HeapInit /\ ShmInit /\ PagInit /\ PmInit /\ IpcInit

KernelNext ==
    /\ part' = part
    /\ \/ /\ part = "frames"
          /\ UNCHANGED <<heapVars, shmVars, pagVars, pmVars, allvars>>
          /\ PhysNext
       \/ /\ part = "heap"
          /\ UNCHANGED <<physVars, shmVars, pagVars, pmVars, allvars>>
          /\ HeapNext
       \/ /\ part = "regions"
          /\ UNCHANGED <<physVars, heapVars, pagVars, pmVars, allvars>>
          /\ ShmNext
       \/ /\ part = "tables"
          /\ UNCHANGED <<physVars, heapVars, shmVars, pmVars, allvars>>
          /\ PagNext
       \/ /\ part = "spaces"
          /\ UNCHANGED <<physVars, heapVars, shmVars, pagVars, allvars>>
          /\ PmNext
       \/ /\ part = "messages"
          /\ UNCHANGED <<physVars, heapVars, shmVars, pagVars, pmVars>>
          /\ IpcNext

KernelSpec == KernelInit /\ [][KernelNext]_<<part, physVars, heapVars, shmVars, pagVars, pmVars, allvars>>
===============================================================================
