---------------------------- MODULE ProcessMemory ----------------------------
(***************************************************************************)
(* The memory of processes: the frames a process gets when it is created,  *)
(* the pages its program is loaded to, what a forked child sees, and what  *)
(* goes back when it exits.                                                *)
(*   kernel/user/{ulime,jump,syscalls}.c, kernel/proc/proc_manager.c,      *)
(*   kernel/packages/elf/loader.c, kernel_processes/kernel/{kproc,user}.c  *)
(* Who runs when is module Multitask; here any process that is alive may   *)
(* make the next call.  Pages and frames are numbers; the tables below a   *)
(* process's PML4 (module Paging) are counted as one frame.                *)
(***************************************************************************)
EXTENDS Integers, FiniteSets

CONSTANTS
    CodePages, HeapPages, StackPages,  \* code_size, heap_size, stack_size in pages
    UserBase,     \* user_space_base, which is also where programs are linked
    KernelProcs,  \* processes made by kproc, which take the first pages there
    MemFrames,    \* bound: physical frames, numbered from 1
    MaxProcs,     \* bound: processes created in a behaviour
    MaxDepth      \* bound: generations of forks

(* What is taken for granted of the constants.                             *)
ASSUME ProcessMemoryAssumption ==
    /\ {CodePages, HeapPages, StackPages} \subseteq Nat \ {0}
    /\ {UserBase, KernelProcs, MemFrames, MaxProcs, MaxDepth} \subseteq Nat

VARIABLES
    used,      \* frames that are not free
    space,     \* user_space_used: the next page of the common user range
    procs,     \* the records in the process list, by pid
    table,     \* table[p]: page -> frame, through p's PML4
    lost,      \* frames no record names any more
    memPanic

pmVars == <<used, space, procs, table, lost, memPanic>>

FrameRun(start, n) == IF start = 0 THEN {} ELSE start..start+n-1
Fit(u, n) ==
    LET starts == {s \in 1..MemFrames-n+1 : FrameRun(s, n) \cap u = {}}
    IN  IF starts = {} THEN 0 ELSE CHOOSE s \in starts : \A r \in starts : s <= r

(* Pages of a record: code, heap and stack, one after the other.            *)
HeapBase(p) == procs[p].base + CodePages
StackBase(p) == HeapBase(p) + HeapPages
MapRun(page, frame, n) == [v \in page..page+n-1 |-> frame + v - page]

(* Page tables g after the pages of f were mapped as well.                  *)
Over(f, g) == [v \in DOMAIN f \cup DOMAIN g |-> IF v \in DOMAIN f THEN f[v] ELSE g[v]]

-----------------------------------------------------------------------------
(* proc_create_proc: the record and its pages always, then the frames for   *)
(* stack, code and heap, the PML4 and its tables.  Without code frames the  *)
(* stack stays taken, without heap frames the code does: the record names   *)
(* neither yet, so the ulime_proc_kill that follows frees nothing.          *)
NewRecord == [base |-> space, code |-> 0, heap |-> 0, stack |-> 0, pml4 |-> 0, tables |-> 0,
              rip |-> 0, rsp |-> 0, vma |-> 0, parent |-> 0, depth |-> 0, alive |-> FALSE]

StackAt == Fit(used, StackPages)
WithStack == used \cup FrameRun(StackAt, StackPages)
CodeAt == Fit(WithStack, CodePages)
WithCode == WithStack \cup FrameRun(CodeAt, CodePages)
HeapAt == Fit(WithCode, HeapPages)
WithHeap == WithCode \cup FrameRun(HeapAt, HeapPages)
Pml4At == Fit(WithHeap, 1)
TablesAt == Fit(WithHeap \cup {Pml4At}, 1)

HasRuns == StackAt # 0 /\ CodeAt # 0 /\ HeapAt # 0
HasTables == Pml4At # 0 /\ TablesAt # 0

Obtained == [NewRecord EXCEPT !.code = CodeAt, !.heap = HeapAt, !.stack = StackAt,
                              !.pml4 = Pml4At, !.tables = TablesAt, !.alive = TRUE]

OwnMap(r) == Over(MapRun(r.base, r.code, CodePages),
                  Over(MapRun(r.base + CodePages, r.heap, HeapPages),
                       MapRun(r.base + CodePages + HeapPages, r.stack, StackPages)))

NextPid == Cardinality(DOMAIN procs) + 1

(* ulime_proc_create takes the pages, whatever becomes of the process.      *)
ulime_proc_create ==
    /\ ~memPanic
    /\ NextPid <= MaxProcs
    /\ space' = space + CodePages + HeapPages + StackPages

Added(rec, tab) ==
    LET new == NextPid
    IN  /\ procs' = [p \in DOMAIN procs \cup {new} |-> IF p = new THEN rec ELSE procs[p]]
        /\ table' = [p \in DOMAIN table \cup {new} |-> IF p = new THEN tab ELSE table[p]]

Failed ==
    /\ \/ StackAt = 0 /\ UNCHANGED <<used, lost>>
       \/ /\ StackAt # 0 /\ CodeAt = 0
          /\ used' = WithStack
          /\ lost' = lost \cup FrameRun(StackAt, StackPages)
       \/ /\ StackAt # 0 /\ CodeAt # 0 /\ HeapAt = 0
          /\ used' = WithCode \ FrameRun(StackAt, StackPages)
          /\ lost' = lost \cup FrameRun(CodeAt, CodePages)
    /\ Added(NewRecord, <<>>)
    /\ UNCHANGED memPanic

Panicked ==
    /\ HasRuns /\ ~HasTables
    /\ memPanic' = TRUE
    /\ UNCHANGED <<used, procs, table, lost>>

Made(rec, tab) ==
    /\ HasRuns /\ HasTables
    /\ used' = WithHeap \cup {Pml4At, TablesAt}
    /\ Added(rec, tab)
    /\ UNCHANGED <<lost, memPanic>>

(* elf_load of a good image of n pages: it is copied into the heap, entered *)
(* there, and the pages it was linked for lead to the same frames as well.  *)
elf_load(r, n) ==
    [rec |-> [r EXCEPT !.rip = r.base + CodePages, !.rsp = r.base + CodePages + HeapPages + StackPages - 1,
                       !.vma = UserBase],
     tab |-> IF r.base + CodePages = UserBase THEN OwnMap(r)
             ELSE Over(MapRun(UserBase, r.heap, n), OwnMap(r))]

(* Processes without a program, made before the first one with: they stay  *)
(* READY without a task, and nobody runs or ends them.                      *)
kproc ==
    /\ NextPid <= KernelProcs
    /\ ulime_proc_create
    /\ \/ Failed
       \/ Panicked
       \/ Made([Obtained EXCEPT !.alive = FALSE], OwnMap(Obtained))

(* A process for a file of n pages.  n = 0 is a file that is not a loadable *)
(* ELF: its process stays behind like those of kproc, with its memory.      *)
Started(n) ==
    /\ ulime_proc_create
    /\ \/ Failed
       \/ Panicked
       \/ n = 0 /\ Made([Obtained EXCEPT !.alive = FALSE], OwnMap(Obtained))
       \/ n > 0 /\ LET l == elf_load(Obtained, n) IN Made(l.rec, l.tab)

uproc(n) == NextPid = KernelProcs + 1 /\ Started(n)

execve_memory(n) == (\E p \in DOMAIN procs : procs[p].alive) /\ Started(n)

(* fork_memory: a process of its own whose frames are copies, mapped where   *)
(* its parent's heap and stack are and where the program was linked, in     *)
(* this order; it goes on where its parent made the call.                   *)
FaultChildMap(p, r) ==         \* the parent's frames are mapped instead of the copies
    Over(MapRun(procs[p].vma, r.heap, HeapPages),
         Over(MapRun(StackBase(p), procs[p].stack, StackPages),
              Over(MapRun(HeapBase(p), r.heap, HeapPages), OwnMap(r))))

ChildMap(p, r) ==
    Over(MapRun(procs[p].vma, r.heap, HeapPages),
         Over(MapRun(StackBase(p), r.stack, StackPages),
              Over(MapRun(HeapBase(p), r.heap, HeapPages), OwnMap(r))))

fork_memory(p, slot) ==
    /\ procs[p].alive
    /\ procs[p].depth < MaxDepth
    /\ ulime_proc_create
    /\ \/ Failed
       \/ Panicked
       \/ Made([Obtained EXCEPT !.rip = procs[p].rip, !.rsp = procs[p].rsp, !.vma = procs[p].vma,
                                !.parent = p, !.depth = procs[p].depth + 1, !.alive = slot],
               ChildMap(p, Obtained))

(* exit_memory gives back heap and stack; code frames, PML4 and tables stay. *)
FaultExitFreed(p) == FrameRun(procs[p].heap, HeapPages)
ExitFreed(p) == FrameRun(procs[p].heap, HeapPages) \cup FrameRun(procs[p].stack, StackPages)

exit_memory(p) ==
    /\ ~memPanic
    /\ procs[p].alive
    /\ used' = used \ ExitFreed(p)
    /\ procs' = [procs EXCEPT ![p].alive = FALSE, ![p].heap = 0, ![p].stack = 0]
    /\ UNCHANGED <<space, table, lost, memPanic>>

PmInit ==
    /\ used = {} /\ space = UserBase /\ lost = {} /\ memPanic = FALSE
    /\ procs = <<>> /\ table = <<>>

PmNext ==
    \/ kproc
    \/ \E n \in 0..HeapPages : uproc(n)
    \/ \E n \in 0..HeapPages : execve_memory(n)
    \/ \E p \in DOMAIN procs, slot \in BOOLEAN : fork_memory(p, slot)
    \/ \E p \in DOMAIN procs : exit_memory(p)

PmSpec == PmInit /\ [][PmNext]_pmVars

-----------------------------------------------------------------------------
Recorded(p) ==
    LET r == procs[p]
    IN  FrameRun(r.code, CodePages) \cup FrameRun(r.heap, HeapPages) \cup FrameRun(r.stack, StackPages)
          \cup ({r.pml4, r.tables} \ {0})

(* A living process reaches, through its page tables, frames of its own     *)
(* only, none of them free: exits and forks in any order leave no page of a *)
(* process on memory that has another owner.                                *)
LiveMappingsOwned ==
    /\ \A p \in DOMAIN procs : procs[p].alive =>
          \A v \in DOMAIN table[p] : table[p][v] \in Recorded(p) \cap used
    /\ \A p, q \in DOMAIN procs : p # q => Recorded(p) \cap Recorded(q) = {}

(* Every frame in use is named by a process record, except those of a       *)
(* creation that ran out of memory half way (ulime.c:159).                  *)
EveryFrameAccounted ==
    used = lost \cup UNION {Recorded(p) : p \in DOMAIN procs}

(* Where a page of a process leads, in terms of its own memory.             *)
Place(p, v) ==
    CASE v \notin DOMAIN table[p] -> <<"unmapped", 0>>
      [] v \in DOMAIN table[p] /\ table[p][v] \in FrameRun(procs[p].heap, HeapPages) ->
           <<"heap", table[p][v] - procs[p].heap>>
      [] v \in DOMAIN table[p] /\ table[p][v] \in FrameRun(procs[p].stack, StackPages) ->
           <<"stack", table[p][v] - procs[p].stack>>
      [] OTHER -> <<"other", 0>>

SameView(p) ==
    LET q == procs[p].parent
    IN  procs[p].alive /\ q # 0 /\ procs[q].alive =>
          \A v \in {procs[p].rip, procs[p].rsp} : Place(p, v) = Place(q, v)

(* syscalls.c:648: the child's PML4 maps its parent's addresses "so the     *)
(* copied stack return addresses work": the child finds at the addresses    *)
(* it resumes with the copy of what its parent has there.                   *)
ForkKeepsAddresses == \A p \in DOMAIN procs : SameView(p)
=============================================================================
