----------------------------- MODULE Multitask ------------------------------
(***************************************************************************)
(* Processes, the task table, the preemptive scheduler and the four system *)
(* calls that give the processor to somebody else: fork, execve, waitpid   *)
(* and exit (multitasking.c, scheduler.c, ulime.c, syscalls.c).            *)
(*                                                                         *)
(* There is one processor and system calls run with interrupts masked, so  *)
(* every system call is one step and timer ticks come between them, while  *)
(* a process is in user mode.  execve in this kernel creates a NEW process *)
(* and blocks its caller until that process exits.                         *)
(*                                                                         *)
(* Task indices start at 1 here (0 stands for -1).  Two variables are not  *)
(* in the code: cont says where the only correct continuation of a process *)
(* is kept, and kids which pids fork returned to it.                       *)
(***************************************************************************)
EXTENDS Naturals, Sequences, FiniteSets

CONSTANTS
  NPids,        (* processes the ulime pool has room for                   *)
  MaxTasks,     (* MT_MAX_TASKS                                            *)
  MaxBlocked,   (* MAX_BLOCKED                                             *)
  Priority,     (* USERPRIORITY, given to init and every program           *)
  WaitAnyPid    (* TRUE: waitpid is called with any pid; FALSE: only with  *)
                (* pids fork returned, as all programs in user/ do         *)

ASSUME MultitaskAssumption ==
  /\ NPids \in Nat \ {0}
  /\ MaxTasks \in Nat \ {0}
  /\ MaxBlocked \in Nat
  /\ Priority \in Nat
  /\ WaitAnyPid \in BOOLEAN

Pids == 1 .. NPids

VARIABLES
  state,        (* proc->state of every pid, NONE before it is created     *)
  pid_next,     (* ulime->pid_next                                         *)
  tasks,        (* mt->tasks[0 .. task_count-1]: [proc, valid, saved]      *)
  current_idx,  (* mt->current_idx                                         *)
  ticks,        (* sched->ticks                                            *)
  blocked_list, (* blocked_list[0 .. blocked_count-1]: [proc, target]      *)
  proc_curr,    (* ulime->ptr_proc_curr, 0 for NULL                        *)
  cpu,          (* the process whose page table is in CR3                  *)
  mode,         (* user, or halt/spin: in the kernel forever               *)
  cont,         (* where each process must be resumed from                 *)
  kids          (* pids fork returned to each process                      *)

vars == <<state, pid_next, tasks, current_idx, ticks, blocked_list,
          proc_curr, cpu, mode, cont, kids>>

States == {"NONE", "CREATED", "READY", "RUNNING", "BLOCKED", "ZOMBIE"}

(* cpu: it is running; trap: all its registers are in its user_ctx, saved  *)
(* by the timer; call: user_ctx holds the register file of a system call   *)
(* return or of a fresh program; list: its registers are in blocked_list;  *)
(* lost: nowhere.                                                          *)
Places == {"none", "cpu", "trap", "call", "list", "lost"}

-----------------------------------------------------------------------------
(* Ticks a process may use before it is switched out.                      *)
SCHED_BASE_QUANTUM == 2
SCHED_MIN_QUANTUM == 1
SCHED_MAX_QUANTUM == 16

scheduler_quantum_for_priority(priority) ==
  LET p == IF priority = 0 THEN 1 ELSE priority
      q == (p * SCHED_BASE_QUANTUM) \div 128
  IN  IF q < SCHED_MIN_QUANTUM THEN SCHED_MIN_QUANTUM
      ELSE IF q > SCHED_MAX_QUANTUM THEN SCHED_MAX_QUANTUM ELSE q

(* Every process has the same priority (fork copies it), so one quantum.   *)
Quantum == scheduler_quantum_for_priority(Priority)

(* First element of a set of indices in the cyclic order start, start+1,.. *)
FirstFrom(start, S, count) ==
  LET dist(i) == (i + count - start) % count
  IN  CHOOSE i \in S : \A j \in S : dist(i) <= dist(j)

(* Operators named Fault... are seeded faults: the specification never uses *)
(* them, each shows that some property would notice.                       *)
FaultPickSelf(current) ==          (* the search starts at the current task *)
  LET count == Len(tasks)
      ready == {i \in 1 .. count :
                  tasks[i].valid /\ state[tasks[i].proc] \in {"READY", "CREATED", "RUNNING"}}
  IN  IF ready = {} THEN 0
      ELSE FirstFrom(IF current = 0 THEN 1 ELSE current, ready, count)
FaultPickBlocked(current) ==       (* a starvation pass over blocked tasks *)
  LET count == Len(tasks)
      alive == {i \in 1 .. count : tasks[i].valid}
  IN  IF alive = {} THEN 0 ELSE FirstFrom((current % count) + 1, alive, count)

(* Round robin from the task after the current one; 0 when none is ready.  *)
scheduler_pick_next(current) ==
  LET count == Len(tasks)
      ready == {i \in 1 .. count :
                  tasks[i].valid /\ state[tasks[i].proc] \in {"READY", "CREATED", "RUNNING"}}
  IN  IF ready = {} THEN 0 ELSE FirstFrom((current % count) + 1, ready, count)

FaultFirstSkipsInit(tsks, st) ==   (* the search starts one slot late *)
  LET ready == {i \in 2 .. Len(tsks) :
                  tsks[i].valid /\ st[tsks[i].proc] \notin {"ZOMBIE", "BLOCKED"}}
  IN  IF ready = {} THEN 0 ELSE CHOOSE i \in ready : \A j \in ready : i <= j
FaultFirstNotBlocked(tsks, st) ==  (* dead tasks are not skipped *)
  LET ready == {i \in 1 .. Len(tsks) : st[tsks[i].proc] # "BLOCKED"}
  IN  IF ready = {} THEN 0 ELSE CHOOSE i \in ready : \A j \in ready : i <= j

(* exit and waitpid do not use the scheduler: they take the lowest index.  *)
FirstRunnable(tsks, st) ==
  LET ready == {i \in 1 .. Len(tsks) :
                  tsks[i].valid /\ st[tsks[i].proc] \notin {"ZOMBIE", "BLOCKED"}}
  IN  IF ready = {} THEN 0 ELSE CHOOSE i \in ready : \A j \in ready : i <= j

FaultIndexStale(tsks, p, fallback) == fallback  (* the index is not updated *)

(* Index of a process in the table, or the fallback when it has no slot.   *)
IndexOf(tsks, p, fallback) ==
  LET at == {i \in 1 .. Len(tsks) : tsks[i].proc = p}
  IN  IF at = {} THEN fallback ELSE CHOOSE i \in at : \A j \in at : i <= j

Task(p, saved) == [proc |-> p, valid |-> TRUE, saved |-> saved]

FaultAddUnsaved(p) == Append(tasks, Task(p, FALSE))  (* context not filled in *)
FaultAddNoLimit(p) == Append(tasks, Task(p, TRUE))   (* table size not checked *)

(* mt_add_task refuses silently when the table is full; slots of dead      *)
(* tasks are not reused.  execve and fork fill in the saved context of the *)
(* new slot at once.                                                       *)
mt_add_task(p) ==
  IF Len(tasks) < MaxTasks THEN Append(tasks, Task(p, TRUE)) ELSE tasks

(* A caller's registers are kept in blocked_list, if there is room.        *)
block_caller(p, target) ==
  IF Len(blocked_list) < MaxBlocked
  THEN Append(blocked_list, [proc |-> p, target |-> target])
  ELSE blocked_list

PlaceOfBlocked == IF Len(blocked_list) < MaxBlocked THEN "list" ELSE "lost"

-----------------------------------------------------------------------------
(* uproc(): init is process 1, entered in the table and started.           *)
Init ==
  /\ state = [p \in Pids |-> IF p = 1 THEN "RUNNING" ELSE "NONE"]
  /\ pid_next = 2
  /\ tasks = <<Task(1, FALSE)>>
  /\ current_idx = 1
  /\ ticks = 0
  /\ blocked_list = <<>>
  /\ proc_curr = 1
  /\ cpu = 1
  /\ mode = "user"
  /\ cont = [p \in Pids |-> IF p = 1 THEN "cpu" ELSE "none"]
  /\ kids = [p \in Pids |-> {}]

(* The caller is in user mode and traps into the kernel.                   *)
SystemCall == mode = "user"

-----------------------------------------------------------------------------
(* fork: a copy of the caller, ready to run from the return of fork.       *)
scall_fork ==
  /\ SystemCall
  /\ pid_next <= NPids
  /\ Len(tasks) < MaxTasks
  /\ pid_next' = pid_next + 1
  /\ state' = [state EXCEPT ![pid_next] = "READY"]
  /\ tasks' = mt_add_task(pid_next)
  /\ cont' = [cont EXCEPT ![pid_next] = "call"]
  /\ kids' = [kids EXCEPT ![cpu] = @ \cup {pid_next}]
  /\ UNCHANGED <<current_idx, ticks, blocked_list, proc_curr, cpu, mode>>

(* A process is created that never gets a task slot, and the caller is     *)
(* told -1: fork with a full task table, or execve of a file that is not a *)
(* loadable ELF.  Nobody ever runs it or buries it.                        *)
create_orphan ==
  /\ SystemCall
  /\ pid_next <= NPids
  /\ pid_next' = pid_next + 1
  /\ state' = [state EXCEPT ![pid_next] = "READY"]
  /\ UNCHANGED <<tasks, current_idx, ticks, blocked_list, proc_curr, cpu, mode, cont, kids>>

(* fork or execve when the process's memory cannot be allocated:           *)
(* proc_create_proc uses up a pid and kills the half-made process.  (With  *)
(* the pool exhausted, or a file that cannot be opened, they return -1     *)
(* without any change.)                                                    *)
create_no_memory ==
  /\ SystemCall
  /\ pid_next <= NPids
  /\ pid_next' = pid_next + 1
  /\ state' = [state EXCEPT ![pid_next] = "ZOMBIE"]
  /\ UNCHANGED <<tasks, current_idx, ticks, blocked_list, proc_curr, cpu, mode, cont, kids>>

(* execve: the caller blocks until the new process exits; the new process  *)
(* gets the processor at once.  The result of mt_add_task is not looked    *)
(* at: with a full table current_idx stays at the caller's slot.           *)
scall_execve ==
  /\ SystemCall
  /\ pid_next <= NPids
  /\ pid_next' = pid_next + 1
  /\ blocked_list' = block_caller(cpu, pid_next)
  /\ state' = [state EXCEPT ![cpu] = "BLOCKED", ![pid_next] = "RUNNING"]
  /\ cont' = [cont EXCEPT ![cpu] = PlaceOfBlocked, ![pid_next] = "cpu"]
  /\ tasks' = mt_add_task(pid_next)
  /\ current_idx' = IndexOf(mt_add_task(pid_next), pid_next, current_idx)
  /\ cpu' = pid_next
  /\ proc_curr' = pid_next
  /\ UNCHANGED <<ticks, mode, kids>>

(* The end of exit and waitpid when nobody was woken: the first runnable   *)
(* task takes over, or the processor halts with interrupts off.            *)
resume_first(st, tsks, places, idle) ==
  LET i == FirstRunnable(tsks, st)
      p == tsks[i].proc
  IN  \/ /\ i # 0
         /\ state' = [st EXCEPT ![p] = "RUNNING"]
         /\ cont' = [places EXCEPT ![p] = "cpu"]
         /\ current_idx' = i
         /\ cpu' = p
         /\ proc_curr' = p
         /\ UNCHANGED mode
      \/ /\ i = 0
         /\ state' = st
         /\ cont' = places
         /\ proc_curr' = idle
         /\ mode' = "halt"
         /\ UNCHANGED <<current_idx, cpu>>

(* waitpid on a process that is still alive.  (An unknown pid returns -1,  *)
(* a dead one its pid, both without any change.)                           *)
scall_waitpid(pid) ==
  /\ SystemCall
  /\ WaitAnyPid \/ pid \in kids[cpu]
  /\ state[pid] \notin {"NONE", "ZOMBIE"}
  /\ blocked_list' = block_caller(cpu, pid)
  /\ resume_first([state EXCEPT ![cpu] = "BLOCKED"], tasks,
                  [cont EXCEPT ![cpu] = PlaceOfBlocked], 0)
  /\ UNCHANGED <<pid_next, tasks, ticks, kids>>

FaultRemoveLast(s, k) == SubSeq(s, 1, Len(s) - 1)     (* the wrong entry goes *)
FaultNoDecrement(s, k) ==                            (* blocked_count stays *)
  [i \in 1 .. Len(s) |-> IF i = k THEN s[Len(s)] ELSE s[i]]

(* Remove element k the way the code does: the last element takes its      *)
(* place.                                                                  *)
SwapRemove(s, k) ==
  [i \in 1 .. (Len(s) - 1) |-> IF i = k THEN s[Len(s)] ELSE s[i]]

Retire(p) ==
  [i \in 1 .. Len(tasks) |->
     IF i = IndexOf(tasks, p, 0) THEN [tasks[i] EXCEPT !.valid = FALSE] ELSE tasks[i]]

FaultAnyWaiter(pid) == 1 .. Len(blocked_list)  (* one blocked parent at a time *)

WaitersFor(pid) == {i \in 1 .. Len(blocked_list) : blocked_list[i].target = pid}

(* exit with a waiter: the first one is taken off the list and resumed     *)
(* directly, ahead of every ready task.                                    *)
exit_to_waiter ==
  /\ SystemCall
  /\ WaitersFor(cpu) # {}
  /\ LET k == CHOOSE i \in WaitersFor(cpu) : \A j \in WaitersFor(cpu) : i <= j
         parent == blocked_list[k].proc
     IN  /\ blocked_list' = SwapRemove(blocked_list, k)
         /\ state' = [state EXCEPT ![cpu] = "ZOMBIE", ![parent] = "RUNNING"]
         /\ cont' = [cont EXCEPT ![cpu] = "none", ![parent] = "cpu"]
         /\ current_idx' = IndexOf(tasks, parent, current_idx)
         /\ cpu' = parent
         /\ proc_curr' = parent
  /\ tasks' = Retire(cpu)
  /\ UNCHANGED <<pid_next, ticks, mode, kids>>

(* exit without one.                                                       *)
exit_no_waiter ==
  /\ SystemCall
  /\ WaitersFor(cpu) = {}
  /\ tasks' = Retire(cpu)
  /\ resume_first([state EXCEPT ![cpu] = "ZOMBIE"], Retire(cpu),
                  [cont EXCEPT ![cpu] = "none"], proc_curr)
  /\ UNCHANGED <<pid_next, ticks, blocked_list, kids>>

scall_exit == exit_to_waiter \/ exit_no_waiter

-----------------------------------------------------------------------------
(* The timer interrupt in user mode.                                       *)

(* A blocked current task (a stale current_idx) expires the quantum.       *)
QuantumExpired ==
  \/ ticks + 1 >= Quantum
  \/ current_idx # 0 /\ tasks[current_idx].valid
       /\ state[tasks[current_idx].proc] = "BLOCKED"

timer_tick ==
  /\ mode = "user"
  /\ Len(tasks) >= 2
  /\ ~ QuantumExpired
  /\ ticks' = ticks + 1
  /\ UNCHANGED <<state, pid_next, tasks, current_idx, blocked_list, proc_curr, cpu, mode, cont, kids>>

(* Nobody else to run: only the tick counter starts again.                 *)
mt_preempt_same ==
  /\ mode = "user"
  /\ Len(tasks) >= 2
  /\ QuantumExpired
  /\ scheduler_pick_next(current_idx) \in {0, current_idx}
  /\ ticks' = 0
  /\ UNCHANGED <<state, pid_next, tasks, current_idx, blocked_list, proc_curr, cpu, mode, cont, kids>>

(* The switch: the registers of whoever was interrupted are written to the *)
(* slot current_idx names, and the next task's are loaded.                 *)
mt_preempt_switch ==
  /\ mode = "user"
  /\ Len(tasks) >= 2
  /\ QuantumExpired
  /\ LET old   == current_idx
         new   == scheduler_pick_next(old)
         next  == tasks[new].proc
         saves == old # 0 /\ tasks[old].valid
         owner == tasks[old].proc
         st    == IF saves /\ state[owner] = "RUNNING"
                  THEN [state EXCEPT ![owner] = "READY"] ELSE state
         out   == IF saves /\ owner = cpu THEN [cont EXCEPT ![cpu] = "trap"]
                  ELSE IF saves /\ cont[owner] \in {"trap", "call"}
                  THEN [cont EXCEPT ![cpu] = "lost", ![owner] = "lost"]
                  ELSE [cont EXCEPT ![cpu] = "lost"]
     IN  /\ new \notin {0, old}
         /\ tasks' = IF saves THEN [tasks EXCEPT ![old].saved = TRUE] ELSE tasks
         /\ state' = [st EXCEPT ![next] = "RUNNING"]
         /\ cont' = [out EXCEPT ![next] = "cpu"]
         /\ current_idx' = new
         /\ cpu' = next
         /\ proc_curr' = next
  /\ ticks' = 0
  /\ UNCHANGED <<pid_next, blocked_list, mode, kids>>

mt_preempt == mt_preempt_same \/ mt_preempt_switch

timer_handler == timer_tick \/ mt_preempt

-----------------------------------------------------------------------------
Next ==
  \/ scall_fork
  \/ create_orphan
  \/ create_no_memory
  \/ scall_execve
  \/ \E pid \in Pids : scall_waitpid(pid)
  \/ scall_exit
  \/ timer_handler

(* The timer chip keeps interrupting a processor in user mode; nothing     *)
(* obliges a program to make system calls.                                 *)
Fairness == WF_vars(timer_handler)

Spec == Init /\ [][Next]_vars /\ Fairness

-----------------------------------------------------------------------------
TypeOK ==
  /\ state \in [Pids -> States]
  /\ pid_next \in 1 .. (NPids + 1)
  /\ tasks \in Seq([proc : Pids, valid : BOOLEAN, saved : BOOLEAN])
  /\ Len(tasks) <= MaxTasks
  /\ current_idx \in 0 .. Len(tasks)
  /\ ticks \in 0 .. Quantum
  /\ blocked_list \in Seq([proc : Pids, target : Pids])
  /\ Len(blocked_list) <= MaxBlocked
  /\ proc_curr \in 0 .. NPids
  /\ cpu \in Pids
  /\ mode \in {"user", "halt", "spin"}
  /\ cont \in [Pids -> Places]
  /\ kids \in [Pids -> SUBSET Pids]

(* While fewer processes were made than the table has slots, none can have *)
(* been refused one.                                                       *)
TableNeverFull == pid_next - 1 <= MaxTasks

Entries == {blocked_list[i] : i \in 1 .. Len(blocked_list)}

(* Four records of who runs must agree after any interleaving of system    *)
(* calls and ticks: CR3, the task table's current index, ptr_proc_curr and *)
(* the RUNNING state (syscalls.c:199-217, 226-235, 394-437;                *)
(* multitasking.c:266-315).                                                *)
OneRunning ==
  mode = "user" /\ TableNeverFull =>
    /\ {p \in Pids : state[p] = "RUNNING"} = {cpu}
    /\ current_idx # 0 /\ tasks[current_idx].proc = cpu /\ tasks[current_idx].valid
    /\ proc_curr = cpu

(* Whatever is blocked can be woken: its registers are in blocked_list,    *)
(* exactly once, and the process it waits for is still alive.  A waiter    *)
(* entered after its child's exit, or passed over by it, would sleep for   *)
(* ever (syscalls.c:181-200, 727-744).                                     *)
NoLostWakeup ==
  ~ WaitAnyPid /\ MaxBlocked >= NPids /\ TableNeverFull =>
    /\ \A p \in Pids : state[p] = "BLOCKED" =>
         \E e \in Entries : e.proc = p /\ state[e.target] \notin {"NONE", "ZOMBIE"}
    /\ \A i, j \in 1 .. Len(blocked_list) :
         blocked_list[i].proc = blocked_list[j].proc => i = j
    /\ \A e \in Entries : state[e.proc] = "BLOCKED"

(* The kernel stops for good only when every process with a task slot is   *)
(* dead: waits never close a cycle and never leave only waiters behind     *)
(* (the hlt loops of syscalls.c:253 and 781).                              *)
HaltsOnlyWhenDone ==
  ~ WaitAnyPid /\ MaxBlocked >= NPids /\ TableNeverFull /\ mode = "halt" =>
    \A i \in 1 .. Len(tasks) : state[tasks[i].proc] = "ZOMBIE"

(* Whoever may be given the processor by the task table has its registers  *)
(* in its own user_ctx: nothing ready is resumed from a slot that was not  *)
(* filled or was overwritten (syscalls.c:236-246, multitasking.c:275-310). *)
ReadyIsResumable ==
  TableNeverFull =>
    \A i \in 1 .. Len(tasks) : state[tasks[i].proc] = "READY" =>
      tasks[i].saved /\ cont[tasks[i].proc] \in {"trap", "call"}

(* "Switching the CPU to it before that event fires corrupts its context"  *)
(* (scheduler.c:88-90): whoever has an entry in blocked_list gets the      *)
(* processor only by the exit of the process it waits for, never from its  *)
(* slot of the task table.                                                 *)
BlockedOnlyWokenByExit ==
  [][\A e \in Entries : cpu' = e.proc /\ cpu # e.proc =>
       /\ state[cpu] # "ZOMBIE" /\ state'[cpu] = "ZOMBIE"
       /\ e.target = cpu]_vars

(* A dead process stays dead: its stack and heap are already free.         *)
DeadStaysDead ==
  [][\A p \in Pids : state[p] = "ZOMBIE" => state'[p] = "ZOMBIE" /\ ~ (cpu' = p /\ mode' = "user")]_vars

(* A ready task gets the processor, whatever the others do: "so high       *)
(* priority cant starve others forever" (scheduler.h:35).                  *)
ReadyEventuallyRuns ==
  \A p \in Pids :
    (state[p] = "READY" /\ \E i \in 1 .. Len(tasks) : tasks[i].proc = p)
      ~> (cpu = p)
(* The blocked list never names a process that is not blocked, or a target *)
(* that nobody could exit as, whatever the limits and whoever waits for    *)
(* whom: an entry fires at most once (syscalls.c:199-200).                 *)
EntriesAreBlocked ==
  /\ \A e \in Entries : state[e.proc] = "BLOCKED" /\ cont[e.proc] = "list"
  /\ \A i, j \in 1 .. Len(blocked_list) :
       blocked_list[i].proc = blocked_list[j].proc => i = j

(* "saved user-mode cpu state" (multitasking.h:54), all registers: what    *)
(* the timer saved is restored by the timer's iretq.  exit and waitpid     *)
(* resume through resume_parent_sysret, which zeroes rax, rdi, rsi, rdx,   *)
(* r8-r10 and overwrites rcx and r11.                                      *)
SavedStateFullyRestored ==
  [][\A p \in Pids : cont[p] = "trap" /\ cpu # p /\ cpu' = p /\ mode' = "user"
       => mt_preempt_switch]_vars

(* The promise of ProcessLife: who is alive is read off the states, who    *)
(* waits for whom off blocked_list.                                        *)
Life == INSTANCE ProcessLife WITH
  Pids   <- Pids,
  life   <- [p \in Pids |-> IF state[p] = "NONE" THEN "none"
                            ELSE IF state[p] = "ZOMBIE" THEN "dead" ELSE "alive"],
  awaits <- [p \in Pids |->
               IF \E e \in Entries : e.proc = p
               THEN (CHOOSE e \in Entries : e.proc = p).target ELSE 0]

ImplementsProcessLife == Life!LSpec
=============================================================================
