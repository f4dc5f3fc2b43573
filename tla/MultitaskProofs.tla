--------------------------- MODULE MultitaskProofs ---------------------------
(***************************************************************************)
(* For any number of processes, task slots and blocked-list entries: type  *)
(* correctness of the scheduler, soundness of blocked_list, agreement of   *)
(* the four records of who runs (IInv); that no wakeup is lost and the     *)
(* kernel stops only when everybody is dead (WInv); and the refinement of  *)
(* ProcessLife.                                                            *)
(*                                                                         *)
(* And with the message queues on top, for any limits: every inbox keeps   *)
(* what it was sent, in order, and the kernel heap holds exactly the       *)
(* messages that are queued.  Every step of Multitask keeps the types of   *)
(* its state, also after a message made a process READY that blocked_list  *)
(* still holds, which IInv does not allow.  IpcInv adds to the property    *)
(* what its steps need: an inbox nobody opened is empty, and no number in  *)
(* use reaches the next one.                                               *)
(***************************************************************************)
EXTENDS Messages, SetLemmas

Slots == 1 .. Len(tasks)
HasSlot(p) == \E i \in Slots : tasks[i].proc = p

(* Pids are given out in order.                                            *)
PidsInOrder == \A p \in Pids : state[p] = "NONE" <=> p >= pid_next

(* One slot for a process at most, valid until it is dead.                 *)
TableShape ==
  /\ Len(tasks) \in 1 .. (pid_next - 1)
  /\ \A i \in Slots : tasks[i].proc < pid_next
  /\ \A i \in Slots : tasks[i].valid <=> state[tasks[i].proc] # "ZOMBIE"
  /\ \A i, j \in Slots : tasks[i].proc = tasks[j].proc => i = j

(* A full table is the only way to run without a slot.                     *)
RunnersHaveSlots ==
  TableNeverFull =>
    \A p \in Pids : state[p] \in {"RUNNING", "BLOCKED"} => HasSlot(p)

CpuRuns == mode = "user" => state[cpu] = "RUNNING" /\ cont[cpu] = "cpu"

(* EntriesAreBlocked is inductive only with CpuRuns (the caller is not     *)
(* blocked), OneRunning only with the shape of the table (the index found  *)
(* for a process is its slot) and RunnersHaveSlots.                        *)
IInv ==
  /\ TypeOK
  /\ PidsInOrder
  /\ TableShape
  /\ RunnersHaveSlots
  /\ CpuRuns
  /\ EntriesAreBlocked
  /\ OneRunning
  /\ ReadyIsResumable

-----------------------------------------------------------------------------
(* A process runs at least one tick.                                       *)
LEMMA QuantumIsPositive == Quantum \in Nat \ {0}
  BY MultitaskAssumption
     DEF Quantum, scheduler_quantum_for_priority, SCHED_BASE_QUANTUM,
         SCHED_MIN_QUANTUM, SCHED_MAX_QUANTUM

TaskRecords == [proc : Pids, valid : BOOLEAN, saved : BOOLEAN]

(* The cyclic search returns a member of the set it searches.              *)
LEMMA FirstFromIsMember ==
  ASSUME NEW count \in Nat \ {0}, NEW start \in 1 .. count,
         NEW S \in SUBSET (1 .. count), S # {}
  PROVE  FirstFrom(start, S, count) \in S
<1> DEFINE dist(i) == (i + count - start) % count
           D == {dist(i) : i \in S}
<1>1. \A i \in S : dist(i) \in Nat
  OBVIOUS
<1>2. D \in SUBSET Nat /\ D # {}
  BY <1>1
<1> HIDE DEF D
<1>3. PICK d \in D : \A e \in D : d <= e
  BY <1>2, MinExists
<1>4. PICK i \in S : d = dist(i)
  BY DEF D
<1>5. \A j \in S : dist(i) <= dist(j)
  <2> HIDE DEF dist
  <2> QED BY <1>3, <1>4 DEF D
<1>6. \E k \in S : \A j \in S : dist(k) <= dist(j)
  <2> HIDE DEF dist
  <2> QED BY <1>5
<1> QED BY <1>6, Zenon DEF FirstFrom

(* The scheduler picks nobody, or a valid task that is ready or running.   *)
LEMMA PickNextIsReady ==
  ASSUME TypeOK, NEW c \in 0 .. Len(tasks), Len(tasks) > 0,
         scheduler_pick_next(c) # 0
  PROVE  /\ scheduler_pick_next(c) \in Slots
         /\ tasks[scheduler_pick_next(c)].valid
         /\ state[tasks[scheduler_pick_next(c)].proc] \in {"READY", "CREATED", "RUNNING"}
<1> DEFINE count == Len(tasks)
           ready == {i \in 1 .. count :
                       tasks[i].valid /\ state[tasks[i].proc] \in {"READY", "CREATED", "RUNNING"}}
<1>1. count \in Nat \ {0} /\ (c % count) + 1 \in 1 .. count
  BY DEF TypeOK
<1>2. scheduler_pick_next(c) = IF ready = {} THEN 0 ELSE FirstFrom((c % count) + 1, ready, count)
  BY DEF scheduler_pick_next
<1>3. ready # {} /\ scheduler_pick_next(c) = FirstFrom((c % count) + 1, ready, count)
  BY <1>2
<1>4. ready \in SUBSET (1 .. count)
  OBVIOUS
<1>5. FirstFrom((c % count) + 1, ready, count) \in ready
  <2> HIDE DEF ready, count
  <2> QED BY <1>1, <1>3, <1>4, FirstFromIsMember
<1> QED BY <1>3, <1>5 DEF Slots

(* exit and waitpid pick nobody, or a valid task neither dead nor blocked. *)
LEMMA FirstRunnableIsRunnable ==
  ASSUME NEW tsks, Len(tsks) \in Nat, NEW st, FirstRunnable(tsks, st) # 0
  PROVE  /\ FirstRunnable(tsks, st) \in 1 .. Len(tsks)
         /\ tsks[FirstRunnable(tsks, st)].valid
         /\ st[tsks[FirstRunnable(tsks, st)].proc] \notin {"ZOMBIE", "BLOCKED"}
<1> DEFINE ready == {i \in 1 .. Len(tsks) :
                       tsks[i].valid /\ st[tsks[i].proc] \notin {"ZOMBIE", "BLOCKED"}}
<1>1. ready \in SUBSET Nat /\ ready # {}
  BY DEF FirstRunnable
<1>2. \E i \in ready : \A j \in ready : i <= j
  <2> HIDE DEF ready
  <2> QED BY <1>1, MinExists
<1>3. FirstRunnable(tsks, st) \in ready
  BY <1>1, <1>2, Zenon DEF FirstRunnable
<1> QED BY <1>3

(* The index found for a process is one of its slots.                      *)
LEMMA IndexOfIsSlot ==
  ASSUME NEW tsks, Len(tsks) \in Nat, NEW p, NEW fallback
  PROVE  IF \E i \in 1 .. Len(tsks) : tsks[i].proc = p
         THEN /\ IndexOf(tsks, p, fallback) \in 1 .. Len(tsks)
              /\ tsks[IndexOf(tsks, p, fallback)].proc = p
         ELSE IndexOf(tsks, p, fallback) = fallback
<1> DEFINE at == {i \in 1 .. Len(tsks) : tsks[i].proc = p}
<1>1. CASE at = {}
  BY <1>1 DEF IndexOf
<1>2. CASE at # {}
  <2>1. at \in SUBSET Nat
    OBVIOUS
  <2>2. \E i \in at : \A j \in at : i <= j
    <3> HIDE DEF at
    <3> QED BY <1>2, <2>1, MinExists
  <2>3. IndexOf(tsks, p, fallback) \in at
    BY <1>2, <2>2, Zenon DEF IndexOf
  <2> QED BY <2>3
<1> QED BY <1>1, <1>2

(* The slots of the task table are task records.                           *)
LEMMA TasksAreTyped ==
  ASSUME TypeOK
  PROVE  /\ tasks \in Seq(TaskRecords) /\ Len(tasks) \in Nat
         /\ \A i \in Slots : tasks[i] \in TaskRecords
<1>1. tasks \in Seq(TaskRecords)
  BY DEF TypeOK, TaskRecords
<1>2. Len(tasks) \in Nat /\ \A i \in 1 .. Len(tasks) : tasks[i] \in TaskRecords
  <2> HIDE DEF TaskRecords
  <2> QED BY <1>1
<1> QED BY <1>1, <1>2 DEF Slots

(* Retiring a process invalidates its slot and touches nothing else.       *)
LEMMA RetireInvalidates ==
  ASSUME TypeOK, TableShape, NEW p \in Pids
  PROVE  /\ Retire(p) \in Seq(TaskRecords) /\ Len(Retire(p)) = Len(tasks)
         /\ \A i \in Slots :
              /\ Retire(p)[i].proc = tasks[i].proc
              /\ Retire(p)[i].saved = tasks[i].saved
              /\ Retire(p)[i].valid <=> tasks[i].valid /\ tasks[i].proc # p
<1>1. Len(tasks) \in Nat /\ \A i \in Slots : tasks[i] \in TaskRecords
  BY TasksAreTyped
<1> DEFINE k == IndexOf(tasks, p, 0)
<1>2. \A i \in Slots : i = k <=> tasks[i].proc = p
  BY <1>1, IndexOfIsSlot DEF TableShape, Slots
<1>3. Retire(p) = [i \in Slots |-> IF i = k THEN [tasks[i] EXCEPT !.valid = FALSE] ELSE tasks[i]]
  BY DEF Retire, Slots
<1> HIDE DEF k
<1>4. Retire(p) \in [Slots -> TaskRecords]
  BY <1>1, <1>3, ZenonT(60) DEF TaskRecords
<1>5. Retire(p) \in Seq(TaskRecords) /\ Len(Retire(p)) = Len(tasks)
  BY <1>1, <1>4 DEF Slots
<1>6. \A i \in Slots : Retire(p)[i] =
        IF tasks[i].proc = p THEN [tasks[i] EXCEPT !.valid = FALSE] ELSE tasks[i]
  BY <1>2, <1>3
<1>7. ASSUME NEW i \in Slots
      PROVE  /\ Retire(p)[i].proc = tasks[i].proc
             /\ Retire(p)[i].saved = tasks[i].saved
             /\ Retire(p)[i].valid <=> tasks[i].valid /\ tasks[i].proc # p
  BY <1>1, <1>6 DEF TaskRecords
<1> QED BY <1>5, <1>7

EntryRecords == [proc : Pids, target : Pids]

(* Removing element k leaves the others, each once.                        *)
LEMMA SwapRemoveKeepsOthers ==
  ASSUME NEW s \in Seq(EntryRecords), NEW k \in 1 .. Len(s)
  PROVE  /\ SwapRemove(s, k) \in Seq(EntryRecords)
         /\ Len(SwapRemove(s, k)) = Len(s) - 1
         /\ \A i \in 1 .. Len(SwapRemove(s, k)) :
              SwapRemove(s, k)[i] = s[IF i = k THEN Len(s) ELSE i]
<1>1. Len(s) - 1 \in Nat /\ \A i \in 1 .. Len(s) : s[i] \in EntryRecords
  OBVIOUS
<1>2. SwapRemove(s, k) = [i \in 1 .. (Len(s) - 1) |-> IF i = k THEN s[Len(s)] ELSE s[i]]
  BY DEF SwapRemove
<1>3. SwapRemove(s, k) \in [1 .. (Len(s) - 1) -> EntryRecords]
  BY <1>1, <1>2
<1>4. SwapRemove(s, k) \in Seq(EntryRecords) /\ Len(SwapRemove(s, k)) = Len(s) - 1
  BY <1>1, <1>3
<1> QED BY <1>1, <1>2, <1>4

(* A task is added at the end, or not at all.                              *)
LEMMA AddTaskAppends ==
  ASSUME TypeOK, NEW p \in Pids
  PROVE  /\ mt_add_task(p) \in Seq(TaskRecords)
         /\ Len(mt_add_task(p)) = IF Len(tasks) < MaxTasks THEN Len(tasks) + 1 ELSE Len(tasks)
         /\ Len(mt_add_task(p)) <= MaxTasks
         /\ \A i \in Slots : mt_add_task(p)[i] = tasks[i]
         /\ Len(tasks) < MaxTasks => mt_add_task(p)[Len(tasks) + 1] = Task(p, TRUE)
<1>1. Task(p, TRUE) \in TaskRecords /\ tasks \in Seq(TaskRecords)
  BY TasksAreTyped DEF Task, TaskRecords
<1>2. Len(tasks) <= MaxTasks
  BY DEF TypeOK
<1>3. CASE Len(tasks) < MaxTasks
  <2> DEFINE t == Task(p, TRUE)
  <2>1. mt_add_task(p) = Append(tasks, t)
    BY <1>3 DEF mt_add_task
  <2>2. t \in TaskRecords
    BY <1>1
  <2> HIDE DEF t
  <2>3. Append(tasks, t) \in Seq(TaskRecords) /\ Len(Append(tasks, t)) = Len(tasks) + 1
    BY <1>1, <2>2
  <2>4. Append(tasks, t)[Len(tasks) + 1] = t /\ \A i \in Slots : Append(tasks, t)[i] = tasks[i]
    BY <1>1, <2>2 DEF Slots
  <2>5. Len(tasks) + 1 <= MaxTasks
    BY <1>1, <1>3, MultitaskAssumption
  <2> QED BY <1>3, <2>1, <2>3, <2>4, <2>5 DEF t
<1>4. CASE ~ (Len(tasks) < MaxTasks)
  BY <1>1, <1>2, <1>4 DEF mt_add_task
<1> QED BY <1>3, <1>4

(* A caller's entry is added at the end, or not at all.                    *)
LEMMA BlockCallerAppends ==
  ASSUME TypeOK, NEW p \in Pids, NEW t \in Pids
  PROVE  /\ block_caller(p, t) \in Seq(EntryRecords)
         /\ Len(block_caller(p, t)) <= MaxBlocked
         /\ \A i \in 1 .. Len(block_caller(p, t)) :
              \/ i \in 1 .. Len(blocked_list) /\ block_caller(p, t)[i] = blocked_list[i]
              \/ /\ i = Len(blocked_list) + 1 /\ Len(blocked_list) < MaxBlocked
                 /\ block_caller(p, t)[i] = [proc |-> p, target |-> t]
<1>1. [proc |-> p, target |-> t] \in EntryRecords /\ blocked_list \in Seq(EntryRecords)
  BY DEF EntryRecords, TypeOK
<1> QED BY <1>1, MultitaskAssumption DEF block_caller, TypeOK

(* What the end of exit and waitpid does: a runnable task, or halt.        *)
LEMMA ResumeFirstResumes ==
  ASSUME NEW st, NEW tsks, Len(tsks) \in Nat, NEW places, NEW idle,
         resume_first(st, tsks, places, idle)
  PROVE  \/ \E i \in 1 .. Len(tsks) :
              /\ tsks[i].valid /\ st[tsks[i].proc] \notin {"ZOMBIE", "BLOCKED"}
              /\ state' = [st EXCEPT ![tsks[i].proc] = "RUNNING"]
              /\ cont' = [places EXCEPT ![tsks[i].proc] = "cpu"]
              /\ current_idx' = i /\ cpu' = tsks[i].proc /\ proc_curr' = tsks[i].proc
              /\ mode' = mode
         \/ /\ state' = st /\ cont' = places /\ proc_curr' = idle /\ mode' = "halt"
            /\ current_idx' = current_idx /\ cpu' = cpu
<1>1. CASE FirstRunnable(tsks, st) # 0
  BY <1>1, FirstRunnableIsRunnable DEF resume_first
<1>2. CASE FirstRunnable(tsks, st) = 0
  BY <1>2 DEF resume_first
<1> QED BY <1>1, <1>2

-----------------------------------------------------------------------------
(* At first the first process runs alone.                                  *)
LEMMA InitIInv == Init => IInv
<1> SUFFICES ASSUME Init PROVE IInv
  OBVIOUS
<1>1. 1 \in Pids /\ pid_next = 2 /\ pid_next \in 1 .. (NPids + 1)
  BY MultitaskAssumption DEF Pids, Init
<1>2. /\ state \in [Pids -> States] /\ cont \in [Pids -> Places]
      /\ kids \in [Pids -> SUBSET Pids]
      /\ state[1] = "RUNNING" /\ cont[1] = "cpu"
      /\ \A p \in Pids : p # 1 => state[p] = "NONE"
  BY <1>1 DEF Init, States, Places
<1>3. /\ current_idx = 1 /\ ticks = 0 /\ proc_curr = 1 /\ cpu = 1 /\ mode = "user"
  BY DEF Init
<1>4. PICK t \in TaskRecords : tasks = <<t>> /\ t.proc = 1 /\ t.valid
  <2> DEFINE t == [proc |-> 1, valid |-> TRUE, saved |-> FALSE]
  <2>1. tasks = <<t>>
    BY DEF Init, Task
  <2>2. t \in TaskRecords /\ t.proc = 1 /\ t.valid
    BY <1>1 DEF TaskRecords
  <2> HIDE DEF t
  <2> QED BY <2>1, <2>2
<1>5. tasks \in Seq(TaskRecords) /\ Len(tasks) = 1 /\ tasks[1] = t
  BY <1>4
<1>6. blocked_list \in Seq(EntryRecords) /\ Len(blocked_list) = 0
  BY DEF Init
<1>7. TypeOK
  BY <1>1, <1>2, <1>3, <1>5, <1>6, QuantumIsPositive, MultitaskAssumption
     DEF TypeOK, TaskRecords, EntryRecords, Pids
<1>8. PidsInOrder
  BY <1>1, <1>2 DEF PidsInOrder, Pids
<1>9. Slots = {1}
  BY <1>5 DEF Slots
<1>10. TableShape
  BY <1>1, <1>2, <1>4, <1>5, <1>9 DEF TableShape
<1>11. RunnersHaveSlots
  BY <1>2, <1>4, <1>5, <1>9 DEF RunnersHaveSlots, HasSlot
<1>12. CpuRuns /\ EntriesAreBlocked
  BY <1>2, <1>3, <1>6 DEF CpuRuns, EntriesAreBlocked, Entries
<1>13. OneRunning
  BY <1>1, <1>2, <1>3, <1>4, <1>5 DEF OneRunning
<1>14. ReadyIsResumable
  BY <1>2, <1>4, <1>5, <1>9 DEF ReadyIsResumable, Slots
<1> QED BY <1>7, <1>8, <1>10, <1>11, <1>12, <1>13, <1>14 DEF IInv

(* The caller is not blocked, so none of the entries is its own.           *)
LEMMA CallerHasNoEntry ==
  ASSUME IInv, mode = "user"
  PROVE  \A i \in 1 .. Len(blocked_list) : blocked_list[i].proc # cpu
  BY DEF IInv, CpuRuns, EntriesAreBlocked, Entries

(* The entries of the blocked list name processes.                         *)
LEMMA EntriesAreTyped ==
  ASSUME TypeOK
  PROVE  /\ blocked_list \in Seq(EntryRecords) /\ Len(blocked_list) \in Nat
         /\ \A i \in 1 .. Len(blocked_list) :
              /\ blocked_list[i] \in EntryRecords
              /\ blocked_list[i].proc \in Pids /\ blocked_list[i].target \in Pids
<1>1. blocked_list \in Seq(EntryRecords)
  BY DEF TypeOK, EntryRecords
<1>2. Len(blocked_list) \in Nat /\ \A i \in 1 .. Len(blocked_list) : blocked_list[i] \in EntryRecords
  <2> HIDE DEF EntryRecords
  <2> QED BY <1>1
<1> QED BY <1>1, <1>2 DEF EntryRecords

(* A step that leaves the blocked processes and blocked_list alone keeps   *)
(* the entries sound.                                                      *)
LEMMA SameEntriesSound ==
  ASSUME IInv, blocked_list' = blocked_list,
         \A p \in Pids : state[p] = "BLOCKED" /\ cont[p] = "list" =>
            state'[p] = "BLOCKED" /\ cont'[p] = "list"
  PROVE  EntriesAreBlocked'
<1>1. \A i \in 1 .. Len(blocked_list) :
        /\ blocked_list[i].proc \in Pids
        /\ state[blocked_list[i].proc] = "BLOCKED" /\ cont[blocked_list[i].proc] = "list"
  BY EntriesAreTyped DEF IInv, EntriesAreBlocked, Entries
<1>2. \A i \in 1 .. Len(blocked_list) :
        state'[blocked_list[i].proc] = "BLOCKED" /\ cont'[blocked_list[i].proc] = "list"
  BY <1>1
<1> QED BY <1>2 DEF IInv, EntriesAreBlocked, Entries

(* The table keeps its shape when a fresh process is added, or refused.    *)
LEMMA AddKeepsShape ==
  ASSUME IInv, pid_next \in Pids, pid_next' = pid_next + 1,
         tasks' = mt_add_task(pid_next), state'[pid_next] # "ZOMBIE",
         \A p \in Pids : p # pid_next => (state'[p] = "ZOMBIE" <=> state[p] = "ZOMBIE")
  PROVE  TableShape'
<1> DEFINE c == pid_next
<1>1. TypeOK /\ TableShape /\ c \in Nat /\ c + 1 \in Nat /\ Len(tasks) \in Nat
  BY MultitaskAssumption, TasksAreTyped DEF IInv, Pids
<1>2. \A i \in Slots : tasks[i].proc \in Pids /\ tasks[i].proc < c /\ tasks[i].proc # c
  BY <1>1, TasksAreTyped, MultitaskAssumption DEF TableShape, TaskRecords, Pids
<1>3. CASE Len(tasks) < MaxTasks
  <2>1. Len(tasks') = Len(tasks) + 1 /\ tasks'[Len(tasks) + 1] = Task(c, TRUE)
        /\ \A i \in Slots : tasks'[i] = tasks[i]
    BY <1>1, <1>3, AddTaskAppends
  <2>2. tasks'[Len(tasks) + 1].proc = c /\ tasks'[Len(tasks) + 1].valid
    BY <2>1 DEF Task
  <2>3. Slots' = Slots \cup {Len(tasks) + 1}
    BY <1>1, <2>1 DEF Slots
  <2>4. \A i \in Slots : tasks'[i].proc = tasks[i].proc /\ tasks'[i].valid = tasks[i].valid
    BY <2>1
  <2>5. Len(tasks') \in 1 .. (pid_next' - 1)
    BY <1>1, <2>1 DEF TableShape
  <2>6. ASSUME NEW i \in Slots' PROVE tasks'[i].proc < pid_next'
    <3>1. CASE i \in Slots
      <4>1. tasks'[i].proc < c /\ tasks'[i].proc \in Nat
        BY <1>2, <2>4, <3>1 DEF Pids
      <4> QED BY <1>1, <4>1
    <3>2. CASE i = Len(tasks) + 1
      BY <1>1, <2>2, <3>2
    <3> QED BY <2>3, <3>1, <3>2
  <2>7. ASSUME NEW i \in Slots'
        PROVE  tasks'[i].valid <=> state'[tasks'[i].proc] # "ZOMBIE"
    <3>1. CASE i \in Slots
      <4>1. tasks'[i].proc \in Pids /\ tasks'[i].proc # c
        BY <1>2, <2>4, <3>1
      <4>2. tasks[i].valid <=> state[tasks[i].proc] # "ZOMBIE"
        BY <1>1, <3>1 DEF TableShape
      <4> QED BY <2>4, <3>1, <4>1, <4>2
    <3>2. CASE i = Len(tasks) + 1
      BY <2>2, <3>2
    <3> QED BY <2>3, <3>1, <3>2
  <2>8. ASSUME NEW i \in Slots', NEW j \in Slots', tasks'[i].proc = tasks'[j].proc
        PROVE  i = j
    <3>1. CASE i \in Slots /\ j \in Slots
      BY <1>1, <2>4, <2>8, <3>1 DEF TableShape
    <3>2. CASE ~ (i \in Slots /\ j \in Slots)
      BY <1>2, <2>2, <2>3, <2>4, <2>8, <3>2
    <3> QED BY <3>1, <3>2
  <2> QED BY <2>5, <2>6, <2>7, <2>8 DEF TableShape, Slots
<1>4. CASE ~ (Len(tasks) < MaxTasks)
  <2>1. tasks' = tasks /\ Slots' = Slots
    BY <1>4 DEF mt_add_task, Slots
  <2>2. Len(tasks) \in 1 .. (pid_next' - 1) /\ \A i \in Slots : tasks[i].proc < pid_next'
    <3>1. \A i \in Slots : tasks[i].proc \in Nat /\ tasks[i].proc < c
      BY <1>2 DEF Pids
    <3> QED BY <1>1, <3>1 DEF TableShape
  <2>3. \A i \in Slots : tasks[i].valid <=> state'[tasks[i].proc] # "ZOMBIE"
    BY <1>1, <1>2 DEF TableShape
  <2> QED BY <1>1, <2>1, <2>2, <2>3 DEF TableShape
<1> QED BY <1>3, <1>4

(* A fresh pid changes nothing about the others.                           *)
LEMMA ForkIInv == ASSUME IInv, scall_fork PROVE IInv'
<1> USE MultitaskAssumption
<1> USE DEF IInv
<1> DEFINE c == pid_next
<1>1. c \in Pids /\ state[c] = "NONE" /\ c # cpu /\ c' = c + 1
  BY DEF scall_fork, TypeOK, PidsInOrder, CpuRuns, SystemCall, Pids
<1>2. \A i \in Slots : tasks[i].proc \in Pids /\ tasks[i].proc < c
  BY TasksAreTyped DEF TableShape, TaskRecords
<1>3. /\ tasks' \in Seq(TaskRecords) /\ Len(tasks') = Len(tasks) + 1 /\ Len(tasks') <= MaxTasks
      /\ \A i \in Slots : tasks'[i] = tasks[i]
      /\ tasks'[Len(tasks) + 1] = Task(c, TRUE)
  BY <1>1, AddTaskAppends DEF scall_fork
<1>4. tasks'[Len(tasks) + 1].proc = c /\ tasks'[Len(tasks) + 1].valid /\ tasks'[Len(tasks) + 1].saved
  BY <1>3 DEF Task
<1>5. /\ state' = [state EXCEPT ![c] = "READY"] /\ cont' = [cont EXCEPT ![c] = "call"]
      /\ UNCHANGED <<current_idx, ticks, blocked_list, proc_curr, cpu, mode>>
      /\ mode = "user"
  BY DEF scall_fork, SystemCall
<1>6. Len(tasks) \in Nat /\ Slots' = Slots \cup {Len(tasks) + 1}
  BY <1>3, TasksAreTyped DEF Slots
<1>7. TypeOK'
  <2>1. kids' \in [Pids -> SUBSET Pids]
    BY <1>1 DEF TypeOK, scall_fork
  <2> QED BY <1>1, <1>3, <1>5, <1>6, <2>1, SMTT(60) DEF TypeOK, TaskRecords, States, Places, Pids
<1>8. PidsInOrder'
  BY <1>1, <1>5 DEF PidsInOrder, TypeOK, Pids
<1>9. TableShape'
  <2>1. tasks' = mt_add_task(pid_next)
    BY DEF scall_fork
  <2>2. state'[c] # "ZOMBIE" /\ \A p \in Pids : p # c => state'[p] = state[p]
    BY <1>1, <1>5 DEF TypeOK
  <2> QED BY <1>1, <2>1, <2>2, AddKeepsShape
<1>10. RunnersHaveSlots'
  <2> SUFFICES ASSUME TableNeverFull', NEW p \in Pids, state'[p] \in {"RUNNING", "BLOCKED"}
               PROVE  \E i \in Slots' : tasks'[i].proc = p
    BY DEF RunnersHaveSlots, HasSlot, Slots
  <2>1. TableNeverFull /\ state[p] = state'[p]
    BY <1>1, <1>5 DEF TableNeverFull, TypeOK
  <2>2. PICK i \in Slots : tasks[i].proc = p
    BY <2>1 DEF RunnersHaveSlots, HasSlot
  <2> QED BY <1>3, <1>6, <2>2
<1>11. CpuRuns'
  BY <1>1, <1>5 DEF CpuRuns, TypeOK
<1>12. EntriesAreBlocked'
  <2>1. \A p \in Pids : state[p] = "BLOCKED" => state'[p] = state[p] /\ cont'[p] = cont[p]
    BY <1>1, <1>5 DEF TypeOK
  <2> QED BY <1>5, <2>1, SameEntriesSound
<1>13. OneRunning'
  <2>1. TableNeverFull' => TableNeverFull
    BY <1>1 DEF TableNeverFull, Pids
  <2>2. {p \in Pids : state'[p] = "RUNNING"} = {p \in Pids : state[p] = "RUNNING"}
    BY <1>1, <1>5 DEF TypeOK
  <2>3. Pids' = Pids
    OBVIOUS
  <2>4. current_idx # 0 => current_idx \in Slots
    BY DEF TypeOK, Slots
  <2> QED BY <1>3, <1>5, <2>1, <2>2, <2>4 DEF OneRunning
<1>14. ReadyIsResumable'
  <2> SUFFICES ASSUME TableNeverFull', NEW i \in Slots', state'[tasks'[i].proc] = "READY"
               PROVE  tasks'[i].saved /\ cont'[tasks'[i].proc] \in {"trap", "call"}
    BY DEF ReadyIsResumable, Slots
  <2>1. TableNeverFull
    BY <1>1 DEF TableNeverFull, TypeOK
  <2>2. CASE i = Len(tasks) + 1
    BY <1>1, <1>4, <1>5, <2>2 DEF TypeOK
  <2>3. CASE i \in Slots
    <3>1. tasks'[i] = tasks[i] /\ tasks[i].proc \in Pids /\ tasks[i].proc # c
      BY <1>1, <1>2, <1>3, <2>3 DEF Pids
    <3>2. state[tasks[i].proc] = "READY" /\ cont'[tasks[i].proc] = cont[tasks[i].proc]
      BY <1>5, <3>1 DEF TypeOK
    <3> QED BY <2>1, <2>3, <3>1, <3>2 DEF ReadyIsResumable, Slots
  <2> QED BY <1>6, <2>2, <2>3
<1> QED BY <1>7, <1>8, <1>9, <1>10, <1>11, <1>12, <1>13, <1>14

(* A process without a slot changes nothing about the others.              *)
LEMMA OrphanIInv == ASSUME IInv, create_orphan \/ create_no_memory PROVE IInv'
<1> USE DEF IInv
<1> DEFINE c == pid_next
<1> PICK s \in {"READY", "ZOMBIE"} : state' = [state EXCEPT ![c] = s]
  BY DEF create_orphan, create_no_memory
<1>1. c \in Pids /\ state[c] = "NONE" /\ c # cpu /\ c' = c + 1
  BY MultitaskAssumption
     DEF create_orphan, create_no_memory, TypeOK, PidsInOrder, CpuRuns, SystemCall, Pids
<1>2. /\ UNCHANGED <<tasks, current_idx, ticks, blocked_list, proc_curr, cpu, mode, cont, kids>>
      /\ mode = "user"
  BY DEF create_orphan, create_no_memory, SystemCall
<1>3. \A i \in Slots : tasks[i].proc \in Pids /\ tasks[i].proc < c
  BY TasksAreTyped DEF TableShape, TaskRecords
<1>4. TableNeverFull' => TableNeverFull
  BY <1>1, MultitaskAssumption DEF TableNeverFull, Pids
<1>5. TypeOK'
  BY <1>1, <1>2, MultitaskAssumption DEF TypeOK, States, Pids
<1>6. PidsInOrder'
  BY <1>1 DEF PidsInOrder, TypeOK, Pids
<1>7. TableShape'
  <2>1. \A i \in Slots : state'[tasks[i].proc] = state[tasks[i].proc]
    BY <1>1, <1>3 DEF TypeOK, Pids
  <2>2. Len(tasks) \in 1 .. (pid_next' - 1) /\ \A i \in Slots : tasks[i].proc < pid_next'
    BY <1>1, <1>3, TasksAreTyped, SMTT(60) DEF TableShape, TypeOK, Pids
  <2>3. tasks' = tasks /\ Slots' = Slots
    BY <1>2 DEF Slots
  <2> QED BY <2>1, <2>2, <2>3 DEF TableShape
<1>8. RunnersHaveSlots' /\ CpuRuns'
  BY <1>1, <1>2, <1>4 DEF RunnersHaveSlots, HasSlot, Slots, CpuRuns, TypeOK
<1>9. EntriesAreBlocked'
  <2>1. \A p \in Pids : state[p] = "BLOCKED" => state'[p] = state[p] /\ cont'[p] = cont[p]
    BY <1>1, <1>2 DEF TypeOK
  <2> QED BY <1>2, <2>1, SameEntriesSound
<1>10. OneRunning'
  <2>1. {p \in Pids : state'[p] = "RUNNING"} = {p \in Pids : state[p] = "RUNNING"}
    BY <1>1 DEF TypeOK
  <2> QED BY <1>2, <1>4, <2>1 DEF OneRunning
<1>11. ReadyIsResumable'
  BY <1>1, <1>2, <1>3, <1>4 DEF ReadyIsResumable, TypeOK, Slots
<1> QED BY <1>5, <1>6, <1>7, <1>8, <1>9, <1>10, <1>11

(* A caller that blocks and was not blocked keeps the entries sound.       *)
LEMMA BlockKeepsEntries ==
  ASSUME IInv, mode = "user", NEW t \in Pids,
         blocked_list' = block_caller(cpu, t),
         state'[cpu] = "BLOCKED", cont'[cpu] = PlaceOfBlocked,
         \A p \in Pids : p # cpu /\ state[p] = "BLOCKED" =>
            state'[p] = "BLOCKED" /\ cont'[p] = cont[p]
  PROVE  EntriesAreBlocked'
<1>1. TypeOK /\ EntriesAreBlocked /\ cpu \in Pids
  BY DEF IInv, TypeOK
<1> DEFINE new == block_caller(cpu, t)
<1>2. \A i \in 1 .. Len(new) :
        \/ i \in 1 .. Len(blocked_list) /\ new[i] = blocked_list[i]
        \/ /\ i = Len(blocked_list) + 1 /\ Len(blocked_list) < MaxBlocked
           /\ new[i] = [proc |-> cpu, target |-> t]
  BY <1>1, BlockCallerAppends
<1>3. \A i \in 1 .. Len(blocked_list) :
        /\ blocked_list[i].proc \in Pids /\ blocked_list[i].proc # cpu
        /\ state[blocked_list[i].proc] = "BLOCKED" /\ cont[blocked_list[i].proc] = "list"
  BY <1>1, CallerHasNoEntry, EntriesAreTyped DEF EntriesAreBlocked, Entries
<1>4. ASSUME NEW i \in 1 .. Len(new)
      PROVE  state'[new[i].proc] = "BLOCKED" /\ cont'[new[i].proc] = "list"
  <2>1. CASE i \in 1 .. Len(blocked_list) /\ new[i] = blocked_list[i]
    BY <1>3, <2>1
  <2>2. CASE Len(blocked_list) < MaxBlocked /\ new[i] = [proc |-> cpu, target |-> t]
    BY <2>2 DEF PlaceOfBlocked
  <2> QED BY <1>2, <2>1, <2>2
<1>5. ASSUME NEW i \in 1 .. Len(new), NEW j \in 1 .. Len(new), new[i].proc = new[j].proc
      PROVE  i = j
  <2>1. CASE i \in 1 .. Len(blocked_list) /\ j \in 1 .. Len(blocked_list)
             /\ new[i] = blocked_list[i] /\ new[j] = blocked_list[j]
    BY <1>1, <1>5, <2>1 DEF EntriesAreBlocked
  <2>2. CASE i = Len(blocked_list) + 1 /\ j = Len(blocked_list) + 1
    BY <2>2
  <2>3. CASE i \in 1 .. Len(blocked_list) /\ new[i] = blocked_list[i]
             /\ new[j] = [proc |-> cpu, target |-> t]
    BY <1>3, <1>5, <2>3
  <2>4. CASE j \in 1 .. Len(blocked_list) /\ new[j] = blocked_list[j]
             /\ new[i] = [proc |-> cpu, target |-> t]
    BY <1>3, <1>5, <2>4
  <2> QED BY <1>2, <2>1, <2>2, <2>3, <2>4
<1>6. blocked_list' = new
  OBVIOUS
<1> HIDE DEF new
<1> QED BY <1>4, <1>5, <1>6 DEF EntriesAreBlocked, Entries

(* execve: the caller blocks with its entry, the fresh process takes the   *)
(* processor and, unless the table is full, the slot current_idx names.    *)
LEMMA ExecveIInv == ASSUME IInv, scall_execve PROVE IInv'
<1> USE MultitaskAssumption
<1> DEFINE c == pid_next
<1>1. /\ TypeOK /\ TableShape /\ PidsInOrder /\ mode = "user"
      /\ state[cpu] = "RUNNING" /\ cpu \in Pids
  BY DEF IInv, CpuRuns, TypeOK, scall_execve, SystemCall
<1>2. c \in Pids /\ state[c] = "NONE" /\ c # cpu /\ pid_next' = c + 1 /\ c \in Nat
  BY <1>1 DEF scall_execve, TypeOK, PidsInOrder, Pids
<1>3. /\ tasks' = mt_add_task(c) /\ blocked_list' = block_caller(cpu, c)
      /\ current_idx' = IndexOf(tasks', c, current_idx)
      /\ cpu' = c /\ proc_curr' = c
      /\ ticks' = ticks /\ mode' = mode /\ kids' = kids
  BY DEF scall_execve
<1>4. /\ state' \in [Pids -> States]
      /\ state'[c] = "RUNNING" /\ state'[cpu] = "BLOCKED"
      /\ \A p \in Pids : p # c /\ p # cpu => state'[p] = state[p]
  BY <1>1, <1>2 DEF scall_execve, TypeOK, States
<1>5. /\ cont' \in [Pids -> Places]
      /\ cont'[c] = "cpu" /\ cont'[cpu] = PlaceOfBlocked
      /\ \A p \in Pids : p # c /\ p # cpu => cont'[p] = cont[p]
  BY <1>1, <1>2 DEF scall_execve, TypeOK, Places, PlaceOfBlocked
<1>6. /\ tasks' \in Seq(TaskRecords) /\ Len(tasks') \in Nat /\ Len(tasks) \in Nat
      /\ Len(tasks') = IF Len(tasks) < MaxTasks THEN Len(tasks) + 1 ELSE Len(tasks)
      /\ Len(tasks') <= MaxTasks
      /\ \A i \in Slots : tasks'[i] = tasks[i]
      /\ Len(tasks) < MaxTasks => tasks'[Len(tasks) + 1] = Task(c, TRUE)
  <2>1. mt_add_task(c) \in Seq(TaskRecords) => Len(mt_add_task(c)) \in Nat
    <3> HIDE DEF TaskRecords
    <3> QED OBVIOUS
  <2>2. Len(tasks) \in Nat
    BY <1>1, TasksAreTyped
  <2> HIDE DEF c
  <2> QED BY <1>1, <1>2, <1>3, <2>1, <2>2, AddTaskAppends, Zenon
<1>7. \A i \in Slots : tasks[i].proc \in Pids /\ tasks[i].proc # c
  <2>1. \A i \in Slots : tasks[i].proc \in Pids /\ tasks[i].proc < c
    BY <1>1, TasksAreTyped DEF TableShape, TaskRecords
  <2> QED BY <2>1 DEF Pids
<1>8. Len(tasks) < MaxTasks =>
        Len(tasks) + 1 \in Slots' /\ tasks'[Len(tasks) + 1].proc = c
  BY <1>6 DEF Slots, Task
<1>9. TypeOK'
  <2>1. current_idx' \in 0 .. Len(tasks')
    <3>1. CASE \E i \in 1 .. Len(tasks') : tasks'[i].proc = c
      BY <1>3, <1>6, <3>1, IndexOfIsSlot
    <3>2. CASE ~ \E i \in 1 .. Len(tasks') : tasks'[i].proc = c
      <4>1. current_idx' = current_idx
        BY <1>3, <1>6, <3>2, IndexOfIsSlot, SMTT(30)
      <4>2. Len(tasks) \in Nat /\ Len(tasks') \in Nat /\ Len(tasks) <= Len(tasks')
        BY <1>1, <1>6, TasksAreTyped
      <4>3. current_idx \in 0 .. Len(tasks)
        BY <1>1 DEF TypeOK
      <4> QED BY <4>1, <4>2, <4>3
    <3> QED BY <3>1, <3>2
  <2>2. blocked_list' \in Seq(EntryRecords) /\ Len(blocked_list') <= MaxBlocked
    BY <1>1, <1>2, <1>3, BlockCallerAppends
  <2> QED BY <1>1, <1>2, <1>3, <1>4, <1>5, <1>6, <2>1, <2>2, SMTT(60)
          DEF TypeOK, TaskRecords, EntryRecords, Pids
<1>10. PidsInOrder'
  BY <1>1, <1>2, <1>4 DEF PidsInOrder, Pids
<1>11. TableShape'
  <2>1. \A p \in Pids : p # c => (state'[p] = "ZOMBIE" <=> state[p] = "ZOMBIE")
    BY <1>1, <1>4
  <2> QED BY <1>2, <1>3, <1>4, <2>1, AddKeepsShape
<1>12. TableNeverFull' => TableNeverFull /\ Len(tasks) < MaxTasks
  BY <1>1, <1>2, <1>6 DEF TableNeverFull, TableShape
<1>13. RunnersHaveSlots'
  <2> SUFFICES ASSUME TableNeverFull', NEW p \in Pids, state'[p] \in {"RUNNING", "BLOCKED"}
               PROVE  \E i \in Slots' : tasks'[i].proc = p
    BY DEF RunnersHaveSlots, HasSlot, Slots
  <2>1. CASE p = c
    BY <1>8, <1>12, <2>1
  <2>2. CASE p # c
    <3>1. state[p] \in {"RUNNING", "BLOCKED"}
      BY <1>1, <1>4, <2>2
    <3>2. PICK i \in Slots : tasks[i].proc = p
      BY <1>12, <3>1 DEF IInv, RunnersHaveSlots, HasSlot
    <3>3. i \in Slots' /\ tasks'[i] = tasks[i]
      BY <1>6, <1>12 DEF Slots
    <3> QED BY <3>2, <3>3
  <2> QED BY <2>1, <2>2
<1>14. CpuRuns'
  BY <1>3, <1>4, <1>5 DEF CpuRuns
<1>15. EntriesAreBlocked'
  <2>1. \A p \in Pids : p # cpu /\ state[p] = "BLOCKED" =>
          state'[p] = "BLOCKED" /\ cont'[p] = cont[p]
    BY <1>2, <1>4, <1>5
  <2> QED BY <1>1, <1>2, <1>3, <1>4, <1>5, <2>1, BlockKeepsEntries
<1>16. OneRunning'
  <2> SUFFICES ASSUME TableNeverFull'
               PROVE  /\ {p \in Pids : state'[p] = "RUNNING"} = {cpu'}
                      /\ current_idx' # 0 /\ tasks'[current_idx'].proc = cpu'
                      /\ tasks'[current_idx'].valid
                      /\ proc_curr' = cpu'
    BY DEF OneRunning
  <2>1. {p \in Pids : state[p] = "RUNNING"} = {cpu}
    BY <1>1, <1>12 DEF IInv, OneRunning
  <2>2. {p \in Pids : state'[p] = "RUNNING"} = {c}
    BY <1>2, <1>4, <2>1
  <2>3. current_idx' \in Slots' /\ tasks'[current_idx'].proc = c
    BY <1>3, <1>6, <1>8, <1>12, IndexOfIsSlot DEF Slots
  <2>4. tasks'[current_idx'].valid
    BY <1>4, <1>11, <2>3 DEF TableShape, Slots
  <2> QED BY <1>3, <2>2, <2>3, <2>4 DEF Slots
<1>17. ReadyIsResumable'
  <2> SUFFICES ASSUME TableNeverFull', NEW i \in Slots', state'[tasks'[i].proc] = "READY"
               PROVE  tasks'[i].saved /\ cont'[tasks'[i].proc] \in {"trap", "call"}
    BY DEF ReadyIsResumable, Slots
  <2>1. i \in Slots
    BY <1>4, <1>6, <1>8, <1>12 DEF Slots
  <2>2. tasks'[i] = tasks[i] /\ tasks[i].proc \in Pids /\ tasks[i].proc # c /\ tasks[i].proc # cpu
    BY <1>4, <1>6, <1>7, <2>1
  <2>3. state[tasks[i].proc] = "READY" /\ cont'[tasks[i].proc] = cont[tasks[i].proc]
    BY <1>4, <1>5, <2>2
  <2> QED BY <1>12, <2>1, <2>2, <2>3 DEF IInv, ReadyIsResumable, Slots
<1> QED BY <1>9, <1>10, <1>11, <1>13, <1>14, <1>15, <1>16, <1>17 DEF IInv

(* The caller blocks or dies, and somebody else is resumed or the machine  *)
(* halts: the common part of waitpid and of exit without a waiter.         *)
LEMMA LeaveIInv ==
  ASSUME IInv, mode = "user",
         NEW s \in {"BLOCKED", "ZOMBIE"}, NEW w \in Places, NEW idle \in 0 .. NPids,
         resume_first([state EXCEPT ![cpu] = s], tasks', [cont EXCEPT ![cpu] = w], idle),
         tasks' \in Seq(TaskRecords), Len(tasks') = Len(tasks),
         \A i \in Slots : /\ tasks'[i].proc = tasks[i].proc
                          /\ tasks'[i].saved = tasks[i].saved
                          /\ tasks'[i].valid <=>
                               tasks[i].valid /\ ~ (s = "ZOMBIE" /\ tasks[i].proc = cpu),
         pid_next' = pid_next, ticks' = ticks, kids' = kids,
         blocked_list' \in Seq(EntryRecords), Len(blocked_list') <= MaxBlocked,
         /\ \A i \in 1 .. Len(blocked_list') :
              /\ blocked_list'[i].proc \in Pids
              /\ [state EXCEPT ![cpu] = s][blocked_list'[i].proc] = "BLOCKED"
              /\ [cont EXCEPT ![cpu] = w][blocked_list'[i].proc] = "list"
         /\ \A i, j \in 1 .. Len(blocked_list') :
              blocked_list'[i].proc = blocked_list'[j].proc => i = j
  PROVE  IInv'
<1> USE MultitaskAssumption
<1> DEFINE st == [state EXCEPT ![cpu] = s]
           places == [cont EXCEPT ![cpu] = w]
<1>1. /\ TypeOK /\ TableShape /\ PidsInOrder /\ RunnersHaveSlots /\ ReadyIsResumable
      /\ state[cpu] = "RUNNING" /\ cpu \in Pids
  BY DEF IInv, CpuRuns, TypeOK
<1>2. Len(tasks) \in Nat /\ Slots' = Slots /\ \A i \in Slots : tasks[i].proc \in Pids
  BY <1>1, TasksAreTyped DEF TaskRecords, Slots
<1>3. /\ st \in [Pids -> States] /\ st[cpu] = s
      /\ \A p \in Pids : p # cpu => st[p] = state[p]
  BY <1>1 DEF TypeOK, States
<1>4. /\ places \in [Pids -> Places] /\ places[cpu] = w
      /\ \A p \in Pids : p # cpu => places[p] = cont[p]
  BY <1>1 DEF TypeOK
<1>5. TableNeverFull' <=> TableNeverFull
  BY DEF TableNeverFull
<1>6. \A i \in Slots : tasks'[i].valid <=> st[tasks[i].proc] # "ZOMBIE"
  BY <1>1, <1>2, <1>3 DEF TableShape
<1>7. \A p \in Pids : st[p] = "NONE" <=> p >= pid_next
  BY <1>1, <1>3 DEF PidsInOrder
<1>8. \/ \E i \in Slots :
           /\ st[tasks'[i].proc] \notin {"ZOMBIE", "BLOCKED"}
           /\ state' = [st EXCEPT ![tasks'[i].proc] = "RUNNING"]
           /\ cont' = [places EXCEPT ![tasks'[i].proc] = "cpu"]
           /\ current_idx' = i /\ cpu' = tasks'[i].proc /\ proc_curr' = tasks'[i].proc
           /\ mode' = mode
      \/ /\ state' = st /\ cont' = places /\ proc_curr' = idle /\ mode' = "halt"
         /\ current_idx' = current_idx /\ cpu' = cpu
  <2> HIDE DEF st, places
  <2>1. resume_first(st, tasks', places, idle)
    BY DEF st, places
  <2>2. Len(tasks') \in Nat /\ 1 .. Len(tasks') = Slots
    BY <1>2 DEF Slots
  <2> QED BY <2>1, <2>2, ResumeFirstResumes, Zenon
<1>9. /\ state' \in [Pids -> States] /\ cont' \in [Pids -> Places]
      /\ current_idx' \in 0 .. Len(tasks) /\ cpu' \in Pids /\ proc_curr' \in 0 .. NPids
      /\ mode' \in {"user", "halt", "spin"}
  <2>1. CASE mode' = "halt" /\ state' = st /\ cont' = places /\ proc_curr' = idle
             /\ current_idx' = current_idx /\ cpu' = cpu
    BY <1>1, <1>3, <1>4, <2>1 DEF TypeOK
  <2>2. ASSUME NEW i \in Slots,
               state' = [st EXCEPT ![tasks'[i].proc] = "RUNNING"],
               cont' = [places EXCEPT ![tasks'[i].proc] = "cpu"],
               current_idx' = i, cpu' = tasks'[i].proc, proc_curr' = tasks'[i].proc,
               mode' = mode
        PROVE  /\ state' \in [Pids -> States] /\ cont' \in [Pids -> Places]
               /\ current_idx' \in 0 .. Len(tasks) /\ cpu' \in Pids /\ proc_curr' \in 0 .. NPids
               /\ mode' \in {"user", "halt", "spin"}
    <3>1. tasks'[i].proc \in Pids
      BY <1>2
    <3>2. state' \in [Pids -> States]
      BY <1>3, <2>2, <3>1 DEF States
    <3>3. cont' \in [Pids -> Places]
      BY <1>4, <2>2, <3>1 DEF Places
    <3>4. current_idx' \in 0 .. Len(tasks)
      BY <1>2, <2>2 DEF Slots
    <3>5. cpu' \in Pids /\ proc_curr' \in 0 .. NPids
      BY <2>2, <3>1 DEF Pids
    <3> QED BY <2>2, <3>2, <3>3, <3>4, <3>5
  <2> QED BY <1>8, <2>1, <2>2
<1>10. TypeOK'
  BY <1>1, <1>9 DEF TypeOK, TaskRecords, EntryRecords, Pids
<1> HIDE DEF st, places
<1>11. \A p \in Pids :
         \/ state'[p] = st[p] /\ cont'[p] = places[p]
         \/ /\ mode' = "user" /\ p = cpu' /\ state'[p] = "RUNNING" /\ cont'[p] = "cpu"
            /\ st[p] \in {"READY", "CREATED", "RUNNING"} /\ p # cpu
            /\ \E i \in Slots : tasks[i].proc = p /\ current_idx' = i
  <2> SUFFICES ASSUME NEW p \in Pids
               PROVE  \/ state'[p] = st[p] /\ cont'[p] = places[p]
                      \/ /\ mode' = "user" /\ p = cpu' /\ state'[p] = "RUNNING" /\ cont'[p] = "cpu"
                         /\ st[p] \in {"READY", "CREATED", "RUNNING"} /\ p # cpu
                         /\ \E i \in Slots : tasks[i].proc = p /\ current_idx' = i
    OBVIOUS
  <2>1. CASE state' = st /\ cont' = places
    BY <2>1
  <2>2. ASSUME NEW i \in Slots,
               st[tasks'[i].proc] \notin {"ZOMBIE", "BLOCKED"},
               state' = [st EXCEPT ![tasks'[i].proc] = "RUNNING"],
               cont' = [places EXCEPT ![tasks'[i].proc] = "cpu"],
               current_idx' = i, cpu' = tasks'[i].proc, mode' = mode
        PROVE  \/ state'[p] = st[p] /\ cont'[p] = places[p]
               \/ /\ mode' = "user" /\ p = cpu' /\ state'[p] = "RUNNING" /\ cont'[p] = "cpu"
                  /\ st[p] \in {"READY", "CREATED", "RUNNING"} /\ p # cpu
                  /\ \E k \in Slots : tasks[k].proc = p /\ current_idx' = k
    <3>1. tasks'[i].proc = tasks[i].proc /\ tasks[i].proc \in Pids
      BY <1>2
    <3>2. CASE p # tasks[i].proc
      BY <1>3, <1>4, <2>2, <3>1, <3>2
    <3>3. CASE p = tasks[i].proc
      <4>1. st[p] # "NONE"
        <5>1. tasks[i].proc < pid_next /\ tasks[i].proc \in Nat /\ pid_next \in Nat
          BY <1>1, <3>1, SMTT(60) DEF TableShape, TypeOK, Pids
        <5> QED BY <1>7, <3>1, <3>3, <5>1
      <4>2. st[p] \in {"READY", "CREATED", "RUNNING"} /\ p # cpu
        BY <1>3, <2>2, <3>1, <3>3, <4>1 DEF States
      <4> QED BY <1>3, <1>4, <2>2, <3>1, <3>3, <4>2
    <3> QED BY <3>2, <3>3
  <2> QED BY <1>8, <2>1, <2>2
<1>12. PidsInOrder'
  BY <1>7, <1>11 DEF PidsInOrder
<1>13. TableShape'
  <2>1. \A i \in Slots : state'[tasks[i].proc] = "ZOMBIE" <=> st[tasks[i].proc] = "ZOMBIE"
    BY <1>2, <1>11
  <2> QED BY <1>1, <1>2, <1>6, <2>1 DEF TableShape
<1>14. RunnersHaveSlots'
  <2> SUFFICES ASSUME TableNeverFull', NEW p \in Pids, state'[p] \in {"RUNNING", "BLOCKED"}
               PROVE  \E i \in Slots : tasks[i].proc = p
    BY <1>2, SMTT(60) DEF RunnersHaveSlots, HasSlot
  <2>1. CASE st[p] \in {"RUNNING", "BLOCKED"}
    <3>1. state[p] \in {"RUNNING", "BLOCKED"}
      BY <1>1, <1>3, <2>1
    <3> QED BY <1>1, <1>5, <3>1 DEF RunnersHaveSlots, HasSlot
  <2>2. CASE st[p] \notin {"RUNNING", "BLOCKED"}
    BY <1>11, <2>2
  <2> QED BY <2>1, <2>2
<1>15. CpuRuns'
  <2> SUFFICES ASSUME mode' = "user" PROVE state'[cpu'] = "RUNNING" /\ cont'[cpu'] = "cpu"
    BY DEF CpuRuns
  <2>1. PICK i \in Slots : /\ state' = [st EXCEPT ![tasks'[i].proc] = "RUNNING"]
                           /\ cont' = [places EXCEPT ![tasks'[i].proc] = "cpu"]
                           /\ cpu' = tasks'[i].proc
    BY <1>8
  <2> QED BY <1>3, <1>4, <1>9, <2>1
<1>16. EntriesAreBlocked'
  <2>1. \A i \in 1 .. Len(blocked_list') :
          state'[blocked_list'[i].proc] = "BLOCKED" /\ cont'[blocked_list'[i].proc] = "list"
    BY <1>11, SMTT(60) DEF st, places
  <2> QED BY <2>1 DEF EntriesAreBlocked, Entries
<1>17. OneRunning'
  <2> SUFFICES ASSUME mode' = "user", TableNeverFull'
               PROVE  /\ {p \in Pids : state'[p] = "RUNNING"} = {cpu'}
                      /\ current_idx' # 0 /\ tasks'[current_idx'].proc = cpu'
                      /\ tasks'[current_idx'].valid
                      /\ proc_curr' = cpu'
    BY DEF OneRunning
  <2>1. {p \in Pids : state[p] = "RUNNING"} = {cpu}
    BY <1>5 DEF IInv, OneRunning
  <2>2. \A p \in Pids : st[p] # "RUNNING"
    BY <1>1, <1>3, <2>1, SMTT(60)
  <2>3. {p \in Pids : state'[p] = "RUNNING"} = {cpu'}
    BY <1>9, <1>11, <1>15, <2>2 DEF CpuRuns
  <2>4. current_idx' \in Slots /\ tasks'[current_idx'].proc = cpu' /\ proc_curr' = cpu'
    BY <1>8
  <2>5. tasks'[current_idx'].valid
    BY <1>2, <1>13, <1>15, <2>4 DEF TableShape, CpuRuns
  <2> QED BY <2>3, <2>4, <2>5 DEF Slots
<1>18. ReadyIsResumable'
  <2> SUFFICES ASSUME TableNeverFull', NEW i \in Slots, state'[tasks'[i].proc] = "READY"
               PROVE  tasks'[i].saved /\ cont'[tasks'[i].proc] \in {"trap", "call"}
    BY <1>2 DEF ReadyIsResumable, Slots
  <2> DEFINE p == tasks[i].proc
  <2>1. p \in Pids /\ tasks'[i].proc = p /\ tasks'[i].saved = tasks[i].saved
    BY <1>2
  <2>2. st[p] = "READY" /\ cont'[p] = places[p]
    BY <1>11, <2>1
  <2>3. state[p] = "READY" /\ places[p] = cont[p]
    BY <1>3, <1>4, <2>1, <2>2
  <2> QED BY <1>1, <1>5, <2>1, <2>2, <2>3 DEF ReadyIsResumable, Slots
<1> QED BY <1>10, <1>12, <1>13, <1>14, <1>15, <1>16, <1>17, <1>18 DEF IInv

(* waitpid keeps the invariant.                                            *)
LEMMA WaitpidIInv == ASSUME IInv, NEW t \in Pids, scall_waitpid(t) PROVE IInv'
<1>1. /\ TypeOK /\ TableShape /\ EntriesAreBlocked /\ mode = "user" /\ cpu \in Pids
      /\ state \in [Pids -> States] /\ cont \in [Pids -> Places]
  BY DEF IInv, TypeOK, scall_waitpid, SystemCall
<1>2. /\ blocked_list' = block_caller(cpu, t)
      /\ pid_next' = pid_next /\ tasks' = tasks /\ ticks' = ticks /\ kids' = kids
      /\ resume_first([state EXCEPT ![cpu] = "BLOCKED"], tasks',
                      [cont EXCEPT ![cpu] = PlaceOfBlocked], 0)
  BY DEF scall_waitpid
<1>3. PlaceOfBlocked \in Places /\ 0 \in 0 .. NPids
  BY MultitaskAssumption DEF PlaceOfBlocked, Places
<1> DEFINE new == block_caller(cpu, t)
<1>4. /\ new \in Seq(EntryRecords) /\ Len(new) <= MaxBlocked
      /\ \A i \in 1 .. Len(new) :
           \/ i \in 1 .. Len(blocked_list) /\ new[i] = blocked_list[i]
           \/ /\ i = Len(blocked_list) + 1 /\ Len(blocked_list) < MaxBlocked
              /\ new[i] = [proc |-> cpu, target |-> t]
  BY <1>1, BlockCallerAppends
<1>5. \A i \in 1 .. Len(blocked_list) :
        /\ blocked_list[i].proc \in Pids /\ blocked_list[i].proc # cpu
        /\ state[blocked_list[i].proc] = "BLOCKED" /\ cont[blocked_list[i].proc] = "list"
  BY <1>1, CallerHasNoEntry, EntriesAreTyped DEF EntriesAreBlocked, Entries
<1> HIDE DEF new
<1>6. ASSUME NEW i \in 1 .. Len(new)
      PROVE  /\ new[i].proc \in Pids
             /\ [state EXCEPT ![cpu] = "BLOCKED"][new[i].proc] = "BLOCKED"
             /\ [cont EXCEPT ![cpu] = PlaceOfBlocked][new[i].proc] = "list"
  <2>1. CASE new[i] = blocked_list[i] /\ i \in 1 .. Len(blocked_list)
    BY <1>1, <1>5, <2>1
  <2>2. CASE Len(blocked_list) < MaxBlocked /\ new[i] = [proc |-> cpu, target |-> t]
    BY <1>1, <2>2 DEF PlaceOfBlocked
  <2> QED BY <1>4, <2>1, <2>2
<1>7. ASSUME NEW i \in 1 .. Len(new), NEW j \in 1 .. Len(new), new[i].proc = new[j].proc
      PROVE  i = j
  <2>1. CASE i \in 1 .. Len(blocked_list) /\ j \in 1 .. Len(blocked_list)
             /\ new[i] = blocked_list[i] /\ new[j] = blocked_list[j]
    BY <1>1, <1>7, <2>1 DEF EntriesAreBlocked
  <2>2. CASE i = Len(blocked_list) + 1 /\ j = Len(blocked_list) + 1
    BY <2>2
  <2>3. CASE i \in 1 .. Len(blocked_list) /\ new[i] = blocked_list[i]
             /\ new[j] = [proc |-> cpu, target |-> t]
    BY <1>5, <1>7, <2>3
  <2>4. CASE j \in 1 .. Len(blocked_list) /\ new[j] = blocked_list[j]
             /\ new[i] = [proc |-> cpu, target |-> t]
    BY <1>5, <1>7, <2>4
  <2> QED BY <1>4, <2>1, <2>2, <2>3, <2>4
<1>8. blocked_list' = new
  BY <1>2 DEF new
<1>9. /\ tasks' \in Seq(TaskRecords) /\ Len(tasks') = Len(tasks)
      /\ \A i \in Slots : /\ tasks'[i].proc = tasks[i].proc
                          /\ tasks'[i].saved = tasks[i].saved
                          /\ tasks'[i].valid <=>
                               tasks[i].valid /\ ~ ("BLOCKED" = "ZOMBIE" /\ tasks[i].proc = cpu)
  BY <1>1, <1>2, TasksAreTyped
<1>10. \A i \in 1 .. Len(blocked_list') :
         /\ blocked_list'[i].proc \in Pids
         /\ [state EXCEPT ![cpu] = "BLOCKED"][blocked_list'[i].proc] = "BLOCKED"
         /\ [cont EXCEPT ![cpu] = PlaceOfBlocked][blocked_list'[i].proc] = "list"
  BY <1>6, <1>8
<1>11. \A i, j \in 1 .. Len(blocked_list') :
         blocked_list'[i].proc = blocked_list'[j].proc => i = j
  BY <1>7, <1>8
<1>12. blocked_list' \in Seq(EntryRecords) /\ Len(blocked_list') <= MaxBlocked
  BY <1>4, <1>8
<1> QED BY <1>1, <1>2, <1>3, <1>9, <1>10, <1>11, <1>12, LeaveIInv, Zenon

(* An exit nobody waits for keeps the invariant.                           *)
LEMMA ExitNoWaiterIInv == ASSUME IInv, exit_no_waiter PROVE IInv'
<1>1. /\ TypeOK /\ TableShape /\ EntriesAreBlocked /\ mode = "user" /\ cpu \in Pids
      /\ state \in [Pids -> States] /\ cont \in [Pids -> Places] /\ proc_curr \in 0 .. NPids
  BY DEF IInv, TypeOK, exit_no_waiter, SystemCall
<1>2. /\ tasks' = Retire(cpu) /\ blocked_list' = blocked_list
      /\ pid_next' = pid_next /\ ticks' = ticks /\ kids' = kids
      /\ resume_first([state EXCEPT ![cpu] = "ZOMBIE"], tasks',
                      [cont EXCEPT ![cpu] = "none"], proc_curr)
  BY DEF exit_no_waiter
<1>3. /\ tasks' \in Seq(TaskRecords) /\ Len(tasks') = Len(tasks)
      /\ \A i \in Slots : /\ tasks'[i].proc = tasks[i].proc
                          /\ tasks'[i].saved = tasks[i].saved
                          /\ tasks'[i].valid <=> tasks[i].valid /\ tasks[i].proc # cpu
  BY <1>1, <1>2, RetireInvalidates
<1>4. \A i \in 1 .. Len(blocked_list) :
        /\ blocked_list[i].proc \in Pids
        /\ [state EXCEPT ![cpu] = "ZOMBIE"][blocked_list[i].proc] = "BLOCKED"
        /\ [cont EXCEPT ![cpu] = "none"][blocked_list[i].proc] = "list"
  BY <1>1, CallerHasNoEntry, EntriesAreTyped DEF EntriesAreBlocked, Entries
<1>5. blocked_list \in Seq(EntryRecords) /\ Len(blocked_list) <= MaxBlocked
  BY <1>1, EntriesAreTyped DEF TypeOK
<1>6. "none" \in Places
  BY DEF Places
<1>7. \A i, j \in 1 .. Len(blocked_list) :
        blocked_list[i].proc = blocked_list[j].proc => i = j
  BY <1>1 DEF EntriesAreBlocked
<1> QED BY <1>1, <1>2, <1>3, <1>4, <1>5, <1>6, <1>7, LeaveIInv, ZenonT(60)

(* exit with a waiter: its entry goes, and it takes the processor.         *)
LEMMA ExitToWaiterIInv == ASSUME IInv, exit_to_waiter PROVE IInv'
<1> USE MultitaskAssumption
<1>1. /\ TypeOK /\ TableShape /\ PidsInOrder /\ RunnersHaveSlots /\ ReadyIsResumable
      /\ EntriesAreBlocked
      /\ mode = "user" /\ cpu \in Pids /\ state[cpu] = "RUNNING"
  BY DEF IInv, TypeOK, CpuRuns, exit_to_waiter, SystemCall
<1>2. PICK k \in 1 .. Len(blocked_list) :
        LET parent == blocked_list[k].proc
        IN  /\ blocked_list' = SwapRemove(blocked_list, k)
            /\ state' = [state EXCEPT ![cpu] = "ZOMBIE", ![parent] = "RUNNING"]
            /\ cont' = [cont EXCEPT ![cpu] = "none", ![parent] = "cpu"]
            /\ current_idx' = IndexOf(tasks, parent, current_idx)
            /\ cpu' = parent /\ proc_curr' = parent
  <2>1. WaitersFor(cpu) \in SUBSET Nat /\ WaitersFor(cpu) # {}
    BY DEF WaitersFor, exit_to_waiter
  <2>2. \E k \in WaitersFor(cpu) : \A j \in WaitersFor(cpu) : k <= j
    BY <2>1, MinExists
  <2> DEFINE k == CHOOSE i \in WaitersFor(cpu) : \A j \in WaitersFor(cpu) : i <= j
  <2>3. k \in WaitersFor(cpu)
    BY <2>2, Zenon
  <2>4. k \in 1 .. Len(blocked_list)
    BY <2>3 DEF WaitersFor
  <2> QED BY <2>4 DEF exit_to_waiter
<1>3. /\ tasks' = Retire(cpu)
      /\ pid_next' = pid_next /\ ticks' = ticks /\ mode' = mode /\ kids' = kids
  BY DEF exit_to_waiter
<1> DEFINE parent == blocked_list[k].proc
<1>4. /\ \A i \in 1 .. Len(blocked_list) :
           /\ blocked_list[i].proc \in Pids /\ blocked_list[i].proc # cpu
           /\ state[blocked_list[i].proc] = "BLOCKED" /\ cont[blocked_list[i].proc] = "list"
           /\ blocked_list[i].proc = parent => i = k
      /\ parent \in Pids /\ parent # cpu /\ state[parent] = "BLOCKED"
  BY <1>1, CallerHasNoEntry, EntriesAreTyped DEF EntriesAreBlocked, Entries
<1>5. /\ state' \in [Pids -> States] /\ state'[cpu] = "ZOMBIE" /\ state'[parent] = "RUNNING"
      /\ \A p \in Pids : p # cpu /\ p # parent => state'[p] = state[p]
  BY <1>1, <1>2, <1>4 DEF TypeOK, States
<1>6. /\ cont' \in [Pids -> Places] /\ cont'[parent] = "cpu"
      /\ \A p \in Pids : p # cpu /\ p # parent => cont'[p] = cont[p]
  BY <1>1, <1>2, <1>4 DEF TypeOK, Places
<1>7. /\ tasks' \in Seq(TaskRecords) /\ Len(tasks') = Len(tasks) /\ Len(tasks) \in Nat
      /\ Slots' = Slots
      /\ \A i \in Slots : /\ tasks[i].proc \in Pids
                          /\ tasks'[i].proc = tasks[i].proc
                          /\ tasks'[i].saved = tasks[i].saved
                          /\ tasks'[i].valid <=> tasks[i].valid /\ tasks[i].proc # cpu
  BY <1>1, <1>3, RetireInvalidates, TasksAreTyped DEF Slots, TaskRecords
<1>8. /\ blocked_list' \in Seq(EntryRecords) /\ Len(blocked_list') = Len(blocked_list) - 1
      /\ \A i \in 1 .. Len(blocked_list') :
           blocked_list'[i] = blocked_list[IF i = k THEN Len(blocked_list) ELSE i]
  BY <1>1, <1>2, EntriesAreTyped, SwapRemoveKeepsOthers
<1>9. cpu' = parent /\ proc_curr' = parent /\ current_idx' = IndexOf(tasks, parent, current_idx)
  BY <1>2
<1> HIDE DEF parent
<1>10. TypeOK'
  <2>1. current_idx' \in 0 .. Len(tasks)
    <3>1. current_idx' \in 1 .. Len(tasks) \/ current_idx' = current_idx
      BY <1>7, <1>9, IndexOfIsSlot
    <3> QED BY <1>1, <1>7, <3>1 DEF TypeOK
  <2>2. Len(blocked_list') <= MaxBlocked
    BY <1>1, <1>8, EntriesAreTyped DEF TypeOK
  <2>3. proc_curr' \in 0 .. NPids
    BY <1>4, <1>9 DEF Pids
  <2> QED BY <1>1, <1>3, <1>4, <1>5, <1>6, <1>7, <1>8, <1>9, <2>1, <2>2, <2>3
          DEF TypeOK, TaskRecords, EntryRecords
<1>11. PidsInOrder'
  BY <1>1, <1>3, <1>4, <1>5 DEF PidsInOrder
<1>12. TableShape'
  <2>1. \A i \in Slots : tasks'[i].valid <=> state'[tasks[i].proc] # "ZOMBIE"
    BY <1>1, <1>4, <1>5, <1>7 DEF TableShape
  <2> QED BY <1>1, <1>3, <1>7, <2>1 DEF TableShape
<1>13. TableNeverFull' <=> TableNeverFull
  BY <1>3 DEF TableNeverFull
<1>14. RunnersHaveSlots'
  <2> SUFFICES ASSUME TableNeverFull', NEW p \in Pids, state'[p] \in {"RUNNING", "BLOCKED"}
               PROVE  \E i \in Slots : tasks[i].proc = p
    BY <1>7 DEF RunnersHaveSlots, HasSlot
  <2>1. state[p] \in {"RUNNING", "BLOCKED"}
    BY <1>4, <1>5
  <2> QED BY <1>1, <1>13, <2>1 DEF RunnersHaveSlots, HasSlot
<1>15. CpuRuns'
  BY <1>5, <1>6, <1>9 DEF CpuRuns
<1>16. EntriesAreBlocked'
  <2> DEFINE from(i) == IF i = k THEN Len(blocked_list) ELSE i
  <2>1. ASSUME NEW i \in 1 .. Len(blocked_list')
        PROVE  from(i) \in 1 .. Len(blocked_list) /\ from(i) # k
               /\ blocked_list'[i] = blocked_list[from(i)]
    BY <1>1, <1>8, EntriesAreTyped
  <2>2. ASSUME NEW i \in 1 .. Len(blocked_list'), NEW j \in 1 .. Len(blocked_list'),
               from(i) = from(j)
        PROVE  i = j
    BY <1>1, <1>8, <2>2, EntriesAreTyped
  <2> HIDE DEF from
  <2>3. ASSUME NEW i \in 1 .. Len(blocked_list')
        PROVE  state'[blocked_list'[i].proc] = "BLOCKED" /\ cont'[blocked_list'[i].proc] = "list"
    <3>1. blocked_list'[i].proc # parent /\ blocked_list'[i].proc # cpu
      BY <1>4, <2>1
    <3> QED BY <1>4, <1>5, <1>6, <2>1, <3>1
  <2>4. ASSUME NEW i \in 1 .. Len(blocked_list'), NEW j \in 1 .. Len(blocked_list'),
               blocked_list'[i].proc = blocked_list'[j].proc
        PROVE  i = j
    <3>1. /\ from(i) \in 1 .. Len(blocked_list) /\ from(j) \in 1 .. Len(blocked_list)
          /\ blocked_list[from(i)].proc = blocked_list[from(j)].proc
      BY <2>1, <2>4
    <3>2. \A n, m \in 1 .. Len(blocked_list) : blocked_list[n].proc = blocked_list[m].proc => n = m
      BY <1>1 DEF EntriesAreBlocked
    <3> QED BY <2>2, <3>1, <3>2
  <2> QED BY <2>3, <2>4 DEF EntriesAreBlocked, Entries
<1>17. OneRunning'
  <2> SUFFICES ASSUME TableNeverFull'
               PROVE  /\ {p \in Pids : state'[p] = "RUNNING"} = {cpu'}
                      /\ current_idx' # 0 /\ tasks'[current_idx'].proc = cpu'
                      /\ tasks'[current_idx'].valid
                      /\ proc_curr' = cpu'
    BY DEF OneRunning
  <2>1. {p \in Pids : state[p] = "RUNNING"} = {cpu}
    BY <1>1, <1>13 DEF IInv, OneRunning
  <2>2. {p \in Pids : state'[p] = "RUNNING"} = {parent}
    BY <1>4, <1>5, <2>1
  <2>3. \E i \in 1 .. Len(tasks) : tasks[i].proc = parent
    BY <1>1, <1>4, <1>13 DEF RunnersHaveSlots, HasSlot, Slots
  <2>4. current_idx' \in Slots /\ tasks[current_idx'].proc = parent
    BY <1>7, <1>9, <2>3, IndexOfIsSlot DEF Slots
  <2>5. tasks'[current_idx'].valid
    BY <1>5, <1>7, <1>12, <2>4 DEF TableShape
  <2> QED BY <1>7, <1>9, <2>2, <2>4, <2>5 DEF Slots
<1>18. ReadyIsResumable'
  <2> SUFFICES ASSUME TableNeverFull', NEW i \in Slots, state'[tasks'[i].proc] = "READY"
               PROVE  tasks'[i].saved /\ cont'[tasks'[i].proc] \in {"trap", "call"}
    BY <1>7 DEF ReadyIsResumable, Slots
  <2>1. tasks[i].proc # cpu /\ tasks[i].proc # parent
    BY <1>5, <1>7
  <2>2. state[tasks[i].proc] = "READY" /\ cont'[tasks[i].proc] = cont[tasks[i].proc]
    BY <1>5, <1>6, <1>7, <2>1
  <2> QED BY <1>1, <1>7, <1>13, <2>2 DEF ReadyIsResumable, Slots
<1> QED BY <1>10, <1>11, <1>12, <1>14, <1>15, <1>16, <1>17, <1>18 DEF IInv

-----------------------------------------------------------------------------
(* A switch at the end of a quantum keeps the invariant.                   *)
LEMMA PreemptSwitchIInv == ASSUME IInv, mt_preempt_switch PROVE IInv'
<1> USE MultitaskAssumption
<1> DEFINE old == current_idx
           new == scheduler_pick_next(old)
           next == tasks[new].proc
           owner == tasks[old].proc
           saves == old # 0 /\ tasks[old].valid
           st == IF saves /\ state[owner] = "RUNNING"
                 THEN [state EXCEPT ![owner] = "READY"] ELSE state
           out == IF saves /\ owner = cpu THEN [cont EXCEPT ![cpu] = "trap"]
                  ELSE IF saves /\ cont[owner] \in {"trap", "call"}
                  THEN [cont EXCEPT ![cpu] = "lost", ![owner] = "lost"]
                  ELSE [cont EXCEPT ![cpu] = "lost"]
<1>1. /\ TypeOK /\ TableShape /\ PidsInOrder /\ RunnersHaveSlots /\ ReadyIsResumable
      /\ EntriesAreBlocked
      /\ mode = "user" /\ cpu \in Pids /\ state[cpu] = "RUNNING"
      /\ old \in 0 .. Len(tasks)
  BY DEF IInv, TypeOK, CpuRuns, mt_preempt_switch
<1>2. /\ new # 0 /\ new # old
      /\ tasks' = IF saves THEN [tasks EXCEPT ![old].saved = TRUE] ELSE tasks
      /\ state' = [st EXCEPT ![next] = "RUNNING"]
      /\ cont' = [out EXCEPT ![next] = "cpu"]
      /\ current_idx' = new /\ cpu' = next /\ proc_curr' = next /\ ticks' = 0
      /\ pid_next' = pid_next /\ blocked_list' = blocked_list
      /\ mode' = mode /\ kids' = kids
  BY DEF mt_preempt_switch
<1>3. Len(tasks) \in Nat /\ tasks \in Seq(TaskRecords) /\ \A i \in Slots : tasks[i] \in TaskRecords
  BY <1>1, TasksAreTyped
<1>4. \A i \in Slots : tasks[i].proc \in Pids
  BY <1>3 DEF TaskRecords
<1>5. /\ new \in Slots /\ next \in Pids /\ tasks[new].valid
      /\ state[next] \in {"READY", "CREATED", "RUNNING"}
  <2>1. Len(tasks) > 0
    BY <1>1, <1>3 DEF TableShape, TypeOK
  <2>2. new \in Slots /\ tasks[new].valid /\ state[next] \in {"READY", "CREATED", "RUNNING"}
    BY <1>1, <1>2, <2>1, PickNextIsReady
  <2> HIDE DEF new
  <2> QED BY <1>4, <2>2
<1>6. saves => old \in Slots /\ owner \in Pids
  BY <1>1, <1>3, <1>4 DEF Slots
<1>7. owner # next \/ ~ saves
  <2> HIDE DEF new
  <2> QED BY <1>1, <1>2, <1>5, <1>6 DEF TableShape
<1> HIDE DEF new, next
<1>8. /\ st \in [Pids -> States] /\ out \in [Pids -> Places]
      /\ \A p \in Pids : st[p] = state[p] \/ (state[p] = "RUNNING" /\ st[p] = "READY" /\ p = owner /\ saves)
      /\ \A p \in Pids : cont[p] = "list" /\ p # cpu => out[p] = "list"
  <2>1. st \in [Pids -> States]
    BY <1>1, <1>6 DEF TypeOK, States
  <2>2. out \in [Pids -> Places]
    BY <1>1, <1>6 DEF TypeOK, Places
  <2>3. \A p \in Pids : st[p] = state[p] \/ (state[p] = "RUNNING" /\ st[p] = "READY" /\ p = owner /\ saves)
    BY <1>1, <1>6 DEF TypeOK
  <2>4. \A p \in Pids : cont[p] = "list" /\ p # cpu => out[p] = "list"
    BY <1>1, <1>6 DEF TypeOK
  <2> QED BY <2>1, <2>2, <2>3, <2>4
<1> HIDE DEF st, out
<1>9. /\ state' \in [Pids -> States] /\ state'[next] = "RUNNING"
      /\ \A p \in Pids : p # next => state'[p] = st[p]
  BY <1>2, <1>5, <1>8 DEF States
<1>10. /\ cont' \in [Pids -> Places] /\ cont'[next] = "cpu"
       /\ \A p \in Pids : p # next => cont'[p] = out[p]
  BY <1>2, <1>5, <1>8 DEF Places
<1>11. /\ tasks' \in Seq(TaskRecords) /\ Len(tasks') = Len(tasks) /\ Slots' = Slots
       /\ \A i \in Slots : /\ tasks'[i].proc = tasks[i].proc
                           /\ tasks'[i].valid = tasks[i].valid
                           /\ tasks[i].saved \/ (saves /\ i = old) => tasks'[i].saved
  <2>1. CASE ~ saves
    BY <1>2, <1>3, <2>1 DEF Slots
  <2>2. CASE saves
    <3> DEFINE t == [tasks[old] EXCEPT !.saved = TRUE]
    <3>1. t \in TaskRecords /\ t.proc = tasks[old].proc /\ t.valid = tasks[old].valid /\ t.saved
      BY <1>3, <1>6, <2>2 DEF TaskRecords
    <3>2. tasks' = [tasks EXCEPT ![old] = t]
      BY <1>2, <2>2
    <3> HIDE DEF t
    <3>3. tasks' \in Seq(TaskRecords) /\ Len(tasks') = Len(tasks)
      BY <1>3, <1>6, <2>2, <3>1, <3>2 DEF Slots
    <3>4. \A i \in Slots : tasks'[i] = IF i = old THEN t ELSE tasks[i]
      BY <1>3, <1>6, <2>2, <3>2 DEF Slots
    <3> QED BY <3>1, <3>3, <3>4 DEF Slots
  <2> QED BY <2>1, <2>2
<1>12. TypeOK'
  <2>1. current_idx' \in 0 .. Len(tasks') /\ proc_curr' \in 0 .. NPids
    BY <1>2, <1>3, <1>5, <1>11 DEF Slots, Pids
  <2>2. ticks' \in 0 .. Quantum
    BY <1>2, QuantumIsPositive
  <2> QED BY <1>1, <1>2, <1>5, <1>9, <1>10, <1>11, <2>1, <2>2 DEF TypeOK, TaskRecords
<1>13. PidsInOrder'
  BY <1>1, <1>2, <1>5, <1>8, <1>9 DEF PidsInOrder
<1>14. TableShape'
  <2>1. \A p \in Pids : state'[p] = "ZOMBIE" <=> state[p] = "ZOMBIE"
    BY <1>5, <1>8, <1>9
  <2>2. \A i \in Slots : tasks'[i].valid <=> state'[tasks[i].proc] # "ZOMBIE"
    BY <1>1, <1>4, <1>11, <2>1 DEF TableShape
  <2> QED BY <1>1, <1>2, <1>11, <2>2 DEF TableShape
<1>15. TableNeverFull' <=> TableNeverFull
  BY <1>2 DEF TableNeverFull
<1>16. RunnersHaveSlots'
  <2> SUFFICES ASSUME TableNeverFull', NEW p \in Pids, state'[p] \in {"RUNNING", "BLOCKED"}
               PROVE  \E i \in Slots : tasks[i].proc = p
    BY <1>11 DEF RunnersHaveSlots, HasSlot
  <2>1. CASE p = next
    BY <1>5, <2>1 DEF next
  <2>2. CASE p # next
    <3>1. state[p] \in {"RUNNING", "BLOCKED"}
      BY <1>8, <1>9, <2>2
    <3> QED BY <1>1, <1>15, <3>1 DEF RunnersHaveSlots, HasSlot
  <2> QED BY <2>1, <2>2
<1>17. CpuRuns'
  BY <1>2, <1>9, <1>10 DEF CpuRuns
<1>18. EntriesAreBlocked'
  <2>1. ASSUME NEW i \in 1 .. Len(blocked_list)
        PROVE  state'[blocked_list[i].proc] = "BLOCKED" /\ cont'[blocked_list[i].proc] = "list"
    <3> DEFINE p == blocked_list[i].proc
    <3>1. p \in Pids /\ p # cpu /\ state[p] = "BLOCKED" /\ cont[p] = "list"
      BY <1>1, CallerHasNoEntry, EntriesAreTyped DEF EntriesAreBlocked, Entries
    <3>2. p # next
      BY <1>5, <3>1
    <3> QED BY <1>8, <1>9, <1>10, <3>1, <3>2
  <2> QED BY <1>1, <1>2, <2>1 DEF EntriesAreBlocked, Entries
<1>19. TableNeverFull' =>
         /\ {p \in Pids : state[p] = "RUNNING"} = {cpu}
         /\ saves /\ owner = cpu
  BY <1>1, <1>15 DEF IInv, OneRunning
<1>20. TableNeverFull' => st[cpu] = "READY" /\ out[cpu] = "trap"
         /\ \A p \in Pids : p # cpu => out[p] = cont[p]
  BY <1>1, <1>19 DEF st, out, TypeOK
<1>21. OneRunning'
  <2> SUFFICES ASSUME TableNeverFull'
               PROVE  /\ {p \in Pids : state'[p] = "RUNNING"} = {cpu'}
                      /\ current_idx' # 0 /\ tasks'[current_idx'].proc = cpu'
                      /\ tasks'[current_idx'].valid
                      /\ proc_curr' = cpu'
    BY DEF OneRunning
  <2>1. {p \in Pids : state'[p] = "RUNNING"} = {next}
    BY <1>5, <1>8, <1>9, <1>19, <1>20
  <2>2. tasks'[new].proc = next /\ tasks'[new].valid
    BY <1>5, <1>11 DEF next
  <2> QED BY <1>2, <2>1, <2>2
<1>22. ReadyIsResumable'
  <2> SUFFICES ASSUME TableNeverFull', NEW i \in Slots, state'[tasks'[i].proc] = "READY"
               PROVE  tasks'[i].saved /\ cont'[tasks'[i].proc] \in {"trap", "call"}
    BY <1>11 DEF ReadyIsResumable, Slots
  <2> DEFINE p == tasks[i].proc
  <2>1. p \in Pids /\ tasks'[i].proc = p
    BY <1>4, <1>11
  <2>2. p # next
    BY <1>9, <2>1
  <2>3. CASE p = cpu
    <3>1. i = old
      BY <1>1, <1>6, <1>19, <2>3 DEF TableShape
    <3> QED BY <1>10, <1>11, <1>19, <1>20, <2>1, <2>2, <2>3, <3>1
  <2>4. CASE p # cpu
    <3>1. state[p] = "READY" /\ cont'[p] = cont[p]
      BY <1>8, <1>9, <1>10, <1>19, <1>20, <2>1, <2>2, <2>4
    <3> QED BY <1>1, <1>11, <1>15, <2>1, <3>1 DEF ReadyIsResumable, Slots
  <2> QED BY <2>3, <2>4
<1> QED BY <1>12, <1>13, <1>14, <1>16, <1>17, <1>18, <1>21, <1>22 DEF IInv

(* A tick without a switch counts, a caller of nothing changes nothing.    *)
LEMMA TickIInv ==
  ASSUME IInv, timer_tick \/ mt_preempt_same \/ UNCHANGED vars
  PROVE  IInv'
<1>1. /\ UNCHANGED <<state, pid_next, tasks, current_idx, blocked_list, proc_curr,
                     cpu, mode, cont, kids>>
      /\ ticks' \in 0 .. Quantum
  <2>1. CASE timer_tick
    BY <2>1, QuantumIsPositive DEF timer_tick, QuantumExpired, IInv, TypeOK
  <2>2. CASE mt_preempt_same
    BY <2>2, QuantumIsPositive DEF mt_preempt_same
  <2>3. CASE UNCHANGED vars
    BY <2>3 DEF vars, IInv, TypeOK
  <2> QED BY <2>1, <2>2, <2>3
<1>2. TypeOK'
  BY <1>1 DEF IInv, TypeOK
<1> QED BY <1>1, <1>2
        DEF IInv, PidsInOrder, TableShape, Slots, RunnersHaveSlots, HasSlot, TableNeverFull,
            CpuRuns, EntriesAreBlocked, Entries, OneRunning, ReadyIsResumable

(* Every step keeps the invariant.                                         *)
LEMMA NextIInv == IInv /\ [Next]_vars => IInv'
<1> SUFFICES ASSUME IInv, [Next]_vars PROVE IInv'
  OBVIOUS
<1>1. ASSUME NEW pid \in Pids, scall_waitpid(pid) PROVE IInv'
  BY <1>1, WaitpidIInv
<1>2. CASE scall_fork
  BY <1>2, ForkIInv
<1>3. CASE create_orphan \/ create_no_memory
  BY <1>3, OrphanIInv
<1>4. CASE scall_execve
  BY <1>4, ExecveIInv
<1>5. CASE scall_exit
  BY <1>5, ExitToWaiterIInv, ExitNoWaiterIInv DEF scall_exit
<1>6. CASE timer_handler
  BY <1>6, PreemptSwitchIInv, TickIInv DEF timer_handler, mt_preempt
<1>7. CASE UNCHANGED vars
  BY <1>7, TickIInv
<1> QED BY <1>1, <1>2, <1>3, <1>4, <1>5, <1>6, <1>7 DEF Next

(* The invariant of the table and of who runs.                             *)
LEMMA InvariantIInv == Spec => []IInv
  BY InitIInv, NextIInv, PTL DEF Spec

(* Type correctness of processes and scheduler, at every limit.            *)
THEOREM MultitaskTypeCorrect == Spec => []TypeOK
<1>1. IInv => TypeOK
  BY DEF IInv
<1> QED BY <1>1, InvariantIInv, PTL

(* Whoever has an entry in blocked_list is blocked and has only one, for   *)
(* every table size, list size and pattern of waits (syscalls.c:181-223,   *)
(* 376-394, 727-744).                                                      *)
THEOREM MultitaskEntriesSound == Spec => []EntriesAreBlocked
<1>1. IInv => EntriesAreBlocked
  BY DEF IInv
<1> QED BY <1>1, InvariantIInv, PTL

(* While the table has room: CR3, current_idx, ptr_proc_curr and the       *)
(* RUNNING state name the same process, and every ready task has its       *)
(* registers in its own slot.                                              *)
THEOREM MultitaskOneRunning == Spec => [](OneRunning /\ ReadyIsResumable)
<1>1. IInv => OneRunning /\ ReadyIsResumable
  BY DEF IInv
<1> QED BY <1>1, InvariantIInv, PTL


(* What exit and waitpid resume was not dead.                              *)
LEMMA ResumeLeavesDead ==
  ASSUME IInv, NEW st \in [Pids -> States], NEW tsks \in {tasks, Retire(cpu)}, NEW places, NEW idle,
         resume_first(st, tsks, places, idle),
         NEW p \in Pids, st[p] = "ZOMBIE"
  PROVE  state'[p] = "ZOMBIE"
<1>1. Len(tsks) = Len(tasks) /\ \A i \in Slots : tsks[i].proc \in Pids
  BY TasksAreTyped, RetireInvalidates, SMTT(60) DEF IInv, TypeOK, TaskRecords
<1>2. Len(tsks) \in Nat
  BY <1>1, TasksAreTyped DEF IInv
<1>3. \/ state' = st
      \/ \E i \in 1 .. Len(tsks) :
           st[tsks[i].proc] # "ZOMBIE" /\ state' = [st EXCEPT ![tsks[i].proc] = "RUNNING"]
  BY <1>2, ResumeFirstResumes
<1> QED BY <1>1, <1>3 DEF Slots

(* A dead process is never made anything else, nor given the processor     *)
(* (its stack and heap are free, syscalls.c:163-175).                      *)
THEOREM MultitaskDeadStaysDead == Spec => DeadStaysDead
<1>1. ASSUME IInv, [Next]_vars, NEW p \in Pids, state[p] = "ZOMBIE"
      PROVE  state'[p] = "ZOMBIE"
  <2> USE <1>1
  <2>1. /\ state \in [Pids -> States] /\ cpu \in Pids /\ TypeOK /\ TableShape
        /\ mode = "user" => p # cpu
    BY DEF IInv, TypeOK, CpuRuns
  <2>2. CASE scall_fork \/ create_orphan \/ create_no_memory \/ scall_execve
    <3>1. state[pid_next] = "NONE" /\ pid_next \in Pids /\ mode = "user"
      BY <2>2, MultitaskAssumption
         DEF scall_fork, create_orphan, create_no_memory, scall_execve, SystemCall,
             IInv, TypeOK, PidsInOrder, Pids
    <3> QED BY <2>1, <2>2, <3>1 DEF scall_fork, create_orphan, create_no_memory, scall_execve
  <2>3. ASSUME NEW pid \in Pids, scall_waitpid(pid) PROVE state'[p] = "ZOMBIE"
    <3> DEFINE st == [state EXCEPT ![cpu] = "BLOCKED"]
    <3>1. st \in [Pids -> States] /\ st[p] = "ZOMBIE"
      BY <2>1, <2>3 DEF scall_waitpid, SystemCall, States
    <3>2. resume_first(st, tasks, [cont EXCEPT ![cpu] = PlaceOfBlocked], 0)
      BY <2>3 DEF scall_waitpid
    <3> HIDE DEF st
    <3> QED BY <3>1, <3>2, ResumeLeavesDead
  <2>4. CASE exit_no_waiter
    <3> DEFINE st == [state EXCEPT ![cpu] = "ZOMBIE"]
    <3>1. st \in [Pids -> States] /\ st[p] = "ZOMBIE"
      BY <2>1 DEF States
    <3>2. resume_first(st, Retire(cpu), [cont EXCEPT ![cpu] = "none"], proc_curr)
      BY <2>4 DEF exit_no_waiter
    <3> HIDE DEF st
    <3> QED BY <3>1, <3>2, ResumeLeavesDead
  <2>5. CASE exit_to_waiter
    <3>1. PICK k \in 1 .. Len(blocked_list) :
            state' = [state EXCEPT ![cpu] = "ZOMBIE", ![blocked_list[k].proc] = "RUNNING"]
      <4>1. \E k \in WaitersFor(cpu) : \A j \in WaitersFor(cpu) : k <= j
        <5>1. WaitersFor(cpu) \in SUBSET Nat /\ WaitersFor(cpu) # {}
          BY <2>5 DEF WaitersFor, exit_to_waiter
        <5> QED BY <5>1, MinExists
      <4> DEFINE k == CHOOSE i \in WaitersFor(cpu) : \A j \in WaitersFor(cpu) : i <= j
      <4>2. k \in 1 .. Len(blocked_list)
        <5>1. k \in WaitersFor(cpu)
          BY <4>1, Zenon
        <5> QED BY <5>1 DEF WaitersFor
      <4> QED BY <2>5, <4>2 DEF exit_to_waiter
    <3>2. blocked_list[k].proc \in Pids /\ state[blocked_list[k].proc] = "BLOCKED"
      BY <2>1, EntriesAreTyped DEF IInv, EntriesAreBlocked, Entries
    <3> QED BY <2>1, <3>1, <3>2
  <2>6. CASE mt_preempt_switch
    <3>1. /\ current_idx \in 0 .. Len(tasks) /\ Len(tasks) > 0 /\ Len(tasks) \in Nat
          /\ \A i \in Slots : tasks[i].proc \in Pids
      BY <2>1, TasksAreTyped DEF TypeOK, TableShape, TaskRecords
    <3> DEFINE new == scheduler_pick_next(current_idx)
    <3>2. new # 0 => new \in Slots /\ state[tasks[new].proc] # "ZOMBIE"
      BY <2>1, <3>1, PickNextIsReady
    <3>3. \E st : /\ new # 0 /\ state' = [st EXCEPT ![tasks[new].proc] = "RUNNING"]
                  /\ \/ st = state
                     \/ \E i \in Slots : state[tasks[i].proc] = "RUNNING"
                                         /\ st = [state EXCEPT ![tasks[i].proc] = "READY"]
      <4> HIDE DEF new
      <4>1. current_idx # 0 => current_idx \in Slots
        BY <3>1 DEF Slots
      <4> QED BY <2>6, <4>1 DEF mt_preempt_switch, new
    <3> HIDE DEF new
    <3> QED BY <2>1, <3>1, <3>2, <3>3
  <2>7. CASE timer_tick \/ mt_preempt_same \/ UNCHANGED vars
    BY <2>7 DEF timer_tick, mt_preempt_same, vars
  <2> QED BY <2>2, <2>3, <2>4, <2>5, <2>6, <2>7
          DEF Next, scall_exit, timer_handler, mt_preempt
<1>2. IInv /\ IInv' /\ [Next]_vars =>
        [\A p \in Pids : state[p] = "ZOMBIE" =>
           state'[p] = "ZOMBIE" /\ ~ (cpu' = p /\ mode' = "user")]_vars
  BY <1>1 DEF IInv, CpuRuns
<1> QED BY <1>2, InvariantIInv, PTL DEF Spec, DeadStaysDead

-----------------------------------------------------------------------------
(* Waiting.  IInv says whose registers are where; that somebody will still *)
(* come to wake a sleeper needs what is said of the waited-for: a process  *)
(* waits only for younger ones, nobody else waits for those, and they have *)
(* a slot to run from.                                                     *)

(* Forked children: made after their parent, entered in the table, and     *)
(* nobody else's.                                                          *)
KidsAreOwn ==
  \A p \in Pids :
    /\ \A c \in kids[p] : p < c /\ c < pid_next /\ HasSlot(c)
    /\ \A q \in Pids : p # q => kids[p] \cap kids[q] = {}

(* Whoever is waited for is younger than its waiter, alive, in the table,  *)
(* and waited for by nobody else: nobody else's child.                     *)
TargetLive(e) ==
  /\ e.proc < e.target /\ e.target < pid_next /\ state[e.target] # "ZOMBIE"
  /\ TableNeverFull => HasSlot(e.target)
  /\ \A q \in Pids : e.target \in kids[q] => q = e.proc

TargetsLive ==
  ~ WaitAnyPid =>
    /\ \A i \in 1 .. Len(blocked_list) : TargetLive(blocked_list[i])
    /\ \A i, j \in 1 .. Len(blocked_list) :
         blocked_list[i].target = blocked_list[j].target => i = j

(* With room for everybody in blocked_list, whoever is blocked is in it.   *)
BlockedListed ==
  MaxBlocked >= NPids =>
    \A p \in Pids : state[p] = "BLOCKED" =>
      \E i \in 1 .. Len(blocked_list) : blocked_list[i].proc = p

(* The kernel stops only when it found nobody to run.                      *)
HaltIdle ==
  mode # "user" => \A i \in Slots : state[tasks[i].proc] \in {"ZOMBIE", "BLOCKED"}

WInv == IInv /\ KidsAreOwn /\ TargetsLive /\ BlockedListed /\ HaltIdle
(* The entries are the elements of blocked_list.                           *)
LEMMA EntriesListed ==
  ASSUME TypeOK
  PROVE  /\ \A e \in Entries : \E i \in 1 .. Len(blocked_list) : e = blocked_list[i]
         /\ \A i \in 1 .. Len(blocked_list) : blocked_list[i] \in Entries
  BY DEF Entries

(* The invariant of waits implies that no wake-up is lost.                 *)
LEMMA WInvWakes == WInv => NoLostWakeup
<1> SUFFICES ASSUME WInv, ~ WaitAnyPid, MaxBlocked >= NPids
             PROVE  /\ \A p \in Pids : state[p] = "BLOCKED" =>
                         \E e \in Entries : e.proc = p /\ state[e.target] \notin {"NONE", "ZOMBIE"}
                    /\ \A i, j \in 1 .. Len(blocked_list) :
                         blocked_list[i].proc = blocked_list[j].proc => i = j
                    /\ \A e \in Entries : state[e.proc] = "BLOCKED"
  BY DEF NoLostWakeup
<1>1. TypeOK /\ EntriesAreBlocked /\ PidsInOrder /\ TargetsLive /\ BlockedListed
  BY DEF WInv, IInv
<1>2. ASSUME NEW p \in Pids, state[p] = "BLOCKED"
      PROVE  \E e \in Entries : e.proc = p /\ state[e.target] \notin {"NONE", "ZOMBIE"}
  <2>1. PICK i \in 1 .. Len(blocked_list) : blocked_list[i].proc = p
    BY <1>1, <1>2 DEF BlockedListed
  <2>2. /\ blocked_list[i].target \in Pids /\ blocked_list[i].target < pid_next
        /\ state[blocked_list[i].target] # "ZOMBIE"
    <3>1. blocked_list[i].target \in Pids
      BY <1>1, EntriesAreTyped
    <3>2. TargetLive(blocked_list[i])
      BY <1>1 DEF TargetsLive
    <3> QED BY <3>1, <3>2 DEF TargetLive
  <2>3. state[blocked_list[i].target] # "NONE"
    BY <1>1, <2>2, MultitaskAssumption, SMTT(60) DEF PidsInOrder, Pids, TypeOK
  <2> QED BY <2>1, <2>2, <2>3 DEF Entries
<1> QED BY <1>1, <1>2 DEF EntriesAreBlocked

(* Of the blocked processes with a slot take the youngest: the process it  *)
(* waits for is younger, alive and in the table, so it can run.            *)
LEMMA WInvHalts == WInv => HaltsOnlyWhenDone
<1> SUFFICES ASSUME WInv, ~ WaitAnyPid, MaxBlocked >= NPids, TableNeverFull, mode = "halt",
                    NEW i \in Slots, state[tasks[i].proc] # "ZOMBIE"
             PROVE  FALSE
  BY DEF HaltsOnlyWhenDone, Slots
<1>1. TypeOK /\ TargetsLive /\ BlockedListed /\ HaltIdle
  BY DEF WInv, IInv
<1> DEFINE waiting == {p \in Pids : HasSlot(p) /\ state[p] = "BLOCKED"}
<1>2. tasks[i].proc \in waiting
  BY <1>1, TasksAreTyped DEF HaltIdle, HasSlot, TaskRecords
<1>3. \E p \in waiting : \A q \in waiting : q <= p
  <2> DEFINE below == {NPids - p : p \in waiting}
  <2>1. below \in SUBSET Nat /\ below # {}
    BY <1>2, MultitaskAssumption DEF Pids
  <2> HIDE DEF below
  <2>2. PICK n \in below : \A m \in below : n <= m
    BY <2>1, MinExists
  <2>3. PICK p \in waiting : n = NPids - p
    BY <2>2 DEF below
  <2>4. ASSUME NEW q \in waiting PROVE q <= p
    <3>1. NPids - q \in below
      BY DEF below
    <3>2. NPids - p <= NPids - q
      BY <2>2, <2>3, <3>1
    <3> QED BY <3>2, MultitaskAssumption DEF Pids
  <2> QED BY <2>4
<1>4. PICK p \in waiting : \A q \in waiting : q <= p
  BY <1>3
<1>5. PICK j \in 1 .. Len(blocked_list) : blocked_list[j].proc = p
  BY <1>1 DEF BlockedListed
<1> DEFINE c == blocked_list[j].target
<1>6. c \in Pids /\ p < c /\ state[c] # "ZOMBIE" /\ HasSlot(c)
  BY <1>1, <1>5, EntriesAreTyped DEF TargetsLive, TargetLive
<1>7. state[c] = "BLOCKED"
  <2>1. PICK k \in Slots : tasks[k].proc = c
    BY <1>6 DEF HasSlot
  <2> QED BY <1>1, <1>6, <2>1 DEF HaltIdle
<1>8. c <= p
  BY <1>4, <1>6, <1>7
<1>9. p \in Nat /\ c \in Nat
  BY <1>6 DEF Pids
<1> QED BY <1>6, <1>8, <1>9

(* At first nobody has children or waits.                                  *)
LEMMA InitWInv == Init => WInv
<1> SUFFICES ASSUME Init PROVE WInv
  OBVIOUS
<1>1. IInv
  BY InitIInv
<1>2. /\ \A p \in Pids : kids[p] = {} /\ state[p] # "BLOCKED"
      /\ Len(blocked_list) = 0 /\ mode = "user"
  BY DEF Init
<1> QED BY <1>1, <1>2 DEF WInv, KidsAreOwn, TargetsLive, BlockedListed, HaltIdle

(* blocked_list has room for one more: nobody is in it twice, and the      *)
(* caller is not in it.                                                    *)
LEMMA RoomForCaller ==
  ASSUME IInv, mode = "user", MaxBlocked >= NPids
  PROVE  Len(blocked_list) < MaxBlocked
<1> DEFINE n == Len(blocked_list)
           others == Pids \ {cpu}
           f == [i \in 1 .. n |-> blocked_list[i].proc]
<1>1. /\ TypeOK /\ EntriesAreBlocked /\ n \in Nat /\ cpu \in Pids
      /\ \A i \in 1 .. n : blocked_list[i].proc \in others
  BY EntriesAreTyped, CallerHasNoEntry DEF IInv, TypeOK
<1>2. IsFiniteSet(Pids) /\ Cardinality(Pids) = NPids
  BY MultitaskAssumption, FS_Interval DEF Pids
<1>3. IsFiniteSet(others) /\ Cardinality(others) = NPids - 1
  <2> HIDE DEF others
  <2>1. others = Pids \ {cpu}
    BY DEF others
  <2> QED BY <1>1, <1>2, <2>1, FS_RemoveElement
<1>4. f \in [1 .. n -> others] /\ DOMAIN f = 1 .. n
  BY <1>1
<1>5. \A i, j \in 1 .. n : f[i] = f[j] => i = j
  BY <1>1 DEF EntriesAreBlocked
<1> HIDE DEF f, others
<1>6. f \in Injection(1 .. n, others)
  <2>1. IsInjective(f)
    BY <1>4, <1>5 DEF IsInjective
  <2> QED BY <1>4, <2>1 DEF Injection
<1>7. Cardinality(1 .. n) <= NPids - 1
  BY <1>3, <1>6, FS_Injection
<1>8. Cardinality(1 .. n) = n
  <2>1. n \in Int /\ 1 \in Int
    BY <1>1
  <2>2. Cardinality(1 .. n) = IF 1 > n THEN 0 ELSE n - 1 + 1
    <3> HIDE DEF n
    <3> QED BY <2>1, FS_Interval
  <2> QED BY <1>1, <2>2
<1> QED BY <1>1, <1>7, <1>8, MultitaskAssumption

-----------------------------------------------------------------------------
(* A process keeps its slot when slots are added or their state changes.   *)
LEMMA SlotsStay ==
  ASSUME TypeOK, Len(tasks') \in Nat, Len(tasks) <= Len(tasks'),
         \A i \in Slots : tasks'[i].proc = tasks[i].proc
  PROVE  \A p \in Pids : HasSlot(p) => HasSlot(p)'
<1> SUFFICES ASSUME NEW p \in Pids, HasSlot(p) PROVE \E i \in Slots' : tasks'[i].proc = p
  BY DEF HasSlot
<1>1. PICK i \in Slots : tasks[i].proc = p
  BY DEF HasSlot
<1>2. i \in Slots'
  BY TasksAreTyped DEF Slots
<1> QED BY <1>1, <1>2

(* When nobody is woken the kernel stops only if nobody can run.           *)
LEMMA ResumeFirstHaltsIdle ==
  ASSUME IInv', mode = "user", NEW st, NEW tsks, Len(tsks) \in Nat, NEW places, NEW idle,
         resume_first(st, tsks, places, idle), tasks' = tsks
  PROVE  HaltIdle'
<1> SUFFICES ASSUME mode' # "user", NEW i \in Slots'
             PROVE  state'[tsks[i].proc] \in {"ZOMBIE", "BLOCKED"}
  BY DEF HaltIdle
<1>1. FirstRunnable(tsks, st) = 0 /\ state' = st
  BY DEF resume_first
<1> DEFINE ready == {k \in 1 .. Len(tsks) :
                       tsks[k].valid /\ st[tsks[k].proc] \notin {"ZOMBIE", "BLOCKED"}}
<1>2. ready = {}
  <2> SUFFICES ASSUME ready # {} PROVE FALSE
    OBVIOUS
  <2>1. ready \in SUBSET Nat
    OBVIOUS
  <2>2. \E k \in ready : \A j \in ready : k <= j
    <3> HIDE DEF ready
    <3> QED BY <2>1, MinExists, SMTT(60)
  <2>3. FirstRunnable(tsks, st) = CHOOSE k \in ready : \A j \in ready : k <= j
    BY DEF FirstRunnable
  <2>4. FirstRunnable(tsks, st) \in ready
    <3> HIDE DEF ready
    <3> QED BY <2>2, <2>3, Zenon
  <2> QED BY <1>1, <2>4
<1>3. i \in 1 .. Len(tsks)
  BY DEF Slots
<1>4. tsks[i].valid <=> state'[tsks[i].proc] # "ZOMBIE"
  BY DEF IInv, TableShape
<1> QED BY <1>1, <1>2, <1>3, <1>4

(* The family tree stays one when nobody is born into it.                  *)
LEMMA KidsStay ==
  ASSUME TypeOK, KidsAreOwn, kids' = kids, pid_next' \in {pid_next, pid_next + 1},
         \A p \in Pids : HasSlot(p) => HasSlot(p)'
  PROVE  KidsAreOwn'
<1>1. pid_next \in Nat /\ \A p \in Pids : kids[p] \subseteq Pids
  BY MultitaskAssumption DEF TypeOK
<1>2. ASSUME NEW p \in Pids, NEW c \in kids[p] PROVE p < c /\ c < pid_next' /\ HasSlot(c)'
  <2>1. c \in Pids /\ p < c /\ c < pid_next /\ HasSlot(c)
    BY <1>1 DEF KidsAreOwn
  <2> QED BY <1>1, <2>1, MultitaskAssumption DEF Pids
<1> QED BY <1>2 DEF KidsAreOwn

(* If the table is never full later it is not full now.                    *)
LEMMA NeverFullBefore ==
  ASSUME TypeOK, pid_next' \in {pid_next, pid_next + 1}
  PROVE  TableNeverFull' => TableNeverFull
<1>1. pid_next \in Nat /\ MaxTasks \in Nat
  BY MultitaskAssumption DEF TypeOK
<1>2. CASE pid_next' = pid_next
  BY <1>2 DEF TableNeverFull
<1>3. CASE pid_next' = pid_next + 1
  <2>1. TableNeverFull' <=> pid_next' - 1 <= MaxTasks
    BY DEF TableNeverFull
  <2>2. pid_next + 1 - 1 = pid_next /\ pid_next - 1 <= pid_next /\ pid_next - 1 \in Int
    BY <1>1
  <2>3. TableNeverFull' => pid_next <= MaxTasks
    BY <1>3, <2>1, <2>2
  <2> QED BY <1>1, <2>2, <2>3 DEF TableNeverFull
<1> QED BY <1>2, <1>3

(* An entry's target stays alive unless it exits.                          *)
LEMMA TargetStays ==
  ASSUME TypeOK, NEW e \in EntryRecords, TargetLive(e),
         pid_next' \in {pid_next, pid_next + 1},
         \A p \in Pids : HasSlot(p) => HasSlot(p)',
         \A p \in Pids : \A c \in kids'[p] : c \in kids[p] \/ c = pid_next,
         state'[e.target] # "ZOMBIE"
  PROVE  TargetLive(e)'
<1> DEFINE p == e.proc
           c == e.target
<1>1. /\ p \in Pids /\ c \in Pids /\ p < c /\ c < pid_next
      /\ TableNeverFull => HasSlot(c)
      /\ \A q \in Pids : c \in kids[q] => q = p
      /\ pid_next \in Nat /\ state'[c] # "ZOMBIE"
  BY MultitaskAssumption DEF TargetLive, EntryRecords, TypeOK
<1> HIDE DEF p, c
<1>2. c \in Nat /\ c # pid_next /\ c < pid_next'
  BY <1>1, MultitaskAssumption DEF Pids
<1>3. TableNeverFull' => HasSlot(c)'
  BY <1>1, NeverFullBefore
<1>4. \A q \in Pids : c \in kids'[q] => q = p
  BY <1>1, <1>2
<1>5. p < c
  BY <1>1
<1> QED BY <1>1, <1>2, <1>3, <1>4, <1>5 DEF p, c, TargetLive

(* Steps that leave blocked_list alone and end nobody who is waited for.   *)
LEMMA SameListWInv ==
  ASSUME WInv, IInv', KidsAreOwn', HaltIdle',
         blocked_list' = blocked_list, pid_next' \in {pid_next, pid_next + 1},
         \A p \in Pids : HasSlot(p) => HasSlot(p)',
         \A p \in Pids : \A c \in kids'[p] : c \in kids[p] \/ c = pid_next,
         \A p \in Pids : state'[p] = "BLOCKED" => state[p] = "BLOCKED",
         \A i \in 1 .. Len(blocked_list) :
           state[blocked_list[i].target] # "ZOMBIE" /\ blocked_list[i].target < pid_next
             => state'[blocked_list[i].target] # "ZOMBIE"
  PROVE  WInv'
<1>1. TypeOK /\ TargetsLive /\ BlockedListed
  BY DEF WInv, IInv
<1>2. BlockedListed'
  BY <1>1 DEF BlockedListed
<1>3. ASSUME ~ WaitAnyPid, NEW i \in 1 .. Len(blocked_list) PROVE TargetLive(blocked_list[i])'
  <2>1. blocked_list[i] \in EntryRecords /\ TargetLive(blocked_list[i])
    BY <1>1, <1>3, EntriesAreTyped DEF TargetsLive
  <2>2. state'[blocked_list[i].target] # "ZOMBIE"
    BY <2>1 DEF TargetLive
  <2> DEFINE e == blocked_list[i]
  <2>3. \A x \in EntryRecords : TargetLive(x) /\ state'[x.target] # "ZOMBIE" => TargetLive(x)'
    BY <1>1, TargetStays
  <2> QED BY <2>1, <2>2, <2>3 DEF TargetLive, HasSlot
<1>4. TargetsLive'
  BY <1>1, <1>3 DEF TargetsLive
<1> QED BY <1>2, <1>4 DEF WInv

(* Steps that block the caller until process t exits.                      *)
LEMMA BlockWInv ==
  ASSUME WInv, IInv', KidsAreOwn', HaltIdle', mode = "user", NEW t \in Pids,
         NEW e \in EntryRecords, e = [proc |-> cpu, target |-> t],
         blocked_list' = block_caller(cpu, t), pid_next' \in {pid_next, pid_next + 1},
         kids' = kids,
         \A p \in Pids : HasSlot(p) => HasSlot(p)',
         \A p \in Pids : p # cpu /\ state'[p] = "BLOCKED" => state[p] = "BLOCKED",
         \A p \in Pids : state[p] # "ZOMBIE" /\ p < pid_next => state'[p] # "ZOMBIE",
         ~ WaitAnyPid =>
           /\ TargetLive(e)'
           /\ \A i \in 1 .. Len(blocked_list) : blocked_list[i].target # t
  PROVE  WInv'
<1>1. /\ TypeOK /\ TargetsLive /\ BlockedListed /\ cpu \in Pids
      /\ Len(blocked_list) \in Nat /\ blocked_list \in Seq(EntryRecords)
      /\ \A i \in 1 .. Len(blocked_list) : blocked_list[i] \in EntryRecords
  BY EntriesAreTyped DEF WInv, IInv, TypeOK
<1> DEFINE n == Len(blocked_list)
<1>2. \A i \in 1 .. Len(blocked_list') :
        \/ i \in 1 .. n /\ blocked_list'[i] = blocked_list[i]
        \/ i = n + 1 /\ blocked_list'[i] = e
  BY <1>1, BlockCallerAppends
<1>3. e.proc = cpu /\ e.target = t
  OBVIOUS
<1>4. ~ WaitAnyPid => TargetLive(e)' /\ \A i \in 1 .. n : blocked_list[i].target # e.target
  BY <1>3
<1>5. ASSUME MaxBlocked >= NPids
      PROVE  /\ Len(blocked_list') = n + 1 /\ blocked_list'[n + 1] = e
             /\ \A i \in 1 .. n : i \in 1 .. Len(blocked_list') /\ blocked_list'[i] = blocked_list[i]
  <2>1. n < MaxBlocked
    BY <1>5, RoomForCaller DEF WInv
  <2>2. blocked_list' = Append(blocked_list, e)
    BY <2>1 DEF block_caller
  <2> QED BY <1>1, <1>3, <2>2
<1>6. ASSUME ~ WaitAnyPid, NEW x \in EntryRecords, NEW i \in 1 .. n, x = blocked_list[i]
      PROVE  TargetLive(x)'
  <2>1. TargetLive(x) /\ x.target \in Pids
    BY <1>1, <1>6 DEF TargetsLive, EntryRecords
  <2>2. state'[x.target] # "ZOMBIE"
    BY <2>1 DEF TargetLive
  <2> QED BY <1>1, <2>1, <2>2, TargetStays
<1>7. ASSUME ~ WaitAnyPid, NEW i \in 1 .. Len(blocked_list') PROVE TargetLive(blocked_list[i])'
  <2>1. PICK x \in EntryRecords : x = blocked_list'[i]
    BY <1>1, <1>2, <1>3
  <2>2. CASE x = e
    <3>1. TargetLive(x)'
      BY <1>4, <1>7, <2>2
    <3> QED BY <2>1, <3>1 DEF TargetLive
  <2>3. CASE i \in 1 .. n /\ x = blocked_list[i]
    <3>1. TargetLive(x)'
      BY <1>6, <1>7, <2>3
    <3> QED BY <2>1, <3>1 DEF TargetLive
  <2> QED BY <1>2, <2>1, <2>2, <2>3
<1>8. TargetsLive'
  <2> SUFFICES ASSUME ~ WaitAnyPid, NEW i \in 1 .. Len(blocked_list'),
                      NEW j \in 1 .. Len(blocked_list'),
                      blocked_list'[i].target = blocked_list'[j].target
               PROVE  i = j
    BY <1>7 DEF TargetsLive
  <2> QED BY <1>1, <1>2, <1>4 DEF TargetsLive
<1>9. BlockedListed'
  <2> SUFFICES ASSUME MaxBlocked >= NPids, NEW p \in Pids, state'[p] = "BLOCKED"
               PROVE  \E i \in 1 .. Len(blocked_list') : blocked_list'[i].proc = p
    BY DEF BlockedListed
  <2>1. CASE p = cpu
    <3>1. n + 1 \in 1 .. Len(blocked_list') /\ blocked_list'[n + 1].proc = cpu
      BY <1>1, <1>3, <1>5
    <3> QED BY <2>1, <3>1
  <2>2. CASE p # cpu
    <3>1. PICK i \in 1 .. n : blocked_list[i].proc = p
      BY <1>1, <2>2 DEF BlockedListed
    <3> QED BY <1>5, <3>1
  <2> QED BY <2>1, <2>2
<1> QED BY <1>8, <1>9 DEF WInv

-----------------------------------------------------------------------------
(* A system call is made by a running process, which has a pid in use.     *)
LEMMA CallerIsAlive ==
  ASSUME IInv, mode = "user"
  PROVE  /\ TypeOK /\ cpu \in Pids /\ state[cpu] = "RUNNING" /\ cpu < pid_next
         /\ pid_next \in Nat /\ Len(tasks) \in Nat
         /\ state \in [Pids -> States] /\ kids \in [Pids -> SUBSET Pids]
<1>1. TypeOK /\ cpu \in Pids /\ state[cpu] = "RUNNING" /\ PidsInOrder
      /\ state \in [Pids -> States] /\ kids \in [Pids -> SUBSET Pids]
  BY DEF IInv, CpuRuns, TypeOK
<1>2. pid_next \in Nat /\ Len(tasks) \in Nat
  BY <1>1, TasksAreTyped, MultitaskAssumption DEF TypeOK
<1>3. cpu < pid_next
  BY <1>1, <1>2, MultitaskAssumption DEF PidsInOrder, Pids
<1> QED BY <1>1, <1>2, <1>3

(* Entering a fresh process in the table moves nobody.                     *)
LEMMA AddTaskKeepsSlots ==
  ASSUME IInv, NEW c \in Pids, tasks' = mt_add_task(c)
  PROVE  /\ \A p \in Pids : HasSlot(p) => HasSlot(p)'
         /\ Len(tasks) < MaxTasks => HasSlot(c)'
<1>1. TypeOK /\ Len(tasks) \in Nat
  BY TasksAreTyped DEF IInv
<1>2. /\ Len(tasks') \in Nat /\ Len(tasks) <= Len(tasks')
      /\ \A i \in Slots : tasks'[i] = tasks[i]
      /\ Len(tasks) < MaxTasks => /\ Len(tasks') = Len(tasks) + 1
                                  /\ tasks'[Len(tasks) + 1] = Task(c, TRUE)
  <2>1. /\ Len(mt_add_task(c)) = IF Len(tasks) < MaxTasks THEN Len(tasks) + 1 ELSE Len(tasks)
        /\ \A i \in Slots : mt_add_task(c)[i] = tasks[i]
        /\ Len(tasks) < MaxTasks => mt_add_task(c)[Len(tasks) + 1] = Task(c, TRUE)
    BY <1>1, AddTaskAppends
  <2>2. Len(tasks') = IF Len(tasks) < MaxTasks THEN Len(tasks) + 1 ELSE Len(tasks)
    BY <2>1
  <2>3. \A i \in Slots : tasks'[i] = tasks[i]
    BY <2>1
  <2>4. Len(tasks) < MaxTasks => tasks'[Len(tasks) + 1] = Task(c, TRUE)
    BY <2>1
  <2>5. Len(tasks') \in Nat /\ Len(tasks) <= Len(tasks')
    <3>1. CASE Len(tasks) < MaxTasks
      BY <1>1, <2>2, <3>1
    <3>2. CASE ~(Len(tasks) < MaxTasks)
      BY <1>1, <2>2, <3>2
    <3> QED BY <3>1, <3>2
  <2> QED BY <2>2, <2>3, <2>4, <2>5
<1>3. \A p \in Pids : HasSlot(p) => HasSlot(p)'
  BY <1>1, <1>2, SlotsStay
<1>4. ASSUME Len(tasks) < MaxTasks PROVE HasSlot(c)'
  <2>1. Len(tasks) + 1 \in Slots' /\ tasks'[Len(tasks) + 1].proc = c
    BY <1>1, <1>2, <1>4 DEF Slots, Task
  <2> QED BY <2>1 DEF HasSlot
<1> QED BY <1>3, <1>4

(* A child is younger than its parent and nobody waits for it yet.         *)
LEMMA ForkWInv == ASSUME WInv, IInv', scall_fork PROVE WInv'
<1>1. /\ IInv /\ KidsAreOwn /\ mode = "user" /\ pid_next \in Pids
      /\ Len(tasks) < MaxTasks /\ pid_next' = pid_next + 1
      /\ state' = [state EXCEPT ![pid_next] = "READY"]
      /\ tasks' = mt_add_task(pid_next)
      /\ kids' = [kids EXCEPT ![cpu] = @ \cup {pid_next}]
      /\ mode' = mode /\ blocked_list' = blocked_list
  BY MultitaskAssumption DEF WInv, scall_fork, SystemCall, IInv, TypeOK, Pids
<1>2. /\ TypeOK /\ cpu \in Pids /\ cpu < pid_next /\ pid_next \in Nat
      /\ state \in [Pids -> States] /\ kids \in [Pids -> SUBSET Pids]
  BY <1>1, CallerIsAlive
<1>3. PICK c \in Pids : c = pid_next
  BY <1>1
<1>4. (\A p \in Pids : HasSlot(p) => HasSlot(p)') /\ HasSlot(c)'
  BY <1>1, <1>3, AddTaskKeepsSlots
<1>5. \A p \in Pids : \A d \in kids'[p] : d \in kids[p] \/ (p = cpu /\ d = c)
  BY <1>1, <1>2, <1>3
<1>6. KidsAreOwn'
  <2>1. \A p \in Pids : \A d \in kids[p] : /\ d \in Pids /\ p < d /\ d < pid_next /\ HasSlot(d)
                                          /\ d # c
    BY <1>1, <1>2, <1>3, MultitaskAssumption DEF KidsAreOwn, Pids
  <2>2. ASSUME NEW p \in Pids, NEW d \in kids'[p] PROVE p < d /\ d < pid_next' /\ HasSlot(d)'
    <3>1. CASE d \in kids[p]
      <4>1. d \in Pids /\ p < d /\ d < pid_next /\ HasSlot(d) /\ d \in Nat
        BY <2>1, <3>1 DEF Pids
      <4> QED BY <1>1, <1>2, <1>4, <4>1
    <3>2. CASE p = cpu /\ d = c
      BY <1>1, <1>2, <1>3, <1>4, <3>2
    <3> QED BY <1>5, <3>1, <3>2
  <2>3. ASSUME NEW p \in Pids, NEW q \in Pids, p # q, NEW d \in kids'[p], d \in kids'[q]
        PROVE  FALSE
    <3>1. ~ (d \in kids[p] /\ d \in kids[q])
      BY <1>1, <2>3 DEF KidsAreOwn
    <3> QED BY <1>5, <2>1, <2>3, <3>1
  <2> QED BY <2>2, <2>3 DEF KidsAreOwn
<1>7. \A p \in Pids : /\ state'[p] = "BLOCKED" => state[p] = "BLOCKED"
                      /\ p # c => state'[p] = state[p]
  BY <1>1, <1>2, <1>3
<1>8. \A i \in 1 .. Len(blocked_list) :
        state[blocked_list[i].target] # "ZOMBIE" /\ blocked_list[i].target < pid_next
          => state'[blocked_list[i].target] # "ZOMBIE"
  BY <1>2, <1>3, <1>7, EntriesAreTyped, SMTT(60)
<1>9. HaltIdle'
  BY <1>1 DEF HaltIdle
<1>10. \A p \in Pids : \A d \in kids'[p] : d \in kids[p] \/ d = pid_next
  BY <1>3, <1>5
<1> QED BY <1>1, <1>4, <1>6, <1>7, <1>8, <1>9, <1>10, SameListWInv

(* A pid used up by a creation that fails is nobody's child.               *)
LEMMA OrphanWInv == ASSUME WInv, IInv', create_orphan \/ create_no_memory PROVE WInv'
<1>1. /\ IInv /\ KidsAreOwn /\ mode = "user" /\ pid_next' = pid_next + 1
      /\ \E s \in {"READY", "ZOMBIE"} : state' = [state EXCEPT ![pid_next] = s]
      /\ tasks' = tasks /\ kids' = kids /\ mode' = mode /\ blocked_list' = blocked_list
  BY DEF WInv, create_orphan, create_no_memory, SystemCall
<1>2. TypeOK /\ pid_next \in Nat /\ state \in [Pids -> States]
  BY <1>1, CallerIsAlive
<1>3. \A p \in Pids : HasSlot(p) => HasSlot(p)'
  BY <1>1 DEF HasSlot, Slots
<1>4. KidsAreOwn'
  BY <1>1, <1>2, <1>3, KidsStay
<1>5. \A p \in Pids : /\ state'[p] = "BLOCKED" => state[p] = "BLOCKED"
                      /\ p # pid_next => state'[p] = state[p]
  BY <1>1, <1>2
<1>6. \A i \in 1 .. Len(blocked_list) :
        state[blocked_list[i].target] # "ZOMBIE" /\ blocked_list[i].target < pid_next
          => state'[blocked_list[i].target] # "ZOMBIE"
  BY <1>2, <1>5, EntriesAreTyped
<1>7. HaltIdle'
  BY <1>1 DEF HaltIdle
<1> QED BY <1>1, <1>3, <1>4, <1>5, <1>6, <1>7, SameListWInv

(* execve waits for the process it starts, which is younger and alive.     *)
LEMMA ExecveWInv == ASSUME WInv, IInv', scall_execve PROVE WInv'
<1>1. /\ IInv /\ KidsAreOwn /\ TargetsLive /\ mode = "user" /\ pid_next \in Pids
      /\ pid_next' = pid_next + 1
      /\ state' = [state EXCEPT ![cpu] = "BLOCKED", ![pid_next] = "RUNNING"]
      /\ tasks' = mt_add_task(pid_next) /\ kids' = kids /\ mode' = mode
      /\ blocked_list' = block_caller(cpu, pid_next)
  BY MultitaskAssumption DEF WInv, scall_execve, SystemCall, IInv, TypeOK, Pids
<1>2. /\ TypeOK /\ cpu \in Pids /\ cpu < pid_next /\ pid_next \in Nat /\ state[cpu] = "RUNNING"
      /\ state \in [Pids -> States] /\ Len(tasks) \in Nat
  BY <1>1, CallerIsAlive
<1>3. PICK c \in Pids : c = pid_next
  BY <1>1
<1>4. (\A p \in Pids : HasSlot(p) => HasSlot(p)') /\ (Len(tasks) < MaxTasks => HasSlot(c)')
  BY <1>1, <1>3, AddTaskKeepsSlots
<1>5. KidsAreOwn'
  BY <1>1, <1>2, <1>4, KidsStay
<1>6. HaltIdle'
  BY <1>1 DEF HaltIdle
<1>7. PICK e \in EntryRecords : e = [proc |-> cpu, target |-> c] /\ e.proc = cpu /\ e.target = c
  <2> DEFINE e == [proc |-> cpu, target |-> c]
  <2>1. e \in EntryRecords /\ e.proc = cpu /\ e.target = c
    BY <1>2 DEF EntryRecords
  <2> QED BY <2>1
<1>8. /\ state'[c] = "RUNNING" /\ state'[cpu] = "BLOCKED"
      /\ \A p \in Pids : p # c /\ p # cpu => state'[p] = state[p]
  BY <1>1, <1>2, <1>3
<1>9. TableNeverFull' => HasSlot(c)'
  <2>1. Len(tasks) <= pid_next - 1 /\ MaxTasks \in Nat
    BY <1>1, MultitaskAssumption DEF IInv, TableShape
  <2>2. TableNeverFull' => pid_next <= MaxTasks
    <3>1. TableNeverFull' <=> pid_next' - 1 <= MaxTasks
      BY DEF TableNeverFull
    <3>2. pid_next' - 1 = pid_next
      BY <1>1, <1>2
    <3> QED BY <3>1, <3>2
  <2>3. pid_next <= MaxTasks => Len(tasks) < MaxTasks
    BY <1>2, <2>1
  <2> QED BY <1>4, <2>2, <2>3
<1>10. \A q \in Pids : c \notin kids[q]
  <2>1. \A q \in Pids : \A k \in kids[q] : k < pid_next
    BY <1>1 DEF KidsAreOwn
  <2>2. ~ (pid_next < pid_next)
    BY <1>2
  <2> QED BY <1>3, <2>1, <2>2
<1>11. TargetLive(e)'
  <2>1. e.proc < c /\ c < pid_next' /\ state'[c] # "ZOMBIE"
    BY <1>1, <1>2, <1>3, <1>7, <1>8
  <2>2. \A q \in Pids : c \in kids'[q] => q = e.proc
    BY <1>1, <1>10
  <2> QED BY <1>7, <1>9, <2>1, <2>2 DEF TargetLive
<1>12. ~ WaitAnyPid => \A i \in 1 .. Len(blocked_list) : blocked_list[i].target # c
  BY <1>1, <1>2, <1>3 DEF TargetsLive, TargetLive
<1>13. \A p \in Pids : p # cpu /\ state'[p] = "BLOCKED" => state[p] = "BLOCKED"
  BY <1>8
<1>14. \A p \in Pids : state[p] # "ZOMBIE" /\ p < pid_next => state'[p] # "ZOMBIE"
  BY <1>8
<1> QED BY <1>1, <1>3, <1>4, <1>5, <1>6, <1>7, <1>11, <1>12, <1>13, <1>14, BlockWInv

(* waitpid waits for a child of the caller that is alive.                  *)
LEMMA WaitpidWInv == ASSUME WInv, IInv', NEW t \in Pids, scall_waitpid(t) PROVE WInv'
<1> DEFINE st == [state EXCEPT ![cpu] = "BLOCKED"]
           places == [cont EXCEPT ![cpu] = PlaceOfBlocked]
<1>1. /\ IInv /\ KidsAreOwn /\ TargetsLive /\ mode = "user"
      /\ WaitAnyPid \/ t \in kids[cpu]
      /\ state[t] \notin {"NONE", "ZOMBIE"}
      /\ resume_first(st, tasks, places, 0)
      /\ tasks' = tasks /\ kids' = kids /\ pid_next' = pid_next
      /\ blocked_list' = block_caller(cpu, t)
  BY DEF WInv, scall_waitpid, SystemCall
<1>2. /\ TypeOK /\ cpu \in Pids /\ state[cpu] = "RUNNING" /\ Len(tasks) \in Nat
      /\ state \in [Pids -> States] /\ pid_next \in Nat
      /\ \A i \in Slots : tasks[i].proc \in Pids
  BY <1>1, CallerIsAlive, TasksAreTyped DEF TaskRecords
<1>3. \A p \in Pids : HasSlot(p) => HasSlot(p)'
  BY <1>1 DEF HasSlot, Slots
<1>4. KidsAreOwn'
  BY <1>1, <1>2, <1>3, KidsStay
<1>5. HaltIdle'
  <2> HIDE DEF st, places
  <2> QED BY <1>1, <1>2, ResumeFirstHaltsIdle
<1>6. \/ state' = st
      \/ \E i \in Slots : /\ st[tasks[i].proc] \notin {"ZOMBIE", "BLOCKED"}
                          /\ state' = [st EXCEPT ![tasks[i].proc] = "RUNNING"]
  <2> HIDE DEF st, places
  <2> QED BY <1>1, <1>2, ResumeFirstResumes DEF Slots
<1>7. \A p \in Pids : /\ p # cpu /\ state'[p] = "BLOCKED" => state[p] = "BLOCKED"
                      /\ state[p] # "ZOMBIE" => state'[p] # "ZOMBIE"
  BY <1>2, <1>6
<1>8. PICK e \in EntryRecords : e = [proc |-> cpu, target |-> t] /\ e.proc = cpu /\ e.target = t
  <2> DEFINE e == [proc |-> cpu, target |-> t]
  <2>1. e \in EntryRecords /\ e.proc = cpu /\ e.target = t
    BY <1>2 DEF EntryRecords
  <2> QED BY <2>1
<1>9. \A q \in Pids : t \in kids[cpu] /\ t \in kids[q] => q = cpu
  BY <1>1, <1>2 DEF KidsAreOwn
<1>10. ~ WaitAnyPid => TargetLive(e)'
  <2> SUFFICES ASSUME ~ WaitAnyPid PROVE TargetLive(e)'
    OBVIOUS
  <2>1. t \in kids[cpu] /\ cpu < t /\ t < pid_next /\ HasSlot(t)
    BY <1>1, <1>2 DEF KidsAreOwn
  <2>2. state'[t] # "ZOMBIE" /\ HasSlot(t)'
    BY <1>1, <1>3, <1>7, <2>1
  <2>3. \A q \in Pids : t \in kids'[q] => q = e.proc
    BY <1>1, <1>8, <1>9, <2>1
  <2> QED BY <1>1, <1>8, <2>1, <2>2, <2>3 DEF TargetLive
<1>11. ~ WaitAnyPid => \A i \in 1 .. Len(blocked_list) : blocked_list[i].target # t
  <2> SUFFICES ASSUME ~ WaitAnyPid, NEW i \in 1 .. Len(blocked_list), blocked_list[i].target = t
               PROVE  FALSE
    OBVIOUS
  <2>1. t \in kids[cpu] => blocked_list[i].proc = cpu
    BY <1>1, <1>2 DEF TargetsLive, TargetLive
  <2> QED BY <1>1, <2>1, CallerHasNoEntry
<1> QED BY <1>1, <1>3, <1>4, <1>5, <1>7, <1>8, <1>10, <1>11, BlockWInv

(* If the youngest that is alive cannot run nobody is left to run.         *)
LEMMA ExitNoWaiterWInv == ASSUME WInv, IInv', exit_no_waiter PROVE WInv'
<1> DEFINE st == [state EXCEPT ![cpu] = "ZOMBIE"]
           places == [cont EXCEPT ![cpu] = "none"]
<1>1. /\ IInv /\ KidsAreOwn /\ mode = "user"
      /\ WaitersFor(cpu) = {}
      /\ resume_first(st, Retire(cpu), places, proc_curr)
      /\ tasks' = Retire(cpu) /\ kids' = kids /\ pid_next' = pid_next
      /\ blocked_list' = blocked_list
  BY DEF WInv, exit_no_waiter, SystemCall
<1>2. /\ TypeOK /\ cpu \in Pids /\ state[cpu] = "RUNNING" /\ Len(tasks) \in Nat
      /\ state \in [Pids -> States] /\ pid_next \in Nat
      /\ \A i \in Slots : tasks[i].proc \in Pids
  BY <1>1, CallerIsAlive, TasksAreTyped DEF TaskRecords
<1>3. Len(Retire(cpu)) = Len(tasks) /\ \A i \in Slots : Retire(cpu)[i].proc = tasks[i].proc
  BY <1>1, <1>2, RetireInvalidates DEF IInv
<1>4. \A p \in Pids : HasSlot(p) => HasSlot(p)'
  BY <1>1, <1>2, <1>3, SlotsStay
<1>5. KidsAreOwn'
  BY <1>1, <1>2, <1>4, KidsStay
<1>6. HaltIdle'
  <2> HIDE DEF st, places
  <2> QED BY <1>1, <1>2, <1>3, ResumeFirstHaltsIdle
<1>7. \/ state' = st
      \/ \E i \in Slots : /\ st[tasks[i].proc] \notin {"ZOMBIE", "BLOCKED"}
                          /\ state' = [st EXCEPT ![tasks[i].proc] = "RUNNING"]
  <2> HIDE DEF st, places
  <2> QED BY <1>1, <1>2, <1>3, ResumeFirstResumes DEF Slots
<1>8. \A p \in Pids : /\ state'[p] = "BLOCKED" => state[p] = "BLOCKED"
                      /\ p # cpu /\ state[p] # "ZOMBIE" => state'[p] # "ZOMBIE"
  BY <1>2, <1>7
<1>9. \A i \in 1 .. Len(blocked_list) : blocked_list[i].target \in Pids \ {cpu}
  BY <1>1, <1>2, EntriesAreTyped DEF WaitersFor
<1>10. \A p \in Pids : \A c \in kids'[p] : c \in kids[p]
  BY <1>1
<1> QED BY <1>1, <1>4, <1>5, <1>6, <1>8, <1>9, <1>10, SameListWInv

(* exit takes a waiter off the list that waits for the caller.             *)
LEMMA ExitToWaiterStep ==
  ASSUME exit_to_waiter
  PROVE  \E k \in 1 .. Len(blocked_list) :
           /\ blocked_list[k].target = cpu
           /\ blocked_list' = SwapRemove(blocked_list, k)
           /\ state' = [state EXCEPT ![cpu] = "ZOMBIE", ![blocked_list[k].proc] = "RUNNING"]
           /\ cpu' = blocked_list[k].proc
<1>1. WaitersFor(cpu) \in SUBSET Nat /\ WaitersFor(cpu) # {}
  BY DEF WaitersFor, exit_to_waiter
<1>2. \E k \in WaitersFor(cpu) : \A j \in WaitersFor(cpu) : k <= j
  BY <1>1, MinExists
<1> DEFINE k == CHOOSE i \in WaitersFor(cpu) : \A j \in WaitersFor(cpu) : i <= j
<1>3. k \in WaitersFor(cpu)
  BY <1>2, Zenon
<1>4. k \in 1 .. Len(blocked_list) /\ blocked_list[k].target = cpu
  BY <1>3 DEF WaitersFor
<1> QED BY <1>4 DEF exit_to_waiter

(* The switch moves the processor between tasks that are not blocked.      *)
LEMMA PreemptSwitchStep ==
  ASSUME IInv, mt_preempt_switch
  PROVE  /\ Len(tasks') = Len(tasks) /\ \A i \in Slots : tasks'[i].proc = tasks[i].proc
         /\ \A p \in Pids : /\ state'[p] = "BLOCKED" <=> state[p] = "BLOCKED"
                            /\ state'[p] = "ZOMBIE" <=> state[p] = "ZOMBIE"
                            /\ state'[p] = "NONE" <=> state[p] = "NONE"
<1> DEFINE new == scheduler_pick_next(current_idx)
<1>1. /\ TypeOK /\ state \in [Pids -> States] /\ Len(tasks) \in Nat /\ Len(tasks) > 0
      /\ current_idx \in 0 .. Len(tasks) /\ tasks \in Seq(TaskRecords)
      /\ \A i \in Slots : tasks[i].proc \in Pids /\ tasks[i] \in TaskRecords
  BY TasksAreTyped DEF IInv, TypeOK, TableShape, TaskRecords
<1>2. new # 0 /\ new \in Slots /\ state[tasks[new].proc] \in {"READY", "CREATED", "RUNNING"}
  BY <1>1, PickNextIsReady DEF mt_preempt_switch
<1> HIDE DEF new
<1>3. current_idx # 0 => current_idx \in Slots
  BY <1>1 DEF Slots
<1>4. \E st : /\ state' = [st EXCEPT ![tasks[new].proc] = "RUNNING"]
              /\ \/ st = state
                 \/ \E i \in Slots : state[tasks[i].proc] = "RUNNING"
                                     /\ st = [state EXCEPT ![tasks[i].proc] = "READY"]
  BY <1>3 DEF mt_preempt_switch, new
<1>5. \A p \in Pids : /\ state'[p] = "BLOCKED" <=> state[p] = "BLOCKED"
                      /\ state'[p] = "ZOMBIE" <=> state[p] = "ZOMBIE"
                      /\ state'[p] = "NONE" <=> state[p] = "NONE"
  BY <1>1, <1>2, <1>4
<1>6. tasks' = tasks \/ (current_idx \in Slots /\ tasks' = [tasks EXCEPT ![current_idx].saved = TRUE])
  BY <1>3 DEF mt_preempt_switch
<1>7. Len(tasks') = Len(tasks) /\ \A i \in Slots : tasks'[i].proc = tasks[i].proc
  BY <1>1, <1>6 DEF Slots, TaskRecords
<1> QED BY <1>5, <1>7

(* The one that waits for the caller is released, with its entry.          *)
LEMMA ExitToWaiterWInv == ASSUME WInv, IInv', exit_to_waiter PROVE WInv'
<1>1. /\ IInv /\ KidsAreOwn /\ TargetsLive /\ BlockedListed /\ mode = "user"
      /\ mode' = mode /\ tasks' = Retire(cpu) /\ kids' = kids /\ pid_next' = pid_next
  BY DEF WInv, exit_to_waiter, SystemCall
<1>2. /\ TypeOK /\ cpu \in Pids /\ state[cpu] = "RUNNING" /\ Len(tasks) \in Nat
      /\ state \in [Pids -> States] /\ pid_next \in Nat
      /\ blocked_list \in Seq(EntryRecords) /\ Len(blocked_list) \in Nat
      /\ \A i \in 1 .. Len(blocked_list) :
           /\ blocked_list[i] \in EntryRecords
           /\ blocked_list[i].proc \in Pids /\ blocked_list[i].target \in Pids
  BY <1>1, CallerIsAlive, EntriesAreTyped
<1>3. PICK k \in 1 .. Len(blocked_list) :
        /\ blocked_list[k].target = cpu
        /\ blocked_list' = SwapRemove(blocked_list, k)
        /\ state' = [state EXCEPT ![cpu] = "ZOMBIE", ![blocked_list[k].proc] = "RUNNING"]
        /\ cpu' = blocked_list[k].proc
  BY <1>1, ExitToWaiterStep
<1>4. /\ Len(blocked_list') = Len(blocked_list) - 1
      /\ \A i \in 1 .. Len(blocked_list') :
           blocked_list'[i] = blocked_list[IF i = k THEN Len(blocked_list) ELSE i]
  <2>1. /\ Len(SwapRemove(blocked_list, k)) = Len(blocked_list) - 1
        /\ \A i \in 1 .. Len(SwapRemove(blocked_list, k)) :
             SwapRemove(blocked_list, k)[i] = blocked_list[IF i = k THEN Len(blocked_list) ELSE i]
    BY <1>2, SwapRemoveKeepsOthers
  <2>2. Len(blocked_list') = Len(blocked_list) - 1
    BY <1>3, <2>1
  <2> QED BY <1>3, <2>1, <2>2
<1> DEFINE from(i) == IF i = k THEN Len(blocked_list) ELSE i
           parent == blocked_list[k].proc
<1>5. \A i \in 1 .. Len(blocked_list') :
        from(i) \in 1 .. Len(blocked_list) /\ from(i) # k /\ blocked_list'[i] = blocked_list[from(i)]
  BY <1>2, <1>4
<1>6. \A i, j \in 1 .. Len(blocked_list') : from(i) = from(j) => i = j
  BY <1>2, <1>4
<1>7. \A j \in 1 .. Len(blocked_list) : j # k =>
        \E i \in 1 .. Len(blocked_list') : from(i) = j
  <2> SUFFICES ASSUME NEW j \in 1 .. Len(blocked_list), j # k
               PROVE  \E i \in 1 .. Len(blocked_list') : from(i) = j
    OBVIOUS
  <2>1. CASE j = Len(blocked_list)
    <3>1. k \in 1 .. Len(blocked_list') /\ from(k) = j
      BY <1>2, <1>4, <2>1
    <3> QED BY <3>1
  <2>2. CASE j # Len(blocked_list)
    <3>0. Len(blocked_list') = Len(blocked_list) - 1 /\ Len(blocked_list) \in Nat
      BY <1>2, <1>4
    <3> HIDE DEF from
    <3>1. j \in 1 .. Len(blocked_list')
      BY <3>0, <2>2
    <3> USE DEF from
    <3>2. from(j) = j
      OBVIOUS
    <3> QED BY <3>1, <3>2
  <2> QED BY <2>1, <2>2
<1> HIDE DEF from
<1>8. /\ parent \in Pids /\ state'[parent] = "RUNNING"
      /\ \A p \in Pids : /\ p # cpu /\ p # parent => state'[p] = state[p]
                         /\ p # cpu /\ state[p] # "ZOMBIE" => state'[p] # "ZOMBIE"
                         /\ state'[p] = "BLOCKED" => state[p] = "BLOCKED" /\ p # parent
  BY <1>2, <1>3
<1>9. Len(Retire(cpu)) = Len(tasks) /\ \A i \in Slots : Retire(cpu)[i].proc = tasks[i].proc
  BY <1>1, <1>2, RetireInvalidates DEF IInv
<1>10. \A p \in Pids : HasSlot(p) => HasSlot(p)'
  BY <1>1, <1>2, <1>9, SlotsStay
<1>11. KidsAreOwn'
  BY <1>1, <1>2, <1>10, KidsStay
<1>12. HaltIdle'
  BY <1>1 DEF HaltIdle
<1>13. BlockedListed'
  <2> SUFFICES ASSUME MaxBlocked >= NPids, NEW p \in Pids, state'[p] = "BLOCKED"
               PROVE  \E i \in 1 .. Len(blocked_list') : blocked_list'[i].proc = p
    BY DEF BlockedListed
  <2>1. state[p] = "BLOCKED" /\ p # parent
    BY <1>8
  <2>2. PICK j \in 1 .. Len(blocked_list) : blocked_list[j].proc = p
    BY <1>1, <2>1 DEF BlockedListed
  <2>3. PICK i \in 1 .. Len(blocked_list') : from(i) = j
    BY <1>7, <2>1, <2>2
  <2> QED BY <1>5, <2>2, <2>3
<1>14. TargetsLive'
  <2> SUFFICES ASSUME ~ WaitAnyPid PROVE TargetsLive'
    BY DEF TargetsLive
  <2>1. \A i \in 1 .. Len(blocked_list) : TargetLive(blocked_list[i])
    BY <1>1 DEF TargetsLive
  <2>2. \A i, j \in 1 .. Len(blocked_list) :
          blocked_list[i].target = blocked_list[j].target => i = j
    BY <1>1 DEF TargetsLive
  <2>3. ASSUME NEW i \in 1 .. Len(blocked_list') PROVE TargetLive(blocked_list[i])'
    <3>1. PICK x \in EntryRecords : x = blocked_list'[i] /\ TargetLive(x) /\ x.target # cpu
      BY <1>2, <1>3, <1>5, <2>1, <2>2
    <3>2. state'[x.target] # "ZOMBIE"
      <4>1. x.target \in Pids /\ state[x.target] # "ZOMBIE"
        BY <3>1 DEF EntryRecords, TargetLive
      <4> QED BY <1>8, <3>1, <4>1
    <3>3. \A p \in Pids : \A c \in kids'[p] : c \in kids[p]
      BY <1>1
    <3>4. TargetLive(x)'
      BY <1>1, <1>2, <1>10, <3>1, <3>2, <3>3, TargetStays
    <3> QED BY <3>1, <3>4 DEF TargetLive
  <2>4. \A i, j \in 1 .. Len(blocked_list') :
          blocked_list'[i].target = blocked_list'[j].target => i = j
    BY <1>5, <1>6, <2>2, SMTT(60)
  <2> QED BY <2>3, <2>4 DEF TargetsLive
<1> QED BY <1>11, <1>12, <1>13, <1>14 DEF WInv

(* The timer blocks and ends nobody.                                       *)
LEMMA TimerWInv ==
  ASSUME WInv, IInv', timer_handler \/ UNCHANGED vars
  PROVE  WInv'
<1>1. /\ IInv /\ KidsAreOwn /\ TypeOK /\ Len(tasks) \in Nat /\ state \in [Pids -> States]
      /\ \A i \in Slots : tasks[i].proc \in Pids /\ tasks[i] \in TaskRecords
  BY TasksAreTyped DEF WInv, IInv, TypeOK, TaskRecords
<1>2. /\ blocked_list' = blocked_list /\ kids' = kids /\ pid_next' = pid_next /\ mode' = mode
      /\ mode = "user" \/ (state' = state /\ tasks' = tasks)
  BY DEF timer_handler, timer_tick, mt_preempt, mt_preempt_same, mt_preempt_switch, vars
<1>3. /\ Len(tasks') = Len(tasks) /\ \A i \in Slots : tasks'[i].proc = tasks[i].proc
      /\ \A p \in Pids : /\ state'[p] = "BLOCKED" => state[p] = "BLOCKED"
                         /\ state[p] # "ZOMBIE" => state'[p] # "ZOMBIE"
  <2>1. CASE timer_tick \/ mt_preempt_same \/ UNCHANGED vars
    BY <2>1 DEF timer_tick, mt_preempt_same, vars
  <2>2. CASE mt_preempt_switch
    BY <1>1, <2>2, PreemptSwitchStep
  <2> QED BY <2>1, <2>2 DEF timer_handler, mt_preempt
<1>4. \A p \in Pids : HasSlot(p) => HasSlot(p)'
  BY <1>1, <1>3, SlotsStay
<1>5. KidsAreOwn'
  BY <1>1, <1>2, <1>4, KidsStay
<1>6. HaltIdle'
  BY <1>2 DEF WInv, HaltIdle, Slots
<1>7. \A i \in 1 .. Len(blocked_list) :
        state[blocked_list[i].target] # "ZOMBIE" => state'[blocked_list[i].target] # "ZOMBIE"
  BY <1>1, <1>3, EntriesAreTyped
<1>8. \A p \in Pids : \A c \in kids'[p] : c \in kids[p]
  BY <1>2
<1> QED BY <1>2, <1>3, <1>4, <1>5, <1>6, <1>7, <1>8, SameListWInv

(* Every step keeps the invariant of waits.                                *)
LEMMA NextWInv == WInv /\ [Next]_vars => WInv'
<1> SUFFICES ASSUME WInv, [Next]_vars PROVE WInv'
  OBVIOUS
<1>1. IInv'
  BY NextIInv DEF WInv
<1>2. ASSUME NEW pid \in Pids, scall_waitpid(pid) PROVE WInv'
  BY <1>1, <1>2, WaitpidWInv
<1>3. CASE scall_fork
  BY <1>1, <1>3, ForkWInv
<1>4. CASE create_orphan \/ create_no_memory
  BY <1>1, <1>4, OrphanWInv
<1>5. CASE scall_execve
  BY <1>1, <1>5, ExecveWInv
<1>6. CASE scall_exit
  BY <1>1, <1>6, ExitToWaiterWInv, ExitNoWaiterWInv DEF scall_exit
<1>7. CASE timer_handler \/ UNCHANGED vars
  BY <1>1, <1>7, TimerWInv
<1> QED BY <1>2, <1>3, <1>4, <1>5, <1>6, <1>7 DEF Next

(* The invariant of the family tree and of waits.                          *)
LEMMA InvariantWInv == Spec => []WInv
  BY InitWInv, NextWInv, PTL DEF Spec

(* While the table and blocked_list have room and programs wait only for   *)
(* their own children: whoever is blocked is in blocked_list once, and the *)
(* process it waits for is alive (syscalls.c:181-200, 727-744).            *)
THEOREM MultitaskNoLostWakeup == Spec => []NoLostWakeup
  BY InvariantWInv, WInvWakes, PTL

(* Under the same conditions the kernel never stops with a process left    *)
(* that waits: waits lead from older to younger processes, so the youngest *)
(* waits for one that can run (syscalls.c:253, 781).                       *)
THEOREM MultitaskHaltsOnlyWhenDone == Spec => []HaltsOnlyWhenDone
  BY InvariantWInv, WInvHalts, PTL

-----------------------------------------------------------------------------
(* The refinement of ProcessLife.  Its two variables, read off the states  *)
(* and off blocked_list.                                                   *)
LifeIn(st) == [p \in Pids |-> IF st[p] = "NONE" THEN "none"
                              ELSE IF st[p] = "ZOMBIE" THEN "dead" ELSE "alive"]

AwaitsIn(bl) ==
  [p \in Pids |->
     IF \E e \in {bl[i] : i \in 1 .. Len(bl)} : e.proc = p
     THEN (CHOOSE e \in {bl[i] : i \in 1 .. Len(bl)} : e.proc = p).target ELSE 0]

OneEntryEach(bl) == \A i, j \in 1 .. Len(bl) : bl[i].proc = bl[j].proc => i = j

(* With one entry for each process the list is a function of processes.    *)
LEMMA AwaitsInReads ==
  ASSUME NEW bl \in Seq(EntryRecords), OneEntryEach(bl)
  PROVE  /\ DOMAIN AwaitsIn(bl) = Pids /\ AwaitsIn(bl) = [p \in Pids |-> AwaitsIn(bl)[p]]
         /\ \A i \in 1 .. Len(bl) : AwaitsIn(bl)[bl[i].proc] = bl[i].target
         /\ \A p \in Pids : (\A i \in 1 .. Len(bl) : bl[i].proc # p) => AwaitsIn(bl)[p] = 0
<1> DEFINE E == {bl[i] : i \in 1 .. Len(bl)}
<1>1. \A i \in 1 .. Len(bl) : bl[i] \in EntryRecords
  <2> HIDE DEF EntryRecords
  <2> QED OBVIOUS
<1>2. ASSUME NEW i \in 1 .. Len(bl) PROVE AwaitsIn(bl)[bl[i].proc] = bl[i].target
  <2> DEFINE p == bl[i].proc
  <2>1. p \in Pids /\ bl[i] \in E /\ \E e \in E : e.proc = p
    BY <1>1 DEF EntryRecords
  <2>2. \A e \in E : e.proc = p => e = bl[i]
    BY DEF OneEntryEach
  <2>3. (CHOOSE e \in E : e.proc = p) = bl[i]
    BY <2>1, <2>2
  <2>4. AwaitsIn(bl)[p] = IF \E e \in E : e.proc = p THEN (CHOOSE e \in E : e.proc = p).target ELSE 0
    BY <2>1 DEF AwaitsIn
  <2> HIDE DEF E, p
  <2>5. AwaitsIn(bl)[p] = bl[i].target
    BY <2>1, <2>3, <2>4
  <2> QED BY <2>5 DEF p
<1>3. ASSUME NEW p \in Pids, \A i \in 1 .. Len(bl) : bl[i].proc # p PROVE AwaitsIn(bl)[p] = 0
  BY <1>3 DEF AwaitsIn
<1>4. DOMAIN AwaitsIn(bl) = Pids /\ AwaitsIn(bl) = [p \in Pids |-> AwaitsIn(bl)[p]]
  BY DEF AwaitsIn
<1> QED BY <1>2, <1>3, <1>4

(* What the state says of its own entries.                                 *)
LEMMA AwaitsNow ==
  ASSUME IInv
  PROVE  /\ AwaitsIn(blocked_list) = [p \in Pids |-> AwaitsIn(blocked_list)[p]]
         /\ \A i \in 1 .. Len(blocked_list) :
              AwaitsIn(blocked_list)[blocked_list[i].proc] = blocked_list[i].target
         /\ \A p \in Pids : (\A i \in 1 .. Len(blocked_list) : blocked_list[i].proc # p)
                              => AwaitsIn(blocked_list)[p] = 0
<1>1. blocked_list \in Seq(EntryRecords) /\ OneEntryEach(blocked_list)
  BY EntriesAreTyped DEF IInv, EntriesAreBlocked, OneEntryEach
<1> QED BY <1>1, AwaitsInReads

(* The entries of the next state, whose list is bl.                        *)
LEMMA AwaitsNext ==
  ASSUME IInv', NEW bl, blocked_list' = bl
  PROVE  /\ bl \in Seq(EntryRecords) /\ AwaitsIn(bl) = [p \in Pids |-> AwaitsIn(bl)[p]]
         /\ \A i \in 1 .. Len(bl) : AwaitsIn(bl)[bl[i].proc] = bl[i].target
         /\ \A p \in Pids : (\A i \in 1 .. Len(bl) : bl[i].proc # p) => AwaitsIn(bl)[p] = 0
<1>1. bl \in Seq(EntryRecords) /\ OneEntryEach(bl)
  BY DEF IInv, TypeOK, EntryRecords, EntriesAreBlocked, OneEntryEach
<1> QED BY <1>1, AwaitsInReads

(* The four kinds of step, stated of the two readings.                     *)
LEMMA BornStep ==
  ASSUME NEW c \in Pids, NEW p \in Pids, NEW l \in {"alive", "dead"},
         LifeIn(state)[c] = "none", LifeIn(state)[p] = "alive", AwaitsIn(blocked_list)[p] = 0,
         LifeIn(state') = [LifeIn(state) EXCEPT ![c] = l],
         AwaitsIn(blocked_list') = AwaitsIn(blocked_list)
  PROVE  Life!LNext
  BY ZenonT(60) DEF LifeIn, AwaitsIn, Entries, Life!LNext, Life!Born, Life!Active

(* execve starts a process and waits for it in one abstract step.          *)
LEMMA RunStep ==
  ASSUME NEW p \in Pids, NEW c \in Pids,
         LifeIn(state)[c] = "none", LifeIn(state)[p] = "alive", AwaitsIn(blocked_list)[p] = 0,
         LifeIn(state') = [LifeIn(state) EXCEPT ![c] = "alive"],
         AwaitsIn(blocked_list') = [AwaitsIn(blocked_list) EXCEPT ![p] = c]
  PROVE  Life!LNext
  BY ZenonT(60) DEF LifeIn, AwaitsIn, Entries, Life!LNext, Life!Run, Life!Active

(* A wait for a living process is an abstract step.                        *)
LEMMA AwaitStep ==
  ASSUME NEW p \in Pids, NEW c \in Pids,
         LifeIn(state)[c] = "alive", LifeIn(state)[p] = "alive", AwaitsIn(blocked_list)[p] = 0,
         LifeIn(state') = LifeIn(state),
         AwaitsIn(blocked_list') = [AwaitsIn(blocked_list) EXCEPT ![p] = c]
  PROVE  Life!LNext
  BY DEF LifeIn, AwaitsIn, Entries, Life!LNext, Life!Await, Life!Active

(* An exit that releases everybody who waits is an abstract step.          *)
LEMMA ExitStep ==
  ASSUME NEW c \in Pids,
         LifeIn(state)[c] = "alive", AwaitsIn(blocked_list)[c] = 0,
         LifeIn(state') = [LifeIn(state) EXCEPT ![c] = "dead"],
         AwaitsIn(blocked_list') =
           [p \in Pids |-> IF AwaitsIn(blocked_list)[p] = c THEN 0 ELSE AwaitsIn(blocked_list)[p]]
  PROVE  Life!LNext
  BY DEF LifeIn, AwaitsIn, Entries, Life!LNext, Life!Exit, Life!Active

(* What changes neither lives nor waits is no abstract step.               *)
LEMMA NoStep ==
  ASSUME LifeIn(state') = LifeIn(state), AwaitsIn(blocked_list') = AwaitsIn(blocked_list)
  PROVE  UNCHANGED Life!lvars
  BY DEF LifeIn, AwaitsIn, Entries, Life!lvars

(* The process in user mode is active.                                     *)
LEMMA CallerActive ==
  ASSUME IInv, mode = "user"
  PROVE  /\ cpu \in Pids /\ LifeIn(state)[cpu] = "alive" /\ AwaitsIn(blocked_list)[cpu] = 0
         /\ state \in [Pids -> States]
<1>1. cpu \in Pids /\ state[cpu] = "RUNNING" /\ state \in [Pids -> States]
  BY CallerIsAlive
<1>2. AwaitsIn(blocked_list)[cpu] = 0
  BY <1>1, AwaitsNow, CallerHasNoEntry
<1> QED BY <1>1, <1>2 DEF LifeIn

(* A birth, of a ready process or of one that fails at once, is an         *)
(* abstract step.                                                          *)
LEMMA BirthRefines ==
  ASSUME IInv, scall_fork \/ create_orphan \/ create_no_memory
  PROVE  Life!LNext
<1> PICK c \in Pids, r \in {"READY", "ZOMBIE"} :
      c = pid_next /\ state' = [state EXCEPT ![c] = r]
  <2>1. pid_next \in Pids
    BY MultitaskAssumption DEF IInv, TypeOK, Pids, scall_fork, create_orphan, create_no_memory
  <2> QED BY <2>1 DEF scall_fork, create_orphan, create_no_memory
<1>1. mode = "user" /\ blocked_list' = blocked_list
  BY DEF scall_fork, create_orphan, create_no_memory, SystemCall
<1>2. state[c] = "NONE" /\ state \in [Pids -> States]
  BY MultitaskAssumption DEF IInv, TypeOK, PidsInOrder, Pids
<1> DEFINE l == IF r = "READY" THEN "alive" ELSE "dead"
<1>3. LifeIn(state)[c] = "none" /\ LifeIn(state') = [LifeIn(state) EXCEPT ![c] = l] /\ l \in {"alive", "dead"}
  BY <1>2 DEF LifeIn
<1> HIDE DEF l
<1> QED BY <1>1, <1>3, CallerActive, BornStep

(* A pid not given out has no process.                                     *)
LEMMA FreshPid ==
  ASSUME IInv, pid_next <= NPids
  PROVE  pid_next \in Pids /\ state[pid_next] = "NONE"
  BY MultitaskAssumption DEF IInv, TypeOK, PidsInOrder, Pids

(* A caller that is blocked: its entry is the only news of blocked_list.   *)
LEMMA BlockAwaits ==
  ASSUME IInv, IInv', mode = "user", NEW t \in Pids, blocked_list' = block_caller(cpu, t)
  PROVE  AwaitsIn(blocked_list') =
           IF Len(blocked_list) < MaxBlocked
           THEN [AwaitsIn(blocked_list) EXCEPT ![cpu] = t] ELSE AwaitsIn(blocked_list)
<1> DEFINE n == Len(blocked_list)
           e == [proc |-> cpu, target |-> t]
<1>1. CASE ~ (n < MaxBlocked)
  BY <1>1 DEF block_caller
<1>2. CASE n < MaxBlocked
  <2> DEFINE bl == Append(blocked_list, e)
             was == AwaitsIn(blocked_list)
             is == AwaitsIn(bl)
  <2>1. blocked_list' = bl
    BY <1>2 DEF block_caller
  <2>2. blocked_list \in Seq(EntryRecords) /\ n \in Nat /\ cpu \in Pids
    BY EntriesAreTyped DEF IInv, TypeOK
  <2>3. Len(bl) = n + 1 /\ bl[n + 1] = e /\ \A i \in 1 .. n : bl[i] = blocked_list[i]
    BY <2>2
  <2>4. /\ is = [p \in Pids |-> is[p]]
        /\ \A i \in 1 .. Len(bl) : is[bl[i].proc] = bl[i].target
        /\ \A p \in Pids : (\A i \in 1 .. Len(bl) : bl[i].proc # p) => is[p] = 0
    <3> HIDE DEF bl
    <3> QED BY <2>1, AwaitsNext
  <2>5. /\ was = [p \in Pids |-> was[p]]
        /\ \A i \in 1 .. n : was[blocked_list[i].proc] = blocked_list[i].target
        /\ \A p \in Pids : (\A i \in 1 .. n : blocked_list[i].proc # p) => was[p] = 0
    BY AwaitsNow
  <2> HIDE DEF bl, is, was, n
  <2>6. is[cpu] = t
    BY <2>2, <2>3, <2>4
  <2>7. ASSUME NEW p \in Pids, p # cpu PROVE is[p] = was[p]
    <3>1. CASE \E i \in 1 .. n : blocked_list[i].proc = p
      <4> PICK i \in 1 .. n : blocked_list[i].proc = p
        BY <3>1
      <4>1. i \in 1 .. Len(bl) /\ bl[i] = blocked_list[i]
        BY <2>2, <2>3
      <4>2. is[p] = blocked_list[i].target
        BY <4>1, <2>4
      <4>3. was[p] = blocked_list[i].target
        BY <2>5
      <4> QED BY <4>2, <4>3
    <3>2. CASE \A i \in 1 .. n : blocked_list[i].proc # p
      <4>1. \A i \in 1 .. Len(bl) : bl[i].proc # p
        <5> SUFFICES ASSUME NEW i \in 1 .. Len(bl) PROVE bl[i].proc # p
          OBVIOUS
        <5>1. i \in 1 .. n \/ i = n + 1
          BY <2>2, <2>3
        <5> QED BY <2>3, <2>7, <3>2, <5>1
      <4> QED BY <2>4, <2>5, <3>2, <4>1
    <3> QED BY <3>1, <3>2
  <2>8. is = [was EXCEPT ![cpu] = t]
    <3>1. is = [p \in Pids |-> IF p = cpu THEN t ELSE was[p]]
      BY <2>4, <2>6, <2>7
    <3> QED BY <2>2, <2>5, <3>1
  <2> QED BY <1>2, <2>1, <2>8 DEF is, was, n
<1> QED BY <1>1, <1>2

(* execve is an abstract step.                                             *)
LEMMA ExecveRefines ==
  ASSUME IInv, IInv', scall_execve
  PROVE  Life!LNext
<1> PICK c \in Pids : c = pid_next /\ state[c] = "NONE"
  BY FreshPid DEF scall_execve
<1>1. /\ mode = "user" /\ blocked_list' = block_caller(cpu, c)
      /\ state' = [state EXCEPT ![cpu] = "BLOCKED", ![c] = "RUNNING"]
  BY DEF scall_execve, SystemCall
<1>2. /\ cpu \in Pids /\ LifeIn(state)[cpu] = "alive" /\ AwaitsIn(blocked_list)[cpu] = 0
      /\ state \in [Pids -> States] /\ state[cpu] = "RUNNING"
  BY <1>1, CallerActive, CallerIsAlive
<1>3. LifeIn(state)[c] = "none" /\ LifeIn(state') = [LifeIn(state) EXCEPT ![c] = "alive"]
  BY <1>1, <1>2 DEF LifeIn
<1>4. CASE Len(blocked_list) < MaxBlocked
  <2>1. AwaitsIn(blocked_list') = [AwaitsIn(blocked_list) EXCEPT ![cpu] = c]
    BY <1>1, <1>4, BlockAwaits
  <2> QED BY <1>2, <1>3, <2>1, RunStep
<1>5. CASE ~ (Len(blocked_list) < MaxBlocked)
  <2>1. AwaitsIn(blocked_list') = AwaitsIn(blocked_list)
    BY <1>1, <1>5, BlockAwaits
  <2> QED BY <1>2, <1>3, <2>1, BornStep
<1> QED BY <1>4, <1>5

(* What follows when nobody is woken leaves everybody as alive as he was.  *)
LEMMA ResumeKeepsLife ==
  ASSUME IInv, NEW st \in [Pids -> States], NEW tsks \in {tasks, Retire(cpu)}, NEW places, NEW idle,
         resume_first(st, tsks, places, idle),
         \A p \in Pids : state[p] # "NONE" => st[p] # "NONE"
  PROVE  LifeIn(state') = LifeIn(st)
<1>1. /\ Len(tsks) = Len(tasks)
      /\ \A i \in Slots : tsks[i].proc \in Pids /\ tsks[i].proc = tasks[i].proc
  BY TasksAreTyped, RetireInvalidates, SMTT(60) DEF IInv, TypeOK, TaskRecords
<1>2. Len(tsks) \in Nat
  BY <1>1, TasksAreTyped DEF IInv
<1>3. \A i \in Slots : st[tsks[i].proc] # "NONE"
  <2>1. /\ \A i \in Slots : tasks[i].proc < pid_next
        /\ \A p \in Pids : state[p] = "NONE" <=> p >= pid_next
        /\ pid_next \in Nat /\ Pids \in SUBSET Nat
    BY MultitaskAssumption DEF IInv, TypeOK, TableShape, PidsInOrder, Pids
  <2> HIDE DEF Pids
  <2>2. \A i \in Slots : state[tasks[i].proc] # "NONE"
    <3> SUFFICES ASSUME NEW i \in Slots PROVE state[tasks[i].proc] # "NONE"
      OBVIOUS
    <3>1. tasks[i].proc \in Pids /\ tasks[i].proc \in Nat /\ tasks[i].proc < pid_next
      BY <1>1, <2>1
    <3> QED BY <2>1, <3>1
  <2> QED BY <1>1, <2>2
<1>4. \/ state' = st
      \/ \E i \in 1 .. Len(tsks) :
           st[tsks[i].proc] # "ZOMBIE" /\ state' = [st EXCEPT ![tsks[i].proc] = "RUNNING"]
  BY <1>2, ResumeFirstResumes
<1>5. CASE state' = st
  BY <1>5
<1>6. ASSUME NEW i \in 1 .. Len(tsks), st[tsks[i].proc] # "ZOMBIE",
             state' = [st EXCEPT ![tsks[i].proc] = "RUNNING"]
      PROVE  LifeIn(state') = LifeIn(st)
  <2>1. tsks[i].proc \in Pids /\ st[tsks[i].proc] \notin {"NONE", "ZOMBIE"}
    BY <1>1, <1>3, <1>6 DEF Slots
  <2> QED BY <1>6, <2>1 DEF LifeIn
<1> QED BY <1>4, <1>5, <1>6

(* waitpid is an abstract step, or none if its entry finds no room.        *)
LEMMA WaitpidRefines ==
  ASSUME IInv, IInv', NEW t \in Pids, scall_waitpid(t)
  PROVE  Life!LNext \/ UNCHANGED Life!lvars
<1> DEFINE st == [state EXCEPT ![cpu] = "BLOCKED"]
<1>1. mode = "user" /\ blocked_list' = block_caller(cpu, t) /\ state[t] \notin {"NONE", "ZOMBIE"}
  BY DEF scall_waitpid, SystemCall
<1>2. /\ cpu \in Pids /\ LifeIn(state)[cpu] = "alive" /\ AwaitsIn(blocked_list)[cpu] = 0
      /\ state \in [Pids -> States] /\ state[cpu] = "RUNNING"
  BY <1>1, CallerActive, CallerIsAlive
<1>3. st \in [Pids -> States] /\ LifeIn(st) = LifeIn(state)
      /\ \A p \in Pids : state[p] # "NONE" => st[p] # "NONE"
  BY <1>2 DEF LifeIn, States
<1>4. resume_first(st, tasks, [cont EXCEPT ![cpu] = PlaceOfBlocked], 0)
  BY DEF scall_waitpid
<1> HIDE DEF st
<1>5. LifeIn(state') = LifeIn(state)
  BY <1>3, <1>4, ResumeKeepsLife
<1>6. LifeIn(state)[t] = "alive"
  BY <1>1 DEF LifeIn
<1>7. CASE Len(blocked_list) < MaxBlocked
  <2>1. AwaitsIn(blocked_list') = [AwaitsIn(blocked_list) EXCEPT ![cpu] = t]
    BY <1>1, <1>7, BlockAwaits
  <2> QED BY <1>2, <1>5, <1>6, <2>1, AwaitStep
<1>8. CASE ~ (Len(blocked_list) < MaxBlocked)
  <2>1. AwaitsIn(blocked_list') = AwaitsIn(blocked_list)
    BY <1>1, <1>8, BlockAwaits
  <2> QED BY <1>5, <2>1, NoStep
<1> QED BY <1>7, <1>8

(* An exit nobody waits for is an abstract exit.                           *)
LEMMA ExitNoWaiterRefines ==
  ASSUME IInv, exit_no_waiter
  PROVE  Life!LNext
<1> DEFINE st == [state EXCEPT ![cpu] = "ZOMBIE"]
<1>1. mode = "user" /\ blocked_list' = blocked_list /\ WaitersFor(cpu) = {}
  BY DEF exit_no_waiter, SystemCall
<1>2. /\ cpu \in Pids /\ LifeIn(state)[cpu] = "alive" /\ AwaitsIn(blocked_list)[cpu] = 0
      /\ state \in [Pids -> States] /\ state[cpu] = "RUNNING"
  BY <1>1, CallerActive, CallerIsAlive
<1>3. st \in [Pids -> States] /\ LifeIn(st) = [LifeIn(state) EXCEPT ![cpu] = "dead"]
      /\ \A p \in Pids : state[p] # "NONE" => st[p] # "NONE"
  BY <1>2 DEF LifeIn, States
<1>4. resume_first(st, Retire(cpu), [cont EXCEPT ![cpu] = "none"], proc_curr)
  BY DEF exit_no_waiter
<1> HIDE DEF st
<1>5. LifeIn(state') = [LifeIn(state) EXCEPT ![cpu] = "dead"]
  BY <1>3, <1>4, ResumeKeepsLife
<1> DEFINE was == AwaitsIn(blocked_list)
<1>6. was = [p \in Pids |-> was[p]] /\ \A p \in Pids : was[p] # cpu
  <2>1. /\ was = [p \in Pids |-> was[p]]
        /\ \A i \in 1 .. Len(blocked_list) : was[blocked_list[i].proc] = blocked_list[i].target
        /\ \A p \in Pids : (\A i \in 1 .. Len(blocked_list) : blocked_list[i].proc # p) => was[p] = 0
    BY AwaitsNow
  <2>2. \A i \in 1 .. Len(blocked_list) : blocked_list[i].target # cpu
    BY <1>1 DEF WaitersFor
  <2>3. cpu # 0
    BY <1>2 DEF Pids
  <2> HIDE DEF was
  <2> QED BY <2>1, <2>2, <2>3
<1>7. AwaitsIn(blocked_list') = [p \in Pids |-> IF was[p] = cpu THEN 0 ELSE was[p]]
  <2>1. AwaitsIn(blocked_list') = was
    BY <1>1
  <2> HIDE DEF was
  <2> QED BY <1>6, <2>1
<1> QED BY <1>2, <1>5, <1>7, ExitStep

(* An exit that wakes: nobody else waits for the process (TargetsLive), so *)
(* the one entry removed was the only one to remove.                       *)
LEMMA ExitToWaiterRefines ==
  ASSUME WInv, IInv', ~ WaitAnyPid, exit_to_waiter
  PROVE  Life!LNext
<1>1. IInv /\ mode = "user"
  BY DEF WInv, exit_to_waiter, SystemCall
<1>2. /\ cpu \in Pids /\ LifeIn(state)[cpu] = "alive" /\ AwaitsIn(blocked_list)[cpu] = 0
      /\ state \in [Pids -> States] /\ state[cpu] = "RUNNING"
  BY <1>1, CallerActive, CallerIsAlive
<1>3. PICK k \in 1 .. Len(blocked_list) :
        /\ blocked_list[k].target = cpu
        /\ blocked_list' = SwapRemove(blocked_list, k)
        /\ state' = [state EXCEPT ![cpu] = "ZOMBIE", ![blocked_list[k].proc] = "RUNNING"]
        /\ cpu' = blocked_list[k].proc
  BY ExitToWaiterStep
<1> DEFINE n == Len(blocked_list)
           bl == SwapRemove(blocked_list, k)
           parent == blocked_list[k].proc
           was == AwaitsIn(blocked_list)
           is == AwaitsIn(bl)
<1>4. /\ blocked_list \in Seq(EntryRecords) /\ n \in Nat
      /\ \A i \in 1 .. n : blocked_list[i].proc \in Pids /\ blocked_list[i].target \in Pids
  BY <1>1, EntriesAreTyped DEF IInv
<1>5. state[parent] = "BLOCKED" /\ parent \in Pids
      /\ \A i, j \in 1 .. n : blocked_list[i].proc = blocked_list[j].proc => i = j
  BY <1>1, <1>4 DEF IInv, EntriesAreBlocked, Entries
<1>6. \A i \in 1 .. n : blocked_list[i].target = cpu => i = k
  BY <1>3 DEF WInv, TargetsLive
<1>7. LifeIn(state') = [LifeIn(state) EXCEPT ![cpu] = "dead"]
  BY <1>2, <1>3, <1>5 DEF LifeIn
<1>8. Len(bl) = n - 1 /\ \A i \in 1 .. Len(bl) : bl[i] = blocked_list[IF i = k THEN n ELSE i]
  BY <1>4, SwapRemoveKeepsOthers
<1>9. /\ is = [p \in Pids |-> is[p]]
      /\ \A i \in 1 .. Len(bl) : is[bl[i].proc] = bl[i].target
      /\ \A p \in Pids : (\A i \in 1 .. Len(bl) : bl[i].proc # p) => is[p] = 0
  <2> HIDE DEF bl
  <2> QED BY <1>3, AwaitsNext DEF bl
<1>10. /\ was = [p \in Pids |-> was[p]]
       /\ \A i \in 1 .. n : was[blocked_list[i].proc] = blocked_list[i].target
       /\ \A p \in Pids : (\A i \in 1 .. n : blocked_list[i].proc # p) => was[p] = 0
  BY <1>1, AwaitsNow
<1>11. cpu # 0
  BY <1>2 DEF Pids
<1> HIDE DEF n, bl, parent, was, is
<1>12. \A i \in 1 .. Len(bl) : \E j \in 1 .. n : j # k /\ bl[i] = blocked_list[j]
  <2> SUFFICES ASSUME NEW i \in 1 .. Len(bl) PROVE \E j \in 1 .. n : j # k /\ bl[i] = blocked_list[j]
    OBVIOUS
  <2>1. k \in 1 .. n
    BY DEF n
  <2>2. CASE i = k
    BY <1>4, <1>8, <2>1, <2>2
  <2>3. CASE i # k
    BY <1>4, <1>8, <2>1, <2>3
  <2> QED BY <2>2, <2>3
<1>13. \A j \in 1 .. n : j # k => \E i \in 1 .. Len(bl) : bl[i] = blocked_list[j]
  <2> SUFFICES ASSUME NEW j \in 1 .. n, j # k PROVE \E i \in 1 .. Len(bl) : bl[i] = blocked_list[j]
    OBVIOUS
  <2>1. k \in 1 .. n
    BY DEF n
  <2>2. CASE j = n
    <3>1. k \in 1 .. Len(bl)
      BY <1>4, <1>8, <2>1, <2>2
    <3> QED BY <1>8, <2>2, <3>1
  <2>3. CASE j # n
    <3>1. j \in 1 .. Len(bl)
      BY <1>4, <1>8, <2>3
    <3> QED BY <1>8, <3>1
  <2> QED BY <2>2, <2>3
<1>14. is[parent] = 0 /\ was[parent] = cpu
  <2>1. \A i \in 1 .. Len(bl) : bl[i].proc # parent
    BY <1>5, <1>12 DEF parent, n
  <2>2. was[parent] = cpu
    BY <1>3, <1>10 DEF parent, n
  <2> QED BY <1>5, <1>9, <2>1, <2>2
<1>15. ASSUME NEW p \in Pids, p # parent PROVE is[p] = was[p] /\ was[p] # cpu
  <2>1. CASE \E j \in 1 .. n : blocked_list[j].proc = p
    <3> PICK j \in 1 .. n : blocked_list[j].proc = p
      BY <2>1
    <3>1. j # k
      BY <1>15 DEF parent
    <3>2. PICK i \in 1 .. Len(bl) : bl[i] = blocked_list[j]
      BY <1>13, <3>1
    <3>3. is[p] = blocked_list[j].target /\ was[p] = blocked_list[j].target
      BY <1>9, <1>10, <3>2
    <3> QED BY <1>6, <3>1, <3>3
  <2>2. CASE \A j \in 1 .. n : blocked_list[j].proc # p
    <3>1. \A i \in 1 .. Len(bl) : bl[i].proc # p
      BY <1>12, <2>2
    <3> QED BY <1>9, <1>10, <1>11, <2>2, <3>1
  <2> QED BY <2>1, <2>2
<1>16. is = [p \in Pids |-> IF was[p] = cpu THEN 0 ELSE was[p]]
  <2>1. \A p \in Pids : is[p] = IF was[p] = cpu THEN 0 ELSE was[p]
    BY <1>14, <1>15
  <2> QED BY <1>9, <2>1
<1>17. AwaitsIn(blocked_list') =
         [p \in Pids |-> IF AwaitsIn(blocked_list)[p] = cpu THEN 0 ELSE AwaitsIn(blocked_list)[p]]
  BY <1>3, <1>16 DEF is, was, bl
<1> QED BY <1>2, <1>7, <1>17, ExitStep

(* The timer changes who runs, neither lives nor waits.                    *)
LEMMA TimerRefines ==
  ASSUME IInv, timer_handler \/ UNCHANGED vars
  PROVE  UNCHANGED Life!lvars
<1>1. /\ blocked_list' = blocked_list
      /\ state' = state \/ mt_preempt_switch
  BY DEF timer_handler, timer_tick, mt_preempt, mt_preempt_same, mt_preempt_switch, vars
<1>2. CASE state' = state
  BY <1>1, <1>2, NoStep
<1>3. CASE mt_preempt_switch
  <2>1. \A p \in Pids : /\ state'[p] = "ZOMBIE" <=> state[p] = "ZOMBIE"
                        /\ state'[p] = "NONE" <=> state[p] = "NONE"
    BY <1>3, PreemptSwitchStep
  <2>2. LifeIn(state') = LifeIn(state)
    BY <2>1 DEF LifeIn
  <2> QED BY <1>1, <2>2, NoStep
<1> QED BY <1>1, <1>2, <1>3

(* At first one process lives and nobody waits.                            *)
LEMMA InitLife == Init => Life!LInit
<1> SUFFICES ASSUME Init PROVE Life!LInit
  OBVIOUS
<1>1. 1 \in Pids
  BY MultitaskAssumption DEF Pids
<1>2. LifeIn(state) = [q \in Pids |-> IF q = 1 THEN "alive" ELSE "none"]
  BY <1>1 DEF Init, LifeIn
<1>3. AwaitsIn(blocked_list) = [q \in Pids |-> 0]
  BY DEF Init, AwaitsIn
<1> QED BY <1>1, <1>2, <1>3 DEF LifeIn, AwaitsIn, Entries, Life!LInit

(* While programs wait only for children fork gave them, whatever the      *)
(* limits: the kernel's processes live, wait and die as ProcessLife says.  *)
(* An exit in particular releases everybody that waits for it, although    *)
(* the code wakes the first entry it finds only (syscalls.c:181-200).      *)
THEOREM MultitaskImplementsProcessLife ==
  ASSUME ~ WaitAnyPid
  PROVE  Spec => ImplementsProcessLife
<1>1. ASSUME WInv, WInv', [Next]_vars PROVE [Life!LNext]_(Life!lvars)
  <2>1. IInv /\ IInv'
    BY <1>1 DEF WInv
  <2>2. ASSUME NEW t \in Pids, scall_waitpid(t) PROVE Life!LNext \/ UNCHANGED Life!lvars
    BY <2>1, <2>2, WaitpidRefines
  <2>3. CASE scall_fork \/ create_orphan \/ create_no_memory
    BY <2>1, <2>3, BirthRefines
  <2>4. CASE scall_execve
    BY <2>1, <2>4, ExecveRefines
  <2>5. CASE scall_exit
    BY <1>1, <2>1, <2>5, ExitToWaiterRefines, ExitNoWaiterRefines DEF scall_exit
  <2>6. CASE timer_handler \/ UNCHANGED vars
    BY <2>1, <2>6, TimerRefines
  <2> QED BY <1>1, <2>2, <2>3, <2>4, <2>5, <2>6 DEF Next
<1>2. WInv /\ WInv' /\ [Next]_vars => [Life!LNext]_(Life!lvars)
  BY <1>1
<1> QED BY <1>2, InvariantWInv, InitLife, PTL DEF Spec, ImplementsProcessLife, Life!LSpec

(* "Switching the CPU to it before that event fires corrupts its context"  *)
(* (scheduler.c:88-90): by the four system calls and the timer, and with   *)
(* any waits, whoever has an entry in blocked_list gets the processor only *)
(* by the exit it waits for.                                               *)
THEOREM MultitaskBlockedOnlyWokenByExit == Spec => BlockedOnlyWokenByExit
<1>1. ASSUME IInv, [Next]_vars, NEW e \in Entries, cpu' = e.proc, cpu # e.proc
      PROVE  state[cpu] # "ZOMBIE" /\ state'[cpu] = "ZOMBIE" /\ e.target = cpu
  <2>1. PICK j \in 1 .. Len(blocked_list) : e = blocked_list[j]
    BY DEF Entries
  <2>2. /\ e.proc \in Pids /\ state[e.proc] = "BLOCKED" /\ state \in [Pids -> States]
        /\ \A i \in 1 .. Len(blocked_list) : blocked_list[i].proc = e.proc => i = j
    BY <1>1, <2>1, EntriesAreTyped DEF IInv, TypeOK, EntriesAreBlocked
  <2>3. ASSUME NEW t \in Pids, scall_waitpid(t) PROVE FALSE
    <3> DEFINE st == [state EXCEPT ![cpu] = "BLOCKED"]
    <3>1. /\ st \in [Pids -> States] /\ st[e.proc] = "BLOCKED"
          /\ resume_first(st, tasks, [cont EXCEPT ![cpu] = PlaceOfBlocked], 0)
          /\ Len(tasks) \in Nat
      BY <1>1, <2>2, <2>3, TasksAreTyped DEF scall_waitpid, SystemCall, States, IInv
    <3> HIDE DEF st
    <3> QED BY <1>1, <3>1, ResumeFirstResumes
  <2>4. ASSUME exit_no_waiter PROVE FALSE
    <3> DEFINE st == [state EXCEPT ![cpu] = "ZOMBIE"]
    <3>1. /\ st[e.proc] = "BLOCKED"
          /\ resume_first(st, Retire(cpu), [cont EXCEPT ![cpu] = "none"], proc_curr)
          /\ Len(Retire(cpu)) \in Nat
      BY <1>1, <2>2, <2>4, TasksAreTyped, RetireInvalidates DEF exit_no_waiter, SystemCall, IInv, TypeOK
    <3> HIDE DEF st
    <3> QED BY <1>1, <3>1, ResumeFirstResumes
  <2>5. CASE exit_to_waiter
    <3>1. PICK k \in 1 .. Len(blocked_list) :
            /\ blocked_list[k].target = cpu /\ cpu' = blocked_list[k].proc
            /\ state' = [state EXCEPT ![cpu] = "ZOMBIE", ![blocked_list[k].proc] = "RUNNING"]
      BY <2>5, ExitToWaiterStep
    <3>2. k = j
      BY <1>1, <2>2, <3>1
    <3>3. cpu \in Pids /\ state[cpu] = "RUNNING"
      BY <1>1, <2>5, CallerIsAlive DEF exit_to_waiter, SystemCall
    <3> QED BY <1>1, <2>1, <2>2, <3>1, <3>2, <3>3
  <2>6. ASSUME scall_execve PROVE FALSE
    BY <1>1, <2>2, <2>6, FreshPid DEF scall_execve
  <2>7. ASSUME mt_preempt_switch PROVE FALSE
    <3> DEFINE new == scheduler_pick_next(current_idx)
    <3>1. current_idx \in 0 .. Len(tasks) /\ Len(tasks) > 0 /\ Len(tasks) \in Nat /\ TypeOK
      BY <1>1, TasksAreTyped DEF IInv, TypeOK, TableShape
    <3>2. new # 0 /\ cpu' = tasks[new].proc
      BY <2>7 DEF mt_preempt_switch
    <3>3. state[tasks[new].proc] # "BLOCKED"
      BY <3>1, <3>2, PickNextIsReady
    <3> HIDE DEF new
    <3> QED BY <1>1, <2>2, <3>2, <3>3
  <2>8. ASSUME cpu' = cpu PROVE FALSE
    BY <1>1, <2>8
  <2> QED BY <1>1, <2>3, <2>4, <2>5, <2>6, <2>7, <2>8
          DEF Next, scall_fork, create_orphan, create_no_memory, scall_exit,
              timer_handler, timer_tick, mt_preempt, mt_preempt_same, vars
<1>2. IInv /\ [Next]_vars =>
        [\A e \in Entries : cpu' = e.proc /\ cpu # e.proc =>
           /\ state[cpu] # "ZOMBIE" /\ state'[cpu] = "ZOMBIE"
           /\ e.target = cpu]_vars
  BY <1>1
<1> QED BY <1>2, InvariantIInv, PTL DEF Spec, BlockedOnlyWokenByExit

-----------------------------------------------------------------------------
(* Retire marks a slot invalid and keeps the types.                        *)
LEMMA RetireTyped ==
  ASSUME TypeOK, NEW p \in Pids
  PROVE  Retire(p) \in Seq(TaskRecords) /\ Len(Retire(p)) = Len(tasks)
<1>1. Len(tasks) \in Nat /\ \A i \in Slots : tasks[i] \in TaskRecords
  BY TasksAreTyped
<1>2. Retire(p) \in [Slots -> TaskRecords]
  BY <1>1 DEF Retire, Slots, TaskRecords
<1> HIDE DEF TaskRecords
<1> QED BY <1>1, <1>2 DEF Slots

(* IInv does not survive the messages: a send makes its receiver READY     *)
(* while its entry is in blocked_list.  What it needs of the processes is  *)
(* less, and inductive by itself.                                          *)
LEMMA ResumeTypes ==
  ASSUME TypeOK, NEW st \in [Pids -> States], NEW tsks \in Seq(TaskRecords), Len(tsks) = Len(tasks),
         NEW places \in [Pids -> Places], NEW idle \in 0 .. NPids,
         resume_first(st, tsks, places, idle)
  PROVE  /\ state' \in [Pids -> States] /\ cont' \in [Pids -> Places]
         /\ cpu' \in Pids /\ proc_curr' \in 0 .. NPids
         /\ current_idx' \in 0 .. Len(tasks) /\ mode' \in {"user", "halt", "spin"}
<1>1. /\ Len(tsks) \in Nat /\ \A i \in 1 .. Len(tsks) : tsks[i].proc \in Pids
  <2>1. Len(tsks) \in Nat /\ \A i \in 1 .. Len(tsks) : tsks[i] \in TaskRecords
    <3> HIDE DEF TaskRecords
    <3> QED OBVIOUS
  <2> QED BY <2>1 DEF TaskRecords
<1>2. cpu \in Pids /\ current_idx \in 0 .. Len(tasks) /\ mode \in {"user", "halt", "spin"}
      /\ Pids \subseteq 0 .. NPids
  BY MultitaskAssumption DEF TypeOK, Pids
<1>3. CASE \E i \in 1 .. Len(tsks) :
              /\ state' = [st EXCEPT ![tsks[i].proc] = "RUNNING"]
              /\ cont' = [places EXCEPT ![tsks[i].proc] = "cpu"]
              /\ current_idx' = i /\ cpu' = tsks[i].proc /\ proc_curr' = tsks[i].proc
              /\ mode' = mode
  <2> PICK i \in 1 .. Len(tsks) :
         /\ state' = [st EXCEPT ![tsks[i].proc] = "RUNNING"]
         /\ cont' = [places EXCEPT ![tsks[i].proc] = "cpu"]
         /\ current_idx' = i /\ cpu' = tsks[i].proc /\ proc_curr' = tsks[i].proc
         /\ mode' = mode
    BY <1>3
  <2> DEFINE p == tsks[i].proc
  <2>1. p \in Pids
    BY <1>1
  <2>2. state' = [st EXCEPT ![p] = "RUNNING"] /\ cont' = [places EXCEPT ![p] = "cpu"]
        /\ current_idx' = i /\ cpu' = p /\ proc_curr' = p /\ mode' = mode
    OBVIOUS
  <2> HIDE DEF p
  <2>3. state' \in [Pids -> States] /\ cont' \in [Pids -> Places]
    BY <2>1, <2>2 DEF States, Places
  <2>4. current_idx' \in 0 .. Len(tasks)
    BY <1>1, <2>2
  <2>5. cpu' \in Pids /\ proc_curr' \in 0 .. NPids /\ mode' \in {"user", "halt", "spin"}
    BY <1>2, <2>1, <2>2
  <2> QED BY <2>3, <2>4, <2>5
<1>4. CASE /\ state' = st /\ cont' = places /\ proc_curr' = idle /\ mode' = "halt"
           /\ current_idx' = current_idx /\ cpu' = cpu
  BY <1>2, <1>4
<1> QED BY <1>1, <1>3, <1>4, ResumeFirstResumes

(* Every step of the scheduler keeps its types.                            *)
LEMMA ProcessTypes ==
  ASSUME TypeOK, Next
  PROVE  TypeOK'
<1>1. /\ state \in [Pids -> States] /\ cont \in [Pids -> Places] /\ kids \in [Pids -> SUBSET Pids]
      /\ pid_next \in 1 .. (NPids + 1) /\ cpu \in Pids /\ proc_curr \in 0 .. NPids
      /\ tasks \in Seq(TaskRecords) /\ Len(tasks) \in Nat /\ Len(tasks) <= MaxTasks
      /\ current_idx \in 0 .. Len(tasks) /\ ticks \in 0 .. Quantum
      /\ blocked_list \in Seq(EntryRecords) /\ Len(blocked_list) <= MaxBlocked
      /\ mode \in {"user", "halt", "spin"} /\ Quantum \in Nat \ {0}
      /\ NPids \in Nat \ {0} /\ Pids \subseteq 0 .. NPids
      /\ \A i \in Slots : tasks[i] \in TaskRecords /\ tasks[i].proc \in Pids
  <2>1. /\ state \in [Pids -> States] /\ cont \in [Pids -> Places] /\ kids \in [Pids -> SUBSET Pids]
        /\ pid_next \in 1 .. (NPids + 1) /\ cpu \in Pids /\ proc_curr \in 0 .. NPids
        /\ Len(tasks) <= MaxTasks /\ current_idx \in 0 .. Len(tasks) /\ ticks \in 0 .. Quantum
        /\ Len(blocked_list) <= MaxBlocked /\ mode \in {"user", "halt", "spin"}
    BY DEF TypeOK
  <2>2. Quantum \in Nat \ {0} /\ NPids \in Nat \ {0} /\ Pids \subseteq 0 .. NPids
    BY QuantumIsPositive, MultitaskAssumption DEF Pids
  <2>3. /\ tasks \in Seq(TaskRecords) /\ Len(tasks) \in Nat
        /\ \A i \in Slots : tasks[i] \in TaskRecords
    BY TasksAreTyped
  <2>4. \A i \in Slots : tasks[i].proc \in Pids
    BY <2>3 DEF TaskRecords
  <2>5. blocked_list \in Seq(EntryRecords)
    BY EntriesAreTyped
  <2> HIDE DEF TaskRecords, EntryRecords
  <2> QED BY <2>1, <2>2, <2>3, <2>4, <2>5
<1>2. SUFFICES /\ state' \in [Pids -> States] /\ cont' \in [Pids -> Places]
               /\ kids' \in [Pids -> SUBSET Pids]
               /\ pid_next' \in 1 .. (NPids + 1) /\ cpu' \in Pids /\ proc_curr' \in 0 .. NPids
               /\ tasks' \in Seq(TaskRecords) /\ Len(tasks') <= MaxTasks
               /\ current_idx' \in 0 .. Len(tasks') /\ ticks' \in 0 .. Quantum
               /\ blocked_list' \in Seq(EntryRecords) /\ Len(blocked_list') <= MaxBlocked
               /\ mode' \in {"user", "halt", "spin"}
  BY DEF TypeOK, TaskRecords, EntryRecords
<1> HIDE DEF TaskRecords, EntryRecords
<1>3. ASSUME NEW n \in Pids, pid_next = n
      PROVE  /\ pid_next + 1 \in 1 .. (NPids + 1)
             /\ mt_add_task(n) \in Seq(TaskRecords) /\ Len(mt_add_task(n)) <= MaxTasks
             /\ Len(mt_add_task(n)) \in Nat /\ Len(tasks) <= Len(mt_add_task(n))
  <2>1. pid_next + 1 \in 1 .. (NPids + 1)
    BY <1>1, <1>3 DEF Pids
  <2>2. /\ mt_add_task(n) \in Seq(TaskRecords) /\ Len(mt_add_task(n)) <= MaxTasks
        /\ Len(mt_add_task(n)) = IF Len(tasks) < MaxTasks THEN Len(tasks) + 1 ELSE Len(tasks)
    BY <1>3, AddTaskAppends
  <2> QED BY <1>1, <2>1, <2>2
<1>4. CASE scall_fork
  <2>1. PICK n \in Pids : pid_next = n
    BY <1>1, <1>4 DEF scall_fork, Pids
  <2>2. /\ state' = [state EXCEPT ![n] = "READY"] /\ tasks' = mt_add_task(n)
        /\ cont' = [cont EXCEPT ![n] = "call"] /\ kids' = [kids EXCEPT ![cpu] = @ \cup {n}]
        /\ pid_next' = pid_next + 1
        /\ UNCHANGED <<current_idx, ticks, blocked_list, proc_curr, cpu, mode>>
    BY <1>4, <2>1 DEF scall_fork
  <2>3. current_idx \in 0 .. Len(mt_add_task(n))
    BY <1>1, <1>3, <2>1
  <2> QED BY <1>1, <1>3, <2>1, <2>2, <2>3 DEF States, Places
<1>5. CASE create_orphan \/ create_no_memory
  <2>1. PICK n \in Pids : pid_next = n
    BY <1>1, <1>5 DEF create_orphan, create_no_memory, Pids
  <2> QED BY <1>1, <1>3, <1>5, <2>1 DEF create_orphan, create_no_memory, States
<1>6. CASE scall_execve
  <2>1. PICK n \in Pids : pid_next = n
    BY <1>1, <1>6 DEF scall_execve, Pids
  <2>2. /\ state' = [state EXCEPT ![cpu] = "BLOCKED", ![n] = "RUNNING"]
        /\ cont' = [cont EXCEPT ![cpu] = PlaceOfBlocked, ![n] = "cpu"]
        /\ pid_next' = pid_next + 1 /\ tasks' = mt_add_task(n)
        /\ blocked_list' = block_caller(cpu, n)
        /\ current_idx' = IndexOf(mt_add_task(n), n, current_idx)
        /\ cpu' = n /\ proc_curr' = n /\ UNCHANGED <<ticks, mode, kids>>
    BY <1>6, <2>1 DEF scall_execve
  <2>3. current_idx' \in 0 .. Len(mt_add_task(n))
    <3>1. Len(mt_add_task(n)) \in Nat /\ current_idx \in 0 .. Len(mt_add_task(n))
      BY <1>1, <1>3, <2>1
    <3> QED BY <2>2, <3>1, IndexOfIsSlot
  <2>4. PlaceOfBlocked \in Places
    BY DEF PlaceOfBlocked, Places
  <2>5. block_caller(cpu, n) \in Seq(EntryRecords) /\ Len(block_caller(cpu, n)) <= MaxBlocked
    BY <1>1, BlockCallerAppends
  <2> QED BY <1>1, <1>3, <2>1, <2>2, <2>3, <2>4, <2>5 DEF States, Places
<1>7. ASSUME NEW t \in Pids, scall_waitpid(t)
      PROVE  /\ state' \in [Pids -> States] /\ cont' \in [Pids -> Places]
             /\ cpu' \in Pids /\ proc_curr' \in 0 .. NPids
             /\ current_idx' \in 0 .. Len(tasks) /\ mode' \in {"user", "halt", "spin"}
             /\ blocked_list' \in Seq(EntryRecords) /\ Len(blocked_list') <= MaxBlocked
             /\ UNCHANGED <<pid_next, tasks, ticks, kids>>
  <2> DEFINE st == [state EXCEPT ![cpu] = "BLOCKED"]
             pl == [cont EXCEPT ![cpu] = PlaceOfBlocked]
  <2>1. st \in [Pids -> States] /\ pl \in [Pids -> Places] /\ 0 \in 0 .. NPids
    BY <1>1 DEF States, Places, PlaceOfBlocked
  <2>2. resume_first(st, tasks, pl, 0) /\ blocked_list' = block_caller(cpu, t)
        /\ UNCHANGED <<pid_next, tasks, ticks, kids>>
    BY <1>7 DEF scall_waitpid
  <2>3. block_caller(cpu, t) \in Seq(EntryRecords) /\ Len(block_caller(cpu, t)) <= MaxBlocked
    BY <1>1, BlockCallerAppends
  <2> HIDE DEF st, pl
  <2> QED BY <1>1, <2>1, <2>2, <2>3, ResumeTypes
<1>8. CASE exit_no_waiter
  <2> DEFINE st == [state EXCEPT ![cpu] = "ZOMBIE"]
             pl == [cont EXCEPT ![cpu] = "none"]
  <2>1. st \in [Pids -> States] /\ pl \in [Pids -> Places]
    BY <1>1 DEF States, Places
  <2>2. resume_first(st, Retire(cpu), pl, proc_curr) /\ tasks' = Retire(cpu)
        /\ UNCHANGED <<pid_next, ticks, blocked_list, kids>>
    BY <1>8 DEF exit_no_waiter
  <2>3. Retire(cpu) \in Seq(TaskRecords) /\ Len(Retire(cpu)) = Len(tasks)
    BY <1>1, RetireTyped
  <2> HIDE DEF st, pl
  <2>4. /\ state' \in [Pids -> States] /\ cont' \in [Pids -> Places]
        /\ cpu' \in Pids /\ proc_curr' \in 0 .. NPids
        /\ current_idx' \in 0 .. Len(tasks) /\ mode' \in {"user", "halt", "spin"}
    BY <1>1, <2>1, <2>2, <2>3, ResumeTypes
  <2> QED BY <1>1, <2>2, <2>3, <2>4
<1>9. CASE exit_to_waiter
  <2>1. PICK k \in 1 .. Len(blocked_list) :
          /\ blocked_list' = SwapRemove(blocked_list, k)
          /\ state' = [state EXCEPT ![cpu] = "ZOMBIE", ![blocked_list[k].proc] = "RUNNING"]
          /\ cont' = [cont EXCEPT ![cpu] = "none", ![blocked_list[k].proc] = "cpu"]
          /\ current_idx' = IndexOf(tasks, blocked_list[k].proc, current_idx)
          /\ cpu' = blocked_list[k].proc /\ proc_curr' = blocked_list[k].proc
    <3>1. WaitersFor(cpu) \in SUBSET Nat /\ WaitersFor(cpu) # {}
      BY <1>9 DEF WaitersFor, exit_to_waiter
    <3>2. \E k \in WaitersFor(cpu) : \A j \in WaitersFor(cpu) : k <= j
      BY <3>1, MinExists
    <3> DEFINE k == CHOOSE i \in WaitersFor(cpu) : \A j \in WaitersFor(cpu) : i <= j
    <3>3. k \in WaitersFor(cpu)
      BY <3>2, Zenon
    <3>4. k \in 1 .. Len(blocked_list)
      BY <3>3 DEF WaitersFor
    <3> QED BY <1>9, <3>4 DEF exit_to_waiter
  <2>2. tasks' = Retire(cpu) /\ UNCHANGED <<pid_next, ticks, mode, kids>>
    BY <1>9 DEF exit_to_waiter
  <2>3. Retire(cpu) \in Seq(TaskRecords) /\ Len(Retire(cpu)) = Len(tasks)
    BY <1>1, RetireTyped
  <2>4. blocked_list[k].proc \in Pids /\ Len(blocked_list) \in Nat
    BY EntriesAreTyped
  <2>5. SwapRemove(blocked_list, k) \in Seq(EntryRecords)
        /\ Len(SwapRemove(blocked_list, k)) = Len(blocked_list) - 1
    BY <1>1, SwapRemoveKeepsOthers
  <2>6. Len(blocked_list') <= MaxBlocked /\ blocked_list' \in Seq(EntryRecords)
    BY <1>1, <2>1, <2>4, <2>5, MultitaskAssumption
  <2>7. current_idx' \in 0 .. Len(tasks)
    BY <1>1, <2>1, IndexOfIsSlot
  <2> QED BY <1>1, <2>1, <2>2, <2>3, <2>4, <2>6, <2>7 DEF States, Places
<1>10. CASE mt_preempt_switch
  <2> DEFINE new == scheduler_pick_next(current_idx)
  <2>1. Len(tasks) > 0
    BY <1>1, <1>10 DEF mt_preempt_switch
  <2>2. new \in Slots /\ tasks[new].proc \in Pids
    BY <1>1, <1>10, <2>1, PickNextIsReady DEF mt_preempt_switch
  <2> HIDE DEF new
  <2>3. current_idx # 0 => current_idx \in Slots /\ tasks[current_idx].proc \in Pids
                           /\ tasks[current_idx] \in TaskRecords
    BY <1>1 DEF Slots
  <2>4. /\ current_idx' = new /\ cpu' = tasks[new].proc /\ proc_curr' = tasks[new].proc
        /\ ticks' = 0 /\ UNCHANGED <<pid_next, blocked_list, mode, kids>>
    BY <1>10 DEF mt_preempt_switch, new
  <2>5. state' \in [Pids -> States]
    <3>1. PICK st : /\ state' = [st EXCEPT ![tasks[new].proc] = "RUNNING"]
                    /\ \/ st = state
                       \/ current_idx # 0 /\ st = [state EXCEPT ![tasks[current_idx].proc] = "READY"]
      BY <1>10 DEF mt_preempt_switch, new
    <3>2. st \in [Pids -> States]
      BY <1>1, <2>3, <3>1 DEF States
    <3> QED BY <2>2, <3>1, <3>2 DEF States
  <2>6. cont' \in [Pids -> Places]
    <3>1. PICK out : /\ cont' = [out EXCEPT ![tasks[new].proc] = "cpu"]
                     /\ \/ out = [cont EXCEPT ![cpu] = "trap"]
                        \/ current_idx # 0 /\ out = [cont EXCEPT ![cpu] = "lost", ![tasks[current_idx].proc] = "lost"]
                        \/ out = [cont EXCEPT ![cpu] = "lost"]
      BY <1>10 DEF mt_preempt_switch, new
    <3>2. out \in [Pids -> Places]
      BY <1>1, <2>3, <3>1 DEF Places
    <3> QED BY <2>2, <3>1, <3>2 DEF Places
  <2>7. tasks' \in Seq(TaskRecords) /\ Len(tasks') = Len(tasks)
    <3>1. tasks' = tasks \/ (current_idx # 0 /\ tasks' = [tasks EXCEPT ![current_idx].saved = TRUE])
      BY <1>10 DEF mt_preempt_switch
    <3>2. CASE tasks' = tasks
      BY <1>1, <3>2
    <3>3. CASE current_idx # 0 /\ tasks' = [tasks EXCEPT ![current_idx].saved = TRUE]
      <4> DEFINE rec == [tasks[current_idx] EXCEPT !.saved = TRUE]
      <4>1. rec \in TaskRecords
        BY <2>3, <3>3 DEF TaskRecords
      <4>2. tasks' = [tasks EXCEPT ![current_idx] = rec]
        BY <3>3
      <4> HIDE DEF rec
      <4>3. tasks \in [1 .. Len(tasks) -> TaskRecords]
        BY <1>1
      <4>4. current_idx \in 1 .. Len(tasks)
        BY <2>3, <3>3 DEF Slots
      <4>5. tasks' \in [1 .. Len(tasks) -> TaskRecords]
        BY <4>1, <4>2, <4>3, <4>4
      <4> QED BY <1>1, <4>5
    <3> QED BY <3>1, <3>2, <3>3
  <2>8. current_idx' \in 0 .. Len(tasks') /\ Len(tasks') <= MaxTasks
    BY <1>1, <2>2, <2>4, <2>7 DEF Slots
  <2>9. cpu' \in Pids /\ proc_curr' \in 0 .. NPids /\ ticks' \in 0 .. Quantum
    <3>1. Pids \subseteq 0 .. NPids /\ 0 \in 0 .. Quantum
      BY <1>1
    <3> QED BY <2>2, <2>4, <3>1
  <2> QED BY <1>1, <2>4, <2>5, <2>6, <2>7, <2>8, <2>9
<1>11. CASE timer_tick \/ mt_preempt_same
  <2>1. ticks' \in 0 .. Quantum
    BY <1>1, <1>11, SMTT(60) DEF timer_tick, mt_preempt_same, QuantumExpired
  <2> QED BY <1>1, <1>11, <2>1 DEF timer_tick, mt_preempt_same
<1>12. ASSUME NEW t \in Pids, scall_waitpid(t)
       PROVE  /\ state' \in [Pids -> States] /\ cont' \in [Pids -> Places]
              /\ kids' \in [Pids -> SUBSET Pids]
              /\ pid_next' \in 1 .. (NPids + 1) /\ cpu' \in Pids /\ proc_curr' \in 0 .. NPids
              /\ tasks' \in Seq(TaskRecords) /\ Len(tasks') <= MaxTasks
              /\ current_idx' \in 0 .. Len(tasks') /\ ticks' \in 0 .. Quantum
              /\ blocked_list' \in Seq(EntryRecords) /\ Len(blocked_list') <= MaxBlocked
              /\ mode' \in {"user", "halt", "spin"}
  BY <1>1, <1>7, <1>12
<1> QED BY <1>4, <1>5, <1>6, <1>8, <1>9, <1>10, <1>11, <1>12
        DEF Next, scall_exit, timer_handler, mt_preempt

-----------------------------------------------------------------------------
EpRecords == [is_open : BOOLEAN, exists : BOOLEAN,
              messages : Seq(1 .. MaxSends), waiters : Seq(Pids)]

(* What is kept of the inbox e of a process that received message d last,  *)
(* when message n is the next: only an inbox that exists is open or holds  *)
(* messages, and what it holds was sent after d, in order, before n.       *)
Kept(e, d, n) ==
  /\ e \in EpRecords /\ d \in 0 .. MaxSends /\ d < n
  /\ Len(e.messages) <= IPC_MAX_MESSAGES /\ Len(e.waiters) <= IPC_MAX_WAITERS
  /\ e.is_open => e.exists
  /\ ~ e.exists => e.messages = <<>>
  /\ \A i \in 1 .. Len(e.messages) : d < e.messages[i] /\ e.messages[i] < n
  /\ \A i, j \in 1 .. Len(e.messages) : i < j => e.messages[i] < e.messages[j]

IpcInv ==
  /\ TypeOK
  /\ endpoints \in [Pids -> EpRecords]
  /\ delivered \in [Pids -> 0 .. MaxSends]
  /\ next_msg \in 1 .. (MaxSends + 1)
  /\ allocated \subseteq 1 .. MaxSends
  /\ \A p \in Pids : Kept(endpoints[p], delivered[p], next_msg)
  /\ \A p \in Pids : endpoints[p].exists => InRange(p)
  /\ MessagesAccounted

(* The invariant implies the property.                                     *)
LEMMA IpcInvKeeps == IpcInv => InboxesKept
<1> SUFFICES ASSUME IpcInv PROVE InboxesKept
  OBVIOUS
<1>1. IpcTypeOK
  BY DEF IpcInv, IpcTypeOK, EpRecords, Kept
<1>2. FifoDelivery
  BY DEF IpcInv, FifoDelivery, Kept
<1> QED BY <1>1, <1>2 DEF IpcInv, InboxesKept

(* What is kept of an inbox bounds it, and bounds its messages from below  *)
(* and from above.                                                         *)
LEMMA KeptBounds ==
  ASSUME NEW e, NEW d, NEW n, Kept(e, d, n)
  PROVE  /\ d \in 0 .. MaxSends /\ d < n
         /\ Len(e.messages) <= IPC_MAX_MESSAGES /\ Len(e.waiters) <= IPC_MAX_WAITERS
         /\ e.is_open => e.exists
         /\ \A i \in 1 .. Len(e.messages) : d < e.messages[i] /\ e.messages[i] < n
         /\ \A i, j \in 1 .. Len(e.messages) : i < j => e.messages[i] < e.messages[j]
  BY DEF Kept

(* The parts of an inbox.                                                  *)
LEMMA QueueTyped ==
  ASSUME NEW e \in EpRecords
  PROVE  /\ e.messages \in Seq(1 .. MaxSends) /\ Len(e.messages) \in Nat
         /\ \A i \in 1 .. Len(e.messages) : e.messages[i] \in 1 .. MaxSends /\ e.messages[i] \in Nat
         /\ e.waiters \in Seq(Pids) /\ Len(e.waiters) \in Nat
         /\ e.is_open \in BOOLEAN /\ e.exists \in BOOLEAN
         /\ e = [is_open |-> e.is_open, exists |-> e.exists,
                 messages |-> e.messages, waiters |-> e.waiters]
<1>1. e.messages \in Seq(1 .. MaxSends) /\ e.waiters \in Seq(Pids)
      /\ e.is_open \in BOOLEAN /\ e.exists \in BOOLEAN
      /\ e = [is_open |-> e.is_open, exists |-> e.exists,
              messages |-> e.messages, waiters |-> e.waiters]
  BY DEF EpRecords
<1> DEFINE q == e.messages
           S == 1 .. MaxSends
<1>2. q \in Seq(S)
  BY <1>1
<1>3. Len(q) \in Nat /\ \A i \in 1 .. Len(q) : q[i] \in S
  <2> HIDE DEF q, S
  <2> QED BY <1>2
<1> HIDE DEF q
<1>4. \A i \in 1 .. Len(q) : q[i] \in Nat
  BY <1>3
<1>5. Len(e.waiters) \in Nat
  BY <1>1
<1> QED BY <1>1, <1>3, <1>4, <1>5 DEF q

(* No inbox exists at first.                                               *)
LEMMA InitIpcInv == IpcInit => IpcInv
<1> SUFFICES ASSUME IpcInit PROVE IpcInv
  OBVIOUS
<1>1. TypeOK
  BY InitIInv DEF IpcInit, IInv
<1>2. NoInbox \in EpRecords /\ NoInbox.messages = <<>> /\ NoInbox.waiters = <<>>
      /\ NoInbox.exists = FALSE /\ NoInbox.is_open = FALSE
  BY DEF NoInbox, EpRecords
<1>3. MaxSends \in Nat /\ IPC_MAX_MESSAGES \in Nat /\ IPC_MAX_WAITERS \in Nat
  BY MessagesAssumption
<1>4. Kept(NoInbox, 0, 1)
  BY <1>2, <1>3 DEF Kept
<1>5. \A p \in Pids : endpoints[p] = NoInbox /\ delivered[p] = 0
  BY DEF IpcInit
<1>6. MessagesAccounted
  <2>1. \A p \in Pids : Elements(endpoints[p].messages) = {}
    BY <1>2, <1>5 DEF Elements
  <2> QED BY <2>1 DEF MessagesAccounted, IpcInit
<1>7. endpoints \in [Pids -> EpRecords] /\ delivered \in [Pids -> 0 .. MaxSends]
      /\ next_msg = 1 /\ allocated = {}
  <2> HIDE DEF NoInbox, EpRecords
  <2> QED BY <1>2, <1>3 DEF IpcInit
<1>8. \A p \in Pids : Kept(endpoints[p], delivered[p], next_msg) /\ ~ endpoints[p].exists
  BY <1>2, <1>4, <1>5, <1>7
<1> QED BY <1>1, <1>3, <1>6, <1>7, <1>8 DEF IpcInv

(* A step that changes one inbox, and allocates and frees what enters and  *)
(* leaves it.                                                              *)
LEMMA OneInboxStep ==
  ASSUME IpcInv, TypeOK', NEW c \in Pids, NEW e, NEW d, NEW n \in {next_msg, next_msg + 1},
         n <= MaxSends + 1,
         endpoints' = [endpoints EXCEPT ![c] = e], delivered' = [delivered EXCEPT ![c] = d],
         next_msg' = n, Kept(e, d, n), e.exists => InRange(c),
         \A x \in Elements(e.messages) : x \in Elements(endpoints[c].messages) \/ x = next_msg,
         allocated' = (allocated \ Elements(endpoints[c].messages)) \cup Elements(e.messages)
  PROVE  IpcInv'
<1>1. /\ endpoints \in [Pids -> EpRecords] /\ delivered \in [Pids -> 0 .. MaxSends]
      /\ next_msg \in 1 .. (MaxSends + 1) /\ MaxSends \in Nat /\ allocated \subseteq 1 .. MaxSends
      /\ \A p \in Pids : Kept(endpoints[p], delivered[p], next_msg)
      /\ \A p \in Pids : endpoints[p].exists => InRange(p)
  BY MessagesAssumption DEF IpcInv
<1>2. e \in EpRecords /\ d \in 0 .. MaxSends
  BY DEF Kept
<1>3. /\ endpoints' \in [Pids -> EpRecords] /\ endpoints'[c] = e
      /\ \A p \in Pids : p # c => endpoints'[p] = endpoints[p]
      /\ delivered' \in [Pids -> 0 .. MaxSends] /\ delivered'[c] = d
      /\ \A p \in Pids : p # c => delivered'[p] = delivered[p]
  <2> HIDE DEF EpRecords
  <2> QED BY <1>1, <1>2
<1>4. next_msg' \in 1 .. (MaxSends + 1) /\ next_msg <= n
  BY <1>1
<1>5. ASSUME NEW p \in Pids PROVE Kept(endpoints'[p], delivered'[p], next_msg')
  <2>1. CASE p = c
    BY <1>3, <2>1
  <2>2. CASE p # c
    <3> DEFINE f == endpoints[p]
               b == delivered[p]
    <3>1. Kept(f, b, next_msg) /\ f \in EpRecords /\ b \in 0 .. MaxSends
      BY <1>1
    <3>2. \A i \in 1 .. Len(f.messages) : f.messages[i] \in Nat
      BY <3>1, QueueTyped
    <3> HIDE DEF f, b
    <3>3. b < n /\ \A i \in 1 .. Len(f.messages) : f.messages[i] < n
      BY <1>1, <1>4, <3>1, <3>2, SMTT(60) DEF Kept
    <3>4. Kept(f, b, n)
      BY <3>1, <3>3 DEF Kept
    <3> QED BY <1>3, <2>2, <3>4 DEF f, b
  <2> QED BY <2>1, <2>2
<1>6. \A p \in Pids : endpoints'[p].exists => InRange(p)
  BY <1>1, <1>3
<1>7. \A p \in Pids : next_msg \notin Elements(endpoints[p].messages)
  BY <1>1 DEF Kept, Elements
<1>8. /\ allocated = UNION {Elements(endpoints[p].messages) : p \in Pids}
      /\ \A p, q \in Pids : p # q =>
           Elements(endpoints[p].messages) \cap Elements(endpoints[q].messages) = {}
  BY DEF IpcInv, MessagesAccounted
<1>9. MessagesAccounted'
  <2> DEFINE el(p) == Elements(endpoints[p].messages)
             new(p) == IF p = c THEN Elements(e.messages) ELSE el(p)
  <2>1. \A p \in Pids : Elements(endpoints'[p].messages) = new(p)
    BY <1>3
  <2>2. allocated' = (allocated \ el(c)) \cup Elements(e.messages)
    OBVIOUS
  <2>3. /\ allocated = UNION {el(p) : p \in Pids}
        /\ \A p, q \in Pids : p # q => el(p) \cap el(q) = {}
        /\ \A p \in Pids : next_msg \notin el(p)
        /\ \A x \in Elements(e.messages) : x \in el(c) \/ x = next_msg
    BY <1>7, <1>8
  <2> HIDE DEF el
  <2>4. allocated' = UNION {new(p) : p \in Pids}
    <3>1. ASSUME NEW x \in allocated' PROVE \E p \in Pids : x \in new(p)
      BY <2>2, <2>3, <3>1
    <3>2. ASSUME NEW p \in Pids, NEW x \in new(p) PROVE x \in allocated'
      BY <2>2, <2>3, <3>2
    <3> HIDE DEF new
    <3> QED BY <3>1, <3>2
  <2>5. \A p, q \in Pids : p # q => new(p) \cap new(q) = {}
    BY <2>3
  <2> HIDE DEF new
  <2>6. \A p, q \in Pids : p # q =>
          Elements(endpoints'[p].messages) \cap Elements(endpoints'[q].messages) = {}
    BY <2>1, <2>5
  <2>7. allocated' = UNION {Elements(endpoints'[p].messages) : p \in Pids}
    BY <2>1, <2>4
  <2> QED BY <2>6, <2>7 DEF MessagesAccounted
<1>10. allocated' \subseteq 1 .. MaxSends
  <2>1. Elements(e.messages) \subseteq 1 .. MaxSends
    BY <1>2, QueueTyped DEF Elements
  <2> QED BY <1>1, <2>1
<1> QED BY <1>3, <1>4, <1>5, <1>6, <1>9, <1>10 DEF IpcInv

(* States the messages may write.                                          *)
LEMMA StateTypes ==
  ASSUME TypeOK, UNCHANGED <<pid_next, tasks, current_idx, ticks, blocked_list, proc_curr,
                             cpu, cont, kids>>,
         state' \in [Pids -> States], mode' \in {"user", "halt", "spin"}
  PROVE  TypeOK'
  BY DEF TypeOK

(* Waking those who wait gives every process a state.                      *)
LEMMA WakeTyped ==
  ASSUME TypeOK, NEW ep
  PROVE  wake_waiters(ep) \in [Pids -> States]
  BY DEF TypeOK, wake_waiters, States

(* What the invariant says of the caller and of its inbox.                 *)
LEMMA CpuKept ==
  ASSUME IpcInv
  PROVE  /\ cpu \in Pids /\ endpoints[cpu] \in EpRecords /\ TypeOK
         /\ Kept(endpoints[cpu], delivered[cpu], next_msg)
         /\ next_msg \in 1 .. (MaxSends + 1) /\ MaxSends \in Nat
         /\ delivered = [delivered EXCEPT ![cpu] = delivered[cpu]]
         /\ mode \in {"user", "halt", "spin"}
         /\ Elements(endpoints[cpu].messages) \subseteq allocated
<1>1. cpu \in Pids /\ endpoints[cpu] \in EpRecords /\ TypeOK
      /\ Kept(endpoints[cpu], delivered[cpu], next_msg)
      /\ next_msg \in 1 .. (MaxSends + 1) /\ MaxSends \in Nat
      /\ mode \in {"user", "halt", "spin"} /\ delivered \in [Pids -> 0 .. MaxSends]
  BY MessagesAssumption DEF IpcInv, TypeOK
<1>2. delivered = [delivered EXCEPT ![cpu] = delivered[cpu]]
  BY <1>1
<1>3. Elements(endpoints[cpu].messages) \subseteq allocated
  BY <1>1 DEF IpcInv, MessagesAccounted
<1> QED BY <1>1, <1>2, <1>3

(* Taking the oldest message; sending behind the newest.                   *)
LEMMA TailOfInbox ==
  ASSUME NEW q \in Seq(Nat), q # <<>>, \A i, j \in 1 .. Len(q) : i < j => q[i] < q[j]
  PROVE  /\ Len(Tail(q)) = Len(q) - 1
         /\ \A i, j \in 1 .. Len(Tail(q)) : i < j => Tail(q)[i] < Tail(q)[j]
         /\ \A i \in 1 .. Len(Tail(q)) : Head(q) < Tail(q)[i]
         /\ Elements(Tail(q)) = Elements(q) \ {Head(q)} /\ Head(q) \in Elements(q)
<1>1. Len(q) \in Nat \ {0} /\ \A i \in 1 .. Len(q) : q[i] \in Nat
  OBVIOUS
<1>2. Len(Tail(q)) = Len(q) - 1 /\ Head(q) = q[1] /\ \A i \in 1 .. Len(q) - 1 : Tail(q)[i] = q[i + 1]
  OBVIOUS
<1> DEFINE t == Tail(q)
           h == Head(q)
<1>3. Len(t) = Len(q) - 1 /\ h = q[1] /\ \A i \in 1 .. Len(t) : t[i] = q[i + 1]
  BY <1>2
<1> HIDE DEF t, h
<1>4. ASSUME NEW i \in 1 .. Len(t) PROVE h < t[i] /\ i + 1 \in 1 .. Len(q)
  <2>1. 1 \in 1 .. Len(q) /\ i + 1 \in 1 .. Len(q) /\ 1 < i + 1
    BY <1>1, <1>3
  <2>2. q[1] < q[i + 1]
    BY <2>1
  <2> QED BY <1>3, <2>1, <2>2
<1>5. ASSUME NEW i \in 1 .. Len(t), NEW j \in 1 .. Len(t), i < j PROVE t[i] < t[j]
  <2>1. i + 1 \in 1 .. Len(q) /\ j + 1 \in 1 .. Len(q) /\ i + 1 < j + 1
    BY <1>4, <1>5
  <2>2. q[i + 1] < q[j + 1]
    BY <2>1
  <2> QED BY <1>3, <2>2
<1>6. Elements(t) = Elements(q) \ {h}
  <2>1. ASSUME NEW i \in 1 .. Len(t) PROVE t[i] \in Elements(q) /\ t[i] # h
    <3>1. i + 1 \in 1 .. Len(q) /\ t[i] = q[i + 1] /\ h < t[i] /\ q[i + 1] \in Nat /\ h \in Nat
      BY <1>1, <1>3, <1>4
    <3> QED BY <3>1 DEF Elements
  <2>2. ASSUME NEW i \in 1 .. Len(q), q[i] # h PROVE q[i] \in Elements(t)
    <3>1. i - 1 \in 1 .. Len(t) /\ t[i - 1] = q[i]
      BY <1>1, <1>3, <2>2
    <3> QED BY <3>1 DEF Elements
  <2> QED BY <2>1, <2>2 DEF Elements
<1>7. h \in Elements(q)
  BY <1>1, <1>3 DEF Elements
<1> QED BY <1>3, <1>4, <1>5, <1>6, <1>7 DEF t, h

(* A queue that ascends still does with a larger message at its end.       *)
LEMMA AppendToInbox ==
  ASSUME NEW q \in Seq(Nat), NEW m \in Nat, \A i \in 1 .. Len(q) : q[i] < m,
         \A i, j \in 1 .. Len(q) : i < j => q[i] < q[j]
  PROVE  /\ Len(Append(q, m)) = Len(q) + 1
         /\ \A i, j \in 1 .. Len(Append(q, m)) : i < j => Append(q, m)[i] < Append(q, m)[j]
         /\ \A i \in 1 .. Len(Append(q, m)) :
              Append(q, m)[i] = m \/ \E k \in 1 .. Len(q) : Append(q, m)[i] = q[k]
         /\ Elements(Append(q, m)) = Elements(q) \cup {m}
<1> DEFINE a == Append(q, m)
<1>1. Len(q) \in Nat /\ \A i \in 1 .. Len(q) : q[i] \in Nat
  OBVIOUS
<1>2. Len(a) = Len(q) + 1 /\ a[Len(q) + 1] = m /\ \A i \in 1 .. Len(q) : a[i] = q[i]
  OBVIOUS
<1> HIDE DEF a
<1>3. \A i \in 1 .. Len(a) : (i \in 1 .. Len(q) /\ a[i] = q[i]) \/ (i = Len(q) + 1 /\ a[i] = m)
  BY <1>1, <1>2
<1>4. \A i, j \in 1 .. Len(a) : i < j => a[i] < a[j]
  BY <1>1, <1>2, <1>3
<1>5. Elements(a) = Elements(q) \cup {m}
  <2>1. Len(q) + 1 \in 1 .. Len(a) /\ \A i \in 1 .. Len(q) : i \in 1 .. Len(a)
    BY <1>1, <1>2
  <2> QED BY <1>2, <1>3, <2>1 DEF Elements
<1> QED BY <1>2, <1>3, <1>4, <1>5 DEF a

(* Opening an inbox, new or again, keeps the invariant.                    *)
LEMMA OpenIpcInv == ASSUME IpcInv, scall_mq_open PROVE IpcInv'
<1> DEFINE e == IF endpoints[cpu].exists THEN [endpoints[cpu] EXCEPT !.is_open = TRUE] ELSE Inbox
           o == endpoints[cpu]
<1>1. /\ cpu \in Pids /\ o \in EpRecords /\ TypeOK /\ Kept(o, delivered[cpu], next_msg)
      /\ next_msg \in 1 .. (MaxSends + 1) /\ MaxSends \in Nat
      /\ delivered = [delivered EXCEPT ![cpu] = delivered[cpu]]
      /\ Elements(o.messages) \subseteq allocated
  BY CpuKept
<1>2. /\ InRange(cpu) /\ endpoints' = [endpoints EXCEPT ![cpu] = e]
      /\ UNCHANGED <<vars, next_msg, delivered, allocated>>
  BY DEF scall_mq_open
<1>3. e \in EpRecords /\ e.exists /\ e.messages = o.messages
      /\ (e.waiters = o.waiters \/ e.waiters = <<>>)
  <2> HIDE DEF o
  <2>1. CASE o.exists
    <3>1. e = [o EXCEPT !.is_open = TRUE]
      BY <2>1 DEF o
    <3> HIDE DEF e
    <3> QED BY <1>1, <2>1, <3>1 DEF EpRecords
  <2>2. CASE ~ o.exists
    <3>1. e = Inbox /\ o.messages = <<>>
      BY <1>1, <2>2 DEF Kept, o
    <3>2. Inbox \in EpRecords /\ Inbox.exists /\ Inbox.messages = <<>> /\ Inbox.waiters = <<>>
      BY DEF Inbox, EpRecords
    <3> HIDE DEF e, Inbox
    <3> QED BY <3>1, <3>2
  <2> QED BY <2>1, <2>2
<1> HIDE DEF e, o
<1>4. Kept(e, delivered[cpu], next_msg)
  BY <1>1, <1>3, MessagesAssumption DEF Kept
<1>5. TypeOK'
  BY <1>1, <1>2 DEF vars, TypeOK
<1>6. allocated' = (allocated \ Elements(o.messages)) \cup Elements(e.messages)
  BY <1>1, <1>2, <1>3
<1>7. /\ \A x \in Elements(e.messages) : x \in Elements(endpoints[cpu].messages) \/ x = next_msg
      /\ allocated' = (allocated \ Elements(endpoints[cpu].messages)) \cup Elements(e.messages)
  BY <1>3, <1>6 DEF o
<1>8. delivered' = [delivered EXCEPT ![cpu] = delivered[cpu]] /\ next_msg' = next_msg
      /\ next_msg <= MaxSends + 1 /\ (e.exists => InRange(cpu))
  BY <1>1, <1>2
<1> QED BY <1>1, <1>2, <1>4, <1>5, <1>7, <1>8, OneInboxStep

(* Removing an inbox with what is in it keeps the invariant.               *)
LEMMA UnlinkIpcInv == ASSUME IpcInv, scall_mq_unlink PROVE IpcInv'
<1> DEFINE e == NoInbox
           o == endpoints[cpu]
<1>1. /\ cpu \in Pids /\ TypeOK /\ Kept(o, delivered[cpu], next_msg)
      /\ next_msg \in 1 .. (MaxSends + 1) /\ MaxSends \in Nat
      /\ delivered = [delivered EXCEPT ![cpu] = delivered[cpu]]
      /\ mode \in {"user", "halt", "spin"}
  BY CpuKept
<1>2. /\ endpoints' = [endpoints EXCEPT ![cpu] = e] /\ state' = wake_waiters(o)
      /\ allocated' = allocated \ Elements(o.messages)
      /\ UNCHANGED <<pid_next, tasks, current_idx, ticks, blocked_list, proc_curr,
                     cpu, mode, cont, kids, next_msg, delivered>>
  BY DEF scall_mq_unlink, FreedBy
<1>3. e \in EpRecords /\ ~ e.exists /\ ~ e.is_open /\ e.messages = <<>> /\ e.waiters = <<>>
  BY DEF NoInbox, EpRecords
<1> HIDE DEF e, o
<1>4. Kept(e, delivered[cpu], next_msg) /\ Elements(e.messages) = {}
  BY <1>1, <1>3, MessagesAssumption DEF Kept, Elements
<1>5. TypeOK'
  BY <1>1, <1>2, WakeTyped, StateTypes
<1>6. /\ \A x \in Elements(e.messages) : x \in Elements(endpoints[cpu].messages) \/ x = next_msg
      /\ allocated' = (allocated \ Elements(endpoints[cpu].messages)) \cup Elements(e.messages)
  BY <1>2, <1>4 DEF o
<1>7. delivered' = [delivered EXCEPT ![cpu] = delivered[cpu]] /\ next_msg' = next_msg
      /\ next_msg <= MaxSends + 1 /\ (e.exists => InRange(cpu))
  BY <1>1, <1>2, <1>3
<1> QED BY <1>1, <1>2, <1>4, <1>5, <1>6, <1>7, OneInboxStep

(* Queueing a message keeps the invariant.                                 *)
LEMMA SendIpcInv == ASSUME IpcInv, NEW r \in Pids, send_msg(r) PROVE IpcInv'
<1> DEFINE o == endpoints[r]
           q == o.messages
           e == [o EXCEPT !.messages = Append(q, next_msg)]
<1>1. /\ o \in EpRecords /\ TypeOK /\ Kept(o, delivered[r], next_msg)
      /\ next_msg \in 1 .. (MaxSends + 1) /\ MaxSends \in Nat
      /\ delivered = [delivered EXCEPT ![r] = delivered[r]]
      /\ Elements(q) \subseteq allocated /\ delivered[r] \in 0 .. MaxSends
      /\ o.exists => InRange(r)
      /\ state \in [Pids -> States] /\ mode \in {"user", "halt", "spin"}
  BY MessagesAssumption DEF IpcInv, MessagesAccounted, TypeOK
<1>2. /\ next_msg <= MaxSends /\ Len(q) < IPC_MAX_MESSAGES /\ o.is_open
      /\ endpoints' = [endpoints EXCEPT ![r] = e]
      /\ allocated' = allocated \cup {next_msg} /\ next_msg' = next_msg + 1
      /\ state' = IF state[r] = "BLOCKED" THEN [state EXCEPT ![r] = "READY"] ELSE state
      /\ UNCHANGED <<pid_next, tasks, current_idx, ticks, blocked_list, proc_curr,
                     cpu, mode, cont, kids, delivered>>
  BY DEF send_msg, HasRoom
<1>3. q \in Seq(1 .. MaxSends) /\ q \in Seq(Nat) /\ Len(q) \in Nat
      /\ \A i \in 1 .. Len(q) : q[i] \in Nat
  <2>1. q \in Seq(1 .. MaxSends) /\ Len(q) \in Nat /\ \A i \in 1 .. Len(q) : q[i] \in Nat
    BY <1>1, QueueTyped
  <2> HIDE DEF q
  <2>2. q \in Seq(Nat)
    BY <2>1
  <2> QED BY <2>1, <2>2
<1> DEFINE a == Append(q, next_msg)
<1>4. /\ Len(a) = Len(q) + 1 /\ a \in Seq(1 .. MaxSends)
      /\ \A i, j \in 1 .. Len(a) : i < j => a[i] < a[j]
      /\ \A i \in 1 .. Len(a) : a[i] = next_msg \/ \E k \in 1 .. Len(q) : a[i] = q[k]
      /\ Elements(a) = Elements(q) \cup {next_msg}
  <2>1. next_msg \in Nat /\ next_msg \in 1 .. MaxSends
    BY <1>1, <1>2
  <2>2. /\ \A i \in 1 .. Len(q) : q[i] < next_msg
        /\ \A i, j \in 1 .. Len(q) : i < j => q[i] < q[j]
    BY <1>1 DEF Kept
  <2> HIDE DEF q
  <2>3. a \in Seq(1 .. MaxSends)
    <3> DEFINE S == 1 .. MaxSends
    <3>1. q \in Seq(S) /\ next_msg \in S
      BY <1>3, <2>1
    <3> HIDE DEF S
    <3>2. a \in Seq(S)
      BY <3>1
    <3> QED BY <3>2 DEF S
  <2> QED BY <1>3, <2>1, <2>2, <2>3, AppendToInbox
<1> HIDE DEF a
<1>5. e \in EpRecords /\ e.messages = a /\ e.waiters = o.waiters /\ e.is_open = o.is_open
      /\ e.exists = o.exists
  <2> HIDE DEF q
  <2>1. e = [o EXCEPT !.messages = a] /\ o \in EpRecords
    BY <1>1 DEF a
  <2>2. a \in Seq(1 .. MaxSends)
    BY <1>4
  <2> HIDE DEF e, o
  <2> QED BY <2>1, <2>2, SMTT(30) DEF EpRecords
<1>6. Kept(e, delivered[r], next_msg + 1)
  <2>1. /\ e \in EpRecords /\ delivered[r] \in 0 .. MaxSends /\ delivered[r] < next_msg + 1
        /\ Len(e.messages) <= IPC_MAX_MESSAGES /\ Len(e.waiters) <= IPC_MAX_WAITERS
        /\ e.is_open /\ e.exists
    <3>1. Kept(o, delivered[r], next_msg) /\ o.is_open
      BY <1>1, <1>2
    <3>2. Len(q) < IPC_MAX_MESSAGES /\ Len(q) \in Nat /\ Len(a) = Len(q) + 1
          /\ next_msg \in Nat
      BY <1>1, <1>2, <1>3, <1>4
    <3> HIDE DEF q, e, o
    <3>3. /\ delivered[r] \in 0 .. MaxSends /\ delivered[r] < next_msg
          /\ Len(o.waiters) <= IPC_MAX_WAITERS /\ o.exists
      BY <3>1, KeptBounds
    <3>4. Len(a) <= IPC_MAX_MESSAGES /\ delivered[r] < next_msg + 1
      BY <3>2, <3>3, MessagesAssumption
    <3> QED BY <1>5, <3>1, <3>3, <3>4
  <2>2. ASSUME NEW i \in 1 .. Len(a) PROVE delivered[r] < a[i] /\ a[i] < next_msg + 1
    <3>1. next_msg \in Nat /\ delivered[r] \in Nat /\ delivered[r] < next_msg
          /\ \A k \in 1 .. Len(q) : q[k] \in Nat /\ delivered[r] < q[k] /\ q[k] < next_msg
      <4>1. Kept(o, delivered[r], next_msg) /\ next_msg \in Nat
        BY <1>1
      <4> HIDE DEF o
      <4> QED BY <1>3, <4>1, KeptBounds DEF q
    <3> HIDE DEF q
    <3>2. CASE a[i] = next_msg
      BY <3>1, <3>2
    <3>3. CASE \E k \in 1 .. Len(q) : a[i] = q[k]
      BY <3>1, <3>3
    <3> QED BY <1>4, <3>2, <3>3
  <2> QED BY <1>4, <1>5, <2>1, <2>2 DEF Kept
<1>7. TypeOK'
  <2>1. state' \in [Pids -> States]
    BY <1>1, <1>2 DEF States
  <2> QED BY <1>1, <1>2, <2>1, StateTypes
<1>8. /\ allocated' = (allocated \ Elements(q)) \cup Elements(e.messages)
      /\ \A x \in Elements(e.messages) : x \in Elements(q) \/ x = next_msg
  BY <1>1, <1>2, <1>4, <1>5
<1>9. next_msg + 1 <= MaxSends + 1
  BY <1>1, <1>2
<1> HIDE DEF e
<1> QED BY <1>1, <1>2, <1>5, <1>6, <1>7, <1>8, <1>9, OneInboxStep

(* Finding an inbox full keeps the invariant.                              *)
LEMMA SendFullIpcInv == ASSUME IpcInv, NEW r \in Pids, send_msg_full(r) PROVE IpcInv'
<1> DEFINE o == endpoints[r]
           e == IF Len(o.waiters) < IPC_MAX_WAITERS THEN [o EXCEPT !.waiters = Append(@, cpu)] ELSE o
<1>1. /\ endpoints \in [Pids -> EpRecords]
      /\ o \in EpRecords /\ TypeOK /\ Kept(o, delivered[r], next_msg) /\ cpu \in Pids
      /\ next_msg \in 1 .. (MaxSends + 1) /\ MaxSends \in Nat
      /\ delivered = [delivered EXCEPT ![r] = delivered[r]]
      /\ Elements(o.messages) \subseteq allocated
      /\ o.exists => InRange(r)
      /\ state \in [Pids -> States]
  BY MessagesAssumption DEF IpcInv, MessagesAccounted, TypeOK
<1>2. /\ endpoints' = IF Len(o.waiters) < IPC_MAX_WAITERS
                      THEN [endpoints EXCEPT ![r].waiters = Append(@, cpu)] ELSE endpoints
      /\ state' = [state EXCEPT ![cpu] = "BLOCKED"] /\ mode' = "spin"
      /\ UNCHANGED <<pid_next, tasks, current_idx, ticks, blocked_list, proc_curr,
                     cpu, cont, kids, next_msg, delivered, allocated>>
  BY DEF send_msg_full
<1>3. endpoints' = [endpoints EXCEPT ![r] = e]
  <2>1. CASE Len(o.waiters) < IPC_MAX_WAITERS
    BY <1>2, <2>1
  <2>2. CASE ~ (Len(o.waiters) < IPC_MAX_WAITERS)
    BY <1>1, <1>2, <2>2
  <2> QED BY <2>1, <2>2
<1>4. /\ e \in EpRecords /\ e.messages = o.messages /\ e.is_open = o.is_open /\ e.exists = o.exists
      /\ Len(e.waiters) <= IPC_MAX_WAITERS
  <2>1. CASE Len(o.waiters) < IPC_MAX_WAITERS
    <3> DEFINE w == Append(o.waiters, cpu)
    <3>1. w \in Seq(Pids) /\ Len(w) = Len(o.waiters) + 1 /\ Len(o.waiters) \in Nat
      BY <1>1, QueueTyped
    <3> HIDE DEF w
    <3>2. e = [o EXCEPT !.waiters = w]
      BY <2>1 DEF w
    <3>3. e \in EpRecords /\ e.messages = o.messages /\ e.is_open = o.is_open
          /\ e.exists = o.exists /\ e.waiters = w
      BY <1>1, <3>1, <3>2 DEF EpRecords
    <3> QED BY <2>1, <3>1, <3>3, MessagesAssumption
  <2>2. CASE ~ (Len(o.waiters) < IPC_MAX_WAITERS)
    BY <1>1, <2>2 DEF Kept
  <2> QED BY <2>1, <2>2
<1> HIDE DEF e
<1>5. Kept(e, delivered[r], next_msg)
  BY <1>1, <1>4 DEF Kept
<1>6. TypeOK'
  <2>1. state' \in [Pids -> States]
    BY <1>1, <1>2 DEF States
  <2> QED BY <1>1, <1>2, <2>1, StateTypes
<1>7. allocated' = (allocated \ Elements(o.messages)) \cup Elements(e.messages)
  BY <1>1, <1>2, <1>4
<1>8. /\ next_msg <= MaxSends + 1 /\ (e.exists => InRange(r))
      /\ delivered' = [delivered EXCEPT ![r] = delivered[r]] /\ next_msg' = next_msg
  BY <1>1, <1>2, <1>4
<1>9. /\ \A x \in Elements(e.messages) : x \in Elements(endpoints[r].messages) \/ x = next_msg
      /\ allocated' = (allocated \ Elements(endpoints[r].messages)) \cup Elements(e.messages)
  BY <1>4, <1>7
<1> QED BY <1>3, <1>5, <1>6, <1>8, <1>9, OneInboxStep

(* Taking the first message keeps the invariant.                           *)
LEMMA ReceiveIpcInv == ASSUME IpcInv, receive_async_msg PROVE IpcInv'
<1> DEFINE o == endpoints[cpu]
           q == o.messages
           e == [o EXCEPT !.messages = Tail(q), !.waiters = <<>>]
<1>1. /\ cpu \in Pids /\ o \in EpRecords /\ TypeOK /\ Kept(o, delivered[cpu], next_msg)
      /\ next_msg \in 1 .. (MaxSends + 1) /\ MaxSends \in Nat
      /\ mode \in {"user", "halt", "spin"} /\ Elements(q) \subseteq allocated
      /\ o.exists => InRange(cpu)
  BY CpuKept DEF IpcInv
<1>2. /\ q # <<>> /\ delivered' = [delivered EXCEPT ![cpu] = Head(q)]
      /\ allocated' = allocated \ {Head(q)} /\ state' = wake_waiters(o)
      /\ endpoints' = [endpoints EXCEPT ![cpu] = e]
      /\ UNCHANGED <<pid_next, tasks, current_idx, ticks, blocked_list, proc_curr,
                     cpu, mode, cont, kids, next_msg>>
  BY DEF receive_async_msg, Unlink
<1>3. q \in Seq(1 .. MaxSends) /\ q \in Seq(Nat) /\ Len(q) \in Nat
      /\ \A i \in 1 .. Len(q) : q[i] \in 1 .. MaxSends
  <2>1. q \in Seq(1 .. MaxSends) /\ Len(q) \in Nat
        /\ \A i \in 1 .. Len(q) : q[i] \in Nat /\ q[i] \in 1 .. MaxSends
    BY <1>1, QueueTyped
  <2> HIDE DEF q
  <2>2. q \in Seq(Nat)
    BY <2>1
  <2> QED BY <2>1, <2>2
<1> DEFINE t == Tail(q)
           h == Head(q)
<1>4. /\ Len(t) = Len(q) - 1
      /\ \A i, j \in 1 .. Len(t) : i < j => t[i] < t[j]
      /\ \A i \in 1 .. Len(t) : h < t[i]
      /\ Elements(t) = Elements(q) \ {h} /\ h \in Elements(q)
  <2>1. \A i, j \in 1 .. Len(q) : i < j => q[i] < q[j]
    BY <1>1 DEF Kept
  <2> HIDE DEF q
  <2> QED BY <1>2, <1>3, <2>1, TailOfInbox
<1>5. t \in Seq(1 .. MaxSends)
  <2> DEFINE S == 1 .. MaxSends
  <2>1. q \in Seq(S) /\ q # <<>>
    BY <1>2, <1>3
  <2> HIDE DEF S, q
  <2>2. t \in Seq(S)
    BY <2>1
  <2> QED BY <2>2 DEF S
<1> HIDE DEF t, h
<1>6. \A x \in Elements(q) : x \in 1 .. MaxSends /\ x < next_msg
  BY <1>1, <1>3 DEF Elements, Kept
<1>7. e \in EpRecords /\ e.messages = t /\ e.waiters = <<>> /\ e.is_open = o.is_open
      /\ e.exists = o.exists
  <2> HIDE DEF q
  <2>1. <<>> \in Seq(Pids)
    OBVIOUS
  <2> QED BY <1>1, <1>5, <2>1 DEF EpRecords, t
<1>8. Kept(e, h, next_msg)
  <2>1. h \in 1 .. MaxSends /\ h < next_msg /\ \A i \in 1 .. Len(t) : t[i] < next_msg
    BY <1>4, <1>6 DEF Elements
  <2>2. o.exists /\ Len(t) <= IPC_MAX_MESSAGES /\ 0 <= IPC_MAX_WAITERS
    BY <1>1, <1>2, <1>3, <1>4, MessagesAssumption, SMTT(60) DEF Kept
  <2> QED BY <1>4, <1>7, <2>1, <2>2, SMTT(60) DEF Kept
<1>9. TypeOK'
  BY <1>1, <1>2, WakeTyped, StateTypes
<1>10. allocated' = (allocated \ Elements(q)) \cup Elements(e.messages)
  BY <1>1, <1>2, <1>4, <1>7 DEF h
<1>11. \A x \in Elements(e.messages) : x \in Elements(q) \/ x = next_msg
  BY <1>4, <1>7
<1>12. next_msg <= MaxSends + 1 /\ delivered' = [delivered EXCEPT ![cpu] = h]
  BY <1>1, <1>2 DEF h
<1>13. next_msg' = next_msg /\ (e.exists => InRange(cpu))
  BY <1>1, <1>2, <1>7
<1> HIDE DEF e
<1>14. /\ \A x \in Elements(e.messages) : x \in Elements(endpoints[cpu].messages) \/ x = next_msg
       /\ allocated' = (allocated \ Elements(endpoints[cpu].messages)) \cup Elements(e.messages)
  BY <1>10, <1>11
<1>15. cpu \in Pids /\ endpoints' = [endpoints EXCEPT ![cpu] = e]
  BY <1>1, <1>2
<1> QED BY <1>8, <1>9, <1>12, <1>13, <1>14, <1>15, OneInboxStep

(* A step that leaves the inboxes alone.                                   *)
LEMMA NoInboxStep == ASSUME IpcInv, TypeOK', UNCHANGED ipcvars PROVE IpcInv'
  BY DEF IpcInv, ipcvars, MessagesAccounted

(* Every call and every step of the scheduler keeps the invariant.         *)
LEMMA NextIpcInv == IpcInv /\ [IpcNext]_allvars => IpcInv'
<1> SUFFICES ASSUME IpcInv, [IpcNext]_allvars PROVE IpcInv'
  OBVIOUS
<1>1. ASSUME NEW r \in Pids, send_msg(r) \/ send_msg_full(r) PROVE IpcInv'
  BY <1>1, SendIpcInv, SendFullIpcInv
<1>2. CASE ProcessStep
  BY <1>2, ProcessTypes, NoInboxStep DEF ProcessStep, IpcInv
<1>3. CASE scall_mq_open
  BY <1>3, OpenIpcInv
<1>4. CASE scall_mq_unlink
  BY <1>4, UnlinkIpcInv
<1>5. CASE receive_async_msg
  BY <1>5, ReceiveIpcInv
<1>6. CASE receive_msg_empty
  <2>1. cpu \in Pids /\ TypeOK /\ state \in [Pids -> States]
    BY DEF IpcInv, TypeOK
  <2>2. state' \in [Pids -> States]
    BY <1>6, <2>1 DEF receive_msg_empty, States
  <2>3. TypeOK'
    BY <1>6, <2>1, <2>2, StateTypes DEF receive_msg_empty
  <2> QED BY <1>6, <2>3, NoInboxStep DEF receive_msg_empty
<1>7. CASE UNCHANGED allvars
  <2>1. TypeOK'
    BY <1>7 DEF allvars, IpcInv, TypeOK
  <2> QED BY <1>7, <2>1, NoInboxStep DEF allvars, ipcvars
<1> QED BY <1>1, <1>2, <1>3, <1>4, <1>5, <1>6, <1>7 DEF IpcNext

(* Whatever the processes do, and for any limits: no message is lost,      *)
(* delivered twice or out of order, or freed while it is queued            *)
(* (messages.c:93-160).                                                    *)
THEOREM MessagesInboxesKept == IpcSpec => []InboxesKept
<1>1. IpcSpec => []IpcInv
  BY InitIpcInv, NextIpcInv, PTL DEF IpcSpec
<1> QED BY <1>1, IpcInvKeeps, PTL

=============================================================================
