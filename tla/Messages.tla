------------------------------ MODULE Messages ------------------------------
(***************************************************************************)
(* The message queues of emex/kernel/ipc/messages.c and the system calls   *)
(* over them (scalls/mq.c), composed with the processes of Multitask.      *)
(*                                                                         *)
(* "Blocking" here means: set the own state to BLOCKED and spin on pause   *)
(* until somebody changes it.  Interrupts are masked and there is one      *)
(* processor, so nobody ever does: mode becomes spin for good.             *)
(* A successful send also makes its receiver READY if it is BLOCKED,       *)
(* whatever it is blocked on.                                              *)
(*                                                                         *)
(* Messages are numbered in the order they are sent.  delivered and        *)
(* allocated are not in the code: the last number each process received,   *)
(* and the messages allocated from klime and not freed.                    *)
(***************************************************************************)
EXTENDS Multitask

CONSTANTS
  IPC_MAX_PROCS,     (* pids at or above it have no inbox                  *)
  IPC_MAX_MESSAGES,  (* messages an inbox holds                            *)
  IPC_MAX_WAITERS,   (* senders an inbox remembers                         *)
  MaxSends           (* bound: messages sent in a behaviour                *)

(* What is taken for granted of the constants.                             *)
ASSUME MessagesAssumption ==
  /\ IPC_MAX_PROCS \in Nat
  /\ IPC_MAX_MESSAGES \in Nat \ {0}
  /\ IPC_MAX_WAITERS \in Nat \ {0}
  /\ MaxSends \in Nat

VARIABLES
  endpoints,   (* endpoints[pid]: NoInbox or [is_open, messages, waiters]  *)
  next_msg,    (* number of the next message                               *)
  delivered,   (* number of the last message each process received         *)
  allocated    (* messages allocated and not freed                         *)

ipcvars == <<endpoints, next_msg, delivered, allocated>>
allvars == <<state, pid_next, tasks, current_idx, ticks, blocked_list, proc_curr,
             cpu, mode, cont, kids, endpoints, next_msg, delivered, allocated>>

NoInbox == [is_open |-> FALSE, exists |-> FALSE, messages |-> <<>>, waiters |-> <<>>]
Inbox   == [is_open |-> TRUE,  exists |-> TRUE,  messages |-> <<>>, waiters |-> <<>>]

InRange(pid) == pid < IPC_MAX_PROCS
Elements(s) == {s[i] : i \in 1 .. Len(s)}

IpcInit ==
  /\ Init
  /\ endpoints = [p \in Pids |-> NoInbox]
  /\ next_msg = 1
  /\ delivered = [p \in Pids |-> 0]
  /\ allocated = {}

(* Senders waiting for room become READY if they are still BLOCKED.        *)
wake_waiters(ep) ==
  [p \in Pids |-> IF p \in Elements(ep.waiters) /\ state[p] = "BLOCKED"
                  THEN "READY" ELSE state[p]]

FaultRoom(ep) == Len(ep.messages) <= IPC_MAX_MESSAGES   (* one too many *)
HasRoom(ep) == Len(ep.messages) < IPC_MAX_MESSAGES

(* The list after its oldest message was taken.                            *)
FaultUnlinkNewest(q) == SubSeq(q, 1, Len(q) - 1)        (* the wrong end *)
Unlink(q) == Tail(q)

(* What destroy_endpoint gives back to the heap, walking the list.         *)
FaultFreeHead(ep) == IF ep.messages = <<>> THEN {} ELSE {Head(ep.messages)}
FreedBy(ep) == Elements(ep.messages)

(* Opening twice keeps the queue.                                          *)
scall_mq_open ==
  /\ SystemCall
  /\ InRange(cpu)
  /\ endpoints' = [endpoints EXCEPT ![cpu] =
       IF @.exists THEN [@ EXCEPT !.is_open = TRUE] ELSE Inbox]
  /\ UNCHANGED <<vars, next_msg, delivered, allocated>>

(* destroy_endpoint: messages freed, waiting senders woken.                *)
scall_mq_unlink ==
  /\ SystemCall
  /\ endpoints[cpu].exists
  /\ allocated' = allocated \ FreedBy(endpoints[cpu])
  /\ state' = wake_waiters(endpoints[cpu])
  /\ endpoints' = [endpoints EXCEPT ![cpu] = NoInbox]
  /\ UNCHANGED <<pid_next, tasks, current_idx, ticks, blocked_list, proc_curr,
                 cpu, mode, cont, kids, next_msg, delivered>>

(* send_msg with room in an open inbox.                                    *)
send_msg(r) ==
  /\ SystemCall
  /\ next_msg <= MaxSends
  /\ endpoints[r].is_open
  /\ HasRoom(endpoints[r])
  /\ endpoints' = [endpoints EXCEPT ![r].messages = Append(@, next_msg)]
  /\ allocated' = allocated \cup {next_msg}
  /\ next_msg' = next_msg + 1
  /\ state' = IF state[r] = "BLOCKED" THEN [state EXCEPT ![r] = "READY"] ELSE state
  /\ UNCHANGED <<pid_next, tasks, current_idx, ticks, blocked_list, proc_curr,
                 cpu, mode, cont, kids, delivered>>

(* send_msg to a full inbox: noted as a waiter, if there is room for that, *)
(* then the machine is lost.                                               *)
send_msg_full(r) ==
  /\ SystemCall
  /\ endpoints[r].is_open
  /\ ~ HasRoom(endpoints[r])
  /\ endpoints' = IF Len(endpoints[r].waiters) < IPC_MAX_WAITERS
                  THEN [endpoints EXCEPT ![r].waiters = Append(@, cpu)] ELSE endpoints
  /\ state' = [state EXCEPT ![cpu] = "BLOCKED"]
  /\ mode' = "spin"
  /\ UNCHANGED <<pid_next, tasks, current_idx, ticks, blocked_list, proc_curr,
                 cpu, cont, kids, next_msg, delivered, allocated>>

(* The oldest message is copied out and freed; waiting senders are woken.  *)
receive_async_msg ==
  /\ SystemCall
  /\ endpoints[cpu].messages # <<>>
  /\ delivered' = [delivered EXCEPT ![cpu] = Head(endpoints[cpu].messages)]
  /\ allocated' = allocated \ {Head(endpoints[cpu].messages)}
  /\ endpoints' = [endpoints EXCEPT ![cpu].messages = Unlink(@), ![cpu].waiters = <<>>]
  /\ state' = wake_waiters(endpoints[cpu])
  /\ UNCHANGED <<pid_next, tasks, current_idx, ticks, blocked_list, proc_curr,
                 cpu, mode, cont, kids, next_msg>>

(* Nothing to receive, or no inbox at all: the machine is lost.            *)
receive_msg_empty ==
  /\ SystemCall
  /\ endpoints[cpu].messages = <<>>
  /\ state' = [state EXCEPT ![cpu] = "BLOCKED"]
  /\ mode' = "spin"
  /\ UNCHANGED <<pid_next, tasks, current_idx, ticks, blocked_list, proc_curr,
                 cpu, cont, kids, ipcvars>>

ProcessStep == Next /\ UNCHANGED ipcvars

IpcNext ==
  \/ ProcessStep
  \/ scall_mq_open
  \/ scall_mq_unlink
  \/ \E r \in Pids : send_msg(r) \/ send_msg_full(r)
  \/ receive_async_msg
  \/ receive_msg_empty

IpcSpec == IpcInit /\ [][IpcNext]_allvars

-----------------------------------------------------------------------------
IpcTypeOK ==
  /\ endpoints \in [Pids -> [is_open : BOOLEAN, exists : BOOLEAN,
                             messages : Seq(1 .. MaxSends), waiters : Seq(Pids)]]
  /\ \A p \in Pids :
       /\ Len(endpoints[p].messages) <= IPC_MAX_MESSAGES
       /\ Len(endpoints[p].waiters) <= IPC_MAX_WAITERS
       /\ endpoints[p].exists => InRange(p)
  /\ next_msg \in 1 .. (MaxSends + 1)
  /\ delivered \in [Pids -> 0 .. MaxSends]
  /\ allocated \subseteq (1 .. MaxSends)

(* An inbox is delivered in sending order and no message twice, across     *)
(* closing, destroying and reopening it (messages.c:134, 148-157).         *)
FifoDelivery ==
  \A p \in Pids :
    LET q == endpoints[p].messages
    IN  /\ \A i, j \in 1 .. Len(q) : i < j => q[i] < q[j]
        /\ \A i \in 1 .. Len(q) : delivered[p] < q[i]

(* Every message allocated from the kernel heap is in exactly one inbox:   *)
(* receiving and destroying free what they remove, and nothing still       *)
(* queued is freed (messages.c:93-99, 125-134, 154-159).                   *)
MessagesAccounted ==
  /\ allocated = UNION {Elements(endpoints[p].messages) : p \in Pids}
  /\ \A p, q \in Pids : p # q =>
       Elements(endpoints[p].messages) \cap Elements(endpoints[q].messages) = {}

(* Messages are kept in order and none is lost or left behind.              *)
InboxesKept == IpcTypeOK /\ FifoDelivery /\ MessagesAccounted

=============================================================================
