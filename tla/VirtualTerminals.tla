--------------------------- MODULE VirtualTerminals ---------------------------
(* The table of virtual terminals, the keyboard focus and the blocking read   *)
(* of standard input (devices/vt/vt.c, scall_read in user/syscalls.c).  One   *)
(* processor runs one process at a time; the timer takes it away in user mode *)
(* only (mt_preempt), so a process inside vt_input_read keeps it.             *)
(* vt_input_write is called through the driver entry of the terminal.         *)
EXTENDS Integers, Sequences, SequencesExt

CONSTANTS Procs,     \* processes
          VT_MAX,    \* slots of vt_table
          EvSize,    \* bytes of a vt_key_event_t, 12 in the code
          InSize,    \* VT_INPUT_BUF_SIZE, 4096: not a multiple of EvSize
          MaxIds,    \* bound: terminals ever made
          MaxCount   \* bound: bytes a read asks for

ASSUME VtAssumption ==
    /\ VT_MAX \in Nat \ {0} /\ EvSize \in Nat \ {0} /\ InSize \in Nat \ {0}
    /\ MaxIds \in Nat /\ MaxCount \in Nat /\ Procs # {}

Slots == 1 .. VT_MAX
NoId == -1
Idle == [slot |-> 0, id |-> NoId, left |-> 0]
Blank == <<NoId, "char", 0>>
Ring == INSTANCE VtRing WITH Cap <- InSize

Kinds == {"char", "enter"}

VARIABLES vt_table,       \* per slot: [id, state]
          vt_id_counter,
          vt_focused,     \* id or NoId
          input,          \* per slot: in_buf, in_head, in_tail, in_count; a byte <<id, kind, i>>
                          \* is the i-th of an event
          cpu,            \* the process that runs
          reading         \* per process: its vt_input_read (slot it points to, id the
                          \* slot had then, bytes still wanted), or Idle

vars == <<vt_table, vt_id_counter, vt_focused, input, cpu, reading>>

InUser == reading[cpu] = Idle
Used(s) == vt_table[s].state # "FREE"

(* vt_get *)
vt_get(id) == {s \in Slots : Used(s) /\ vt_table[s].id = id}

Init ==
    /\ vt_table = [s \in Slots |-> [id |-> 0, state |-> "FREE"]]
    /\ vt_id_counter = 0
    /\ vt_focused = NoId
    /\ input = [s \in Slots |-> Ring!EmptyRing]
    /\ cpu \in Procs
    /\ reading = [p \in Procs |-> Idle]

FaultFreshInput(s) == input[s]
FreshInput(s) == Ring!Reset(input[s])

(* vt_create: the first free slot, a new id; the first terminal has focus. *)
vt_create ==
    /\ InUser
    /\ vt_id_counter < MaxIds
    /\ \E s \in Slots :
        /\ ~Used(s) /\ \A r \in Slots : r < s => Used(r)
        /\ vt_table' = [vt_table EXCEPT ![s] =
               [id |-> vt_id_counter, state |-> IF vt_focused = NoId THEN "FOCUSED" ELSE "ACTIVE"]]
        /\ input' = [input EXCEPT ![s] = FreshInput(s)]
    /\ vt_focused' = IF vt_focused = NoId THEN vt_id_counter ELSE vt_focused
    /\ vt_id_counter' = vt_id_counter + 1
    /\ UNCHANGED <<cpu, reading>>

vt_destroy(id) ==
    /\ InUser
    /\ vt_get(id) # {}
    /\ vt_table' = [s \in Slots |->
           IF s \in vt_get(id) THEN [vt_table[s] EXCEPT !.state = "FREE"] ELSE vt_table[s]]
    /\ vt_focused' = IF vt_focused = id THEN NoId ELSE vt_focused
    /\ UNCHANGED <<vt_id_counter, input, cpu, reading>>

(* The terminal that had the focus is only active now. *)
FaultUnfocused == vt_table
Unfocused ==
    [s \in Slots |-> IF s \in vt_get(vt_focused) /\ vt_table[s].state = "FOCUSED"
                     THEN [vt_table[s] EXCEPT !.state = "ACTIVE"] ELSE vt_table[s]]

(* vt_focus of any id, also one that no terminal has. *)
vt_focus(id) ==
    /\ InUser
    /\ vt_table' = [s \in Slots |->
           IF s \in vt_get(id) THEN [vt_table[s] EXCEPT !.state = "FOCUSED"] ELSE Unfocused[s]]
    /\ vt_focused' = IF vt_get(id) = {} THEN NoId ELSE id
    /\ UNCHANGED <<vt_id_counter, input, cpu, reading>>

(* A vt_key_event_t as bytes. *)
Event(kind, id) == [i \in 1 .. EvSize |-> <<id, kind, i>>]

(* vt_input_write_cb: as many bytes of the event as the ring has room for. *)
vt_input_write(id, kind) ==
    /\ InUser
    /\ \E s \in vt_get(id) :
        input' = [input EXCEPT ![s] = Ring!ring_write(@, Event(kind, id))]
    /\ UNCHANGED <<vt_table, vt_id_counter, vt_focused, cpu, reading>>

(* scall_read of descriptor 0: 0 at once without a focused terminal. *)
scall_read(count) ==
    /\ InUser
    /\ \E s \in vt_get(vt_focused) : 
           reading' = [reading EXCEPT ![cpu] = [slot |-> s, id |-> vt_focused, left |-> count]]
    /\ UNCHANGED <<vt_table, vt_id_counter, vt_focused, input, cpu>>

WholeEvent(bytes) == \E id \in 0 .. MaxIds, kind \in Kinds : bytes = Event(kind, id)

(* One round of vt_input_read: sti; hlt until EvSize bytes are there, then an *)
(* event: a printable one counts, return ends the read, others are skipped.   *)
(* Bytes that are not one event may be taken for any.                         *)
vt_input_read ==
    LET me == reading[cpu]
        bytes == SubSeq(Ring!Waiting(input[me.slot]), 1, EvSize)
        is(kind) == \E id \in 0 .. MaxIds : bytes = Event(kind, id)
    IN  /\ ~InUser
        /\ input[me.slot].count >= EvSize
        /\ input' = [input EXCEPT ![me.slot] = Ring!ring_read(@, EvSize)]
        /\ \/ /\ ~is("enter")
              /\ reading' = [reading EXCEPT ![cpu] =
                     IF me.left = 1 THEN Idle ELSE [me EXCEPT !.left = @ - 1]]
           \/ ~is("char") /\ reading' = [reading EXCEPT ![cpu] = Idle]
           \/ ~WholeEvent(bytes) /\ UNCHANGED reading
        /\ UNCHANGED <<vt_table, vt_id_counter, vt_focused, cpu>>

(* mt_preempt from user mode gives the processor to any process; from the    *)
(* hlt of vt_input_read, in kernel mode, it returns at once.                 *)
FaultMayPreempt == TRUE
MayPreempt == InUser
timer_handler(p) ==
    /\ MayPreempt
    /\ cpu' = p
    /\ UNCHANGED <<vt_table, vt_id_counter, vt_focused, input, reading>>

Next ==
    \/ vt_create
    \/ \E id \in 0 .. MaxIds - 1 : vt_destroy(id) \/ vt_focus(id)
    \/ vt_focus(NoId)
    \/ \E id \in 0 .. MaxIds - 1, kind \in Kinds : vt_input_write(id, kind)
    \/ \E count \in 1 .. MaxCount : scall_read(count)
    \/ vt_input_read
    \/ \E p \in Procs : timer_handler(p)

Spec == Init /\ [][Next]_vars

(* Every process gets the processor again and again when it can be had, keys *)
(* keep arriving for every terminal, and hlt ends with each interrupt.       *)
FairSpec ==
    /\ Spec
    /\ WF_vars(vt_input_read)
    /\ \A p \in Procs : SF_vars(timer_handler(p))
    /\ \A id \in 0 .. MaxIds - 1, kind \in Kinds : SF_vars(vt_input_write(id, kind))

-----------------------------------------------------------------------------
(* The types of the variables; the count of a ring, which alone tells a full *)
(* one from an empty one, agrees with its indices.                           *)
TypeOK ==
    /\ vt_table \in [Slots -> [id : 0 .. MaxIds, state : {"FREE", "ACTIVE", "FOCUSED"}]]
    /\ vt_id_counter \in 0 .. MaxIds
    /\ vt_focused \in {NoId} \cup (0 .. MaxIds)
    /\ \A s \in Slots :
          /\ input[s].head \in 0 .. InSize - 1
          /\ input[s].count \in 0 .. InSize
          /\ input[s].tail = (input[s].head + input[s].count) % InSize
    /\ cpu \in Procs
    /\ reading \in [Procs -> [slot : 0 .. VT_MAX, id : {NoId} \cup (0 .. MaxIds), left : 0 .. MaxCount]]

(* The focus variable and the states of the table tell the same terminal,    *)
(* through creation, destruction of the focused one and focusing of ids that *)
(* are gone.                                                                 *)
FocusAgrees ==
    /\ \A s \in Slots :
          vt_table[s].state = "FOCUSED" <=> Used(s) /\ vt_table[s].id = vt_focused
    /\ vt_focused # NoId => vt_get(vt_focused) # {}

(* A slot that is reused hands no key of its former terminal to the new one. *)
InputStays == \A s \in Slots : Used(s) =>
    \A i \in 1 .. input[s].count : Ring!Waiting(input[s])[i][1] = vt_table[s].id

(* Over every wrap of the indices bytes leave a ring in the order they came: *)
(* a step only appends to what waits or takes from its front.                *)
BytesInOrder ==
    [][\A s \in {x \in Slots : input'[x] # input[x]} :
         LET was == Ring!Waiting(input[s])
             is == Ring!Waiting(input'[s])
         IN  IsPrefix(was, is) \/ IsSuffix(is, was)]_vars

(* The terminal vt_input_read points to while it waits is still the one it   *)
(* was called for: nobody destroys it or makes another in its slot.          *)
ReaderSound == \A p \in Procs : reading[p] # Idle =>
    /\ Used(reading[p].slot)
    /\ vt_table[reading[p].slot].id = reading[p].id

(* The keys pressed for a terminal stay its own: in the ring, while a read   *)
(* waits for them, and by the two places that say which terminal has focus.  *)
KeysStay == FocusAgrees /\ InputStays /\ ReaderSound

(* vt.h:85 says of vt_input_read "blocks til data": with keys arriving and   *)
(* every process scheduled a read that waits ends.                           *)
ReadReturns == \A p \in Procs : reading[p] # Idle ~> reading[p] = Idle
=============================================================================
