-------------------------------- MODULE Tmpfs --------------------------------
(* The files of tmpfs (file_systems/vfs/tmpfs/tmpfs.c): a node's bytes live   *)
(* in a buffer of the kernel heap that grows by whole pages, or, for a file   *)
(* of the boot archive, in the archive itself until the first write.  Files   *)
(* are positions in nodes, shared by every process of the system.  Bytes move *)
(* by the memcpy of MemLib, which is exact for aligned destinations.          *)
EXTENDS MemLib

CONSTANTS Nodes,     \* tmpfs nodes of type FS_FILE
          Files,     \* fs_file records
          Bufs,      \* heap buffers
          Byte,      \* byte values
          Page,      \* growth unit, 4096 in the code
          Archive,   \* bytes an archived file is born with
          MaxSize,   \* bound: no file grows beyond it
          MaxWrite,  \* bound: bytes of one write
          W,         \* u64 arithmetic is modulo W
          Aligned    \* environment: programs read and write only where memcpy is exact

CONSTANTS NULL, IMAGE   \* no buffer; the boot archive

tmpfs_datas == [data : Bufs \cup {NULL, IMAGE}, cap : Nat, ro : BOOLEAN]
fs_files == [node : Nodes, pos : Nat]

ASSUME TmpfsAssumption ==
    /\ Page \in Nat \ {0} /\ MaxSize \in Nat /\ MaxWrite \in Nat /\ W \in Nat /\ W > MaxSize + MaxSize
    /\ Archive \in Seq(Byte) /\ Len(Archive) <= MaxSize
    /\ Aligned \in BOOLEAN
    /\ NULL \notin Bufs /\ IMAGE \notin Bufs /\ NULL # IMAGE /\ Junk \notin Byte
    /\ NULL \notin tmpfs_datas /\ NULL \notin fs_files

VARIABLES priv,   \* per node: its tmpfs_data, NULL before the first use
          size,   \* per node
          heap,   \* bytes of every allocated buffer and of the archive, <<>> when free
          file,   \* per fs_file: [node, pos], NULL when closed
          got,    \* the bytes a read just returned
          spilt   \* bytes the last copy wrote behind the end of its buffer

vars == <<priv, size, heap, file, got, spilt>>

tmpfs_data(buf, cap, ro) == [data |-> buf, cap |-> cap, ro |-> ro]

IsOpen(f) == file[f] # NULL
Node(f) == file[f].node
Pos(f) == file[f].pos

RoundUp(n) == ((n + Page - 1) \div Page) * Page
(* tmpfs_set_ro_data at boot: archived nodes alias the archive. *)
Init == \E archived \in SUBSET Nodes :
    /\ priv = [n \in Nodes |-> IF n \in archived THEN tmpfs_data(IMAGE, Len(Archive), TRUE) ELSE NULL]
    /\ size = [n \in Nodes |-> IF n \in archived THEN Len(Archive) ELSE 0]
    /\ heap = [b \in Bufs \cup {IMAGE} |-> IF b = IMAGE THEN Archive ELSE <<>>]
    /\ file = [f \in Files |-> NULL]
    /\ got = <<>>
    /\ spilt = 0

(* Nothing is said of the system once the header of a heap block is gone. *)
HeapSound == spilt = 0

fs_open(f, n) ==
    /\ HeapSound
    /\ ~IsOpen(f)
    /\ file' = [file EXCEPT ![f] = [node |-> n, pos |-> 0]]
    /\ got' = <<>>
    /\ UNCHANGED <<priv, size, heap, spilt>>

fs_close(f) ==
    /\ HeapSound
    /\ IsOpen(f)
    /\ file' = [file EXCEPT ![f] = NULL]
    /\ got' = <<>>
    /\ UNCHANGED <<priv, size, heap, spilt>>

FaultToRead(f, cnt) == Least(cnt, priv[Node(f)].cap - Pos(f))
ToRead(f, cnt) == Least(cnt, size[Node(f)] - Pos(f))

(* What the reader finds where it expects the bytes s. *)
Delivered(d, s) == Overlay([i \in 1 .. Len(s) |-> Junk], 0, Landed(d, s))

(* d: how far the reader's buffer is past an aligned address.  Bytes beyond  *)
(* the ones read land in the reader's own memory, which is not modelled.     *)
tmpfs_read(f, cnt, d) ==
    /\ HeapSound
    /\ IsOpen(f)
    /\ IF priv[Node(f)] = NULL \/ Pos(f) >= size[Node(f)] \/ priv[Node(f)].data = NULL
       THEN got' = <<>> /\ UNCHANGED file
       ELSE LET k == ToRead(f, cnt)
            IN /\ Aligned => Exact(d, k)
               /\ got' = Delivered(d, SubSeq(heap[priv[Node(f)].data], Pos(f) + 1, Pos(f) + k))
               /\ file' = [file EXCEPT ![f].pos = @ + k]
    /\ UNCHANGED <<priv, size, heap, spilt>>

(* The node's data as tmpfs_write finds or makes it. *)
Data(n) == IF priv[n] = NULL THEN tmpfs_data(NULL, 0, FALSE) ELSE priv[n]

FaultNeedsBuffer(f, cnt) == Pos(f) + cnt > Data(Node(f)).cap
NeedsBuffer(f, cnt) == Data(Node(f)).ro \/ Pos(f) + cnt > Data(Node(f)).cap

NewCap(f, cnt) ==
    IF Data(Node(f)).ro THEN RoundUp(size[Node(f)] + cnt) ELSE RoundUp(Pos(f) + cnt)

(* The heap once the node has moved to buffer b: the archive is kept, an     *)
(* outgrown buffer goes back.                                                *)
FaultMoved(n, b, cap) ==
    [heap EXCEPT ![b] = memcpy([i \in 1 .. cap |-> Junk], 0,
        IF size[n] = 0 THEN <<>> ELSE SubSeq(heap[Data(n).data], 1, size[n]))]
Moved(n, b, cap) ==
    LET kept == IF Data(n).data = NULL \/ size[n] = 0 THEN <<>>
                ELSE SubSeq(heap[Data(n).data], 1, size[n])
        freed == IF Data(n).ro \/ size[n] = 0 THEN {} ELSE {Data(n).data}
    IN  [c \in DOMAIN heap |->
            IF c = b THEN memcpy([i \in 1 .. cap |-> Junk], 0, kept)
            ELSE IF c \in freed THEN <<>> ELSE heap[c]]

(* The copy into the buffer and the new position and size.  Bytes written     *)
(* behind the buffer hit the header of the next heap block.                   *)
Stored(f, buf, bytes, s) ==
    /\ heap' = [bytes EXCEPT ![buf] = memcpy(@, Pos(f), s)]
    /\ spilt' = Beyond(bytes[buf], Pos(f), s)
    /\ file' = [file EXCEPT ![f].pos = @ + Len(s)]
    /\ size' = [size EXCEPT ![Node(f)] = IF Pos(f) + Len(s) > @ THEN Pos(f) + Len(s) ELSE @]
    /\ got' = <<>>

(* tmpfs_write.  klime_create may find no memory for the tmpfs_data (nothing *)
(* happens) or for a buffer (the tmpfs_data stays), and never gives 0 bytes. *)
tmpfs_write(f, s) ==
    /\ HeapSound
    /\ IsOpen(f)
    /\ Pos(f) + Len(s) <= MaxSize
    /\ Aligned => Exact(Pos(f), Len(s))
    /\ LET n == Node(f)
           cap == NewCap(f, Len(s))
       IN \/ /\ NeedsBuffer(f, Len(s))
             /\ priv' = [priv EXCEPT ![n] = Data(n)]
             /\ got' = <<>>
             /\ UNCHANGED <<size, heap, file, spilt>>
          \/ /\ NeedsBuffer(f, Len(s)) /\ cap > 0
             /\ \E b \in Bufs :
                 /\ heap[b] = <<>>
                 /\ priv' = [priv EXCEPT ![n] = tmpfs_data(b, cap, FALSE)]
                 /\ Stored(f, b, Moved(n, b, cap), s)
          \/ /\ ~NeedsBuffer(f, Len(s)) /\ Len(s) > 0
             /\ priv' = [priv EXCEPT ![n] = Data(n)]
             /\ Stored(f, Data(n).data, heap, s)
          \/ /\ ~NeedsBuffer(f, Len(s)) /\ Len(s) = 0
             /\ priv' = [priv EXCEPT ![n] = Data(n)]
             /\ got' = <<>>
             /\ UNCHANGED <<size, heap, file, spilt>>

(* scall_lseek: the sum wraps at the width of u64 and is cut at the size. *)
FaultNewPos(f, offset, whence) ==
    CASE whence = "SEEK_SET" -> offset
      [] whence = "SEEK_CUR" -> (Pos(f) + offset) % W
      [] whence = "SEEK_END" -> (size[Node(f)] + offset) % W
NewPos(f, offset, whence) ==
    LET sum == CASE whence = "SEEK_SET" -> offset
                 [] whence = "SEEK_CUR" -> (Pos(f) + offset) % W
                 [] whence = "SEEK_END" -> (size[Node(f)] + offset) % W
    IN  Least(sum, size[Node(f)])

scall_lseek(f, offset, whence) ==
    /\ HeapSound
    /\ IsOpen(f)
    /\ file' = [file EXCEPT ![f].pos = NewPos(f, offset, whence)]
    /\ got' = <<>>
    /\ UNCHANGED <<priv, size, heap, spilt>>

Next == \E f \in Files :
    \/ \E n \in Nodes : fs_open(f, n)
    \/ fs_close(f)
    \/ \E cnt \in 1 .. MaxSize, d \in 0 .. Word - 1 : tmpfs_read(f, cnt, d)
    \/ \E k \in 0 .. MaxWrite : \E s \in [1 .. k -> Byte] : tmpfs_write(f, s)
    \/ \E offset \in 0 .. W - 1, whence \in {"SEEK_SET", "SEEK_CUR", "SEEK_END"} :
           scall_lseek(f, offset, whence)

Spec == Init /\ [][Next]_vars

-----------------------------------------------------------------------------
TypeOK ==
    /\ priv \in [Nodes -> tmpfs_datas \cup {NULL}]
    /\ size \in [Nodes -> 0 .. MaxSize]
    /\ heap \in [Bufs \cup {IMAGE} -> Seq(Byte \cup {Junk})]
    /\ file \in [Files -> fs_files \cup {NULL}]
    /\ got \in Seq(Byte \cup {Junk})
    /\ spilt \in Nat

(* No descriptor points beyond the end of its file, whatever wraps in        *)
(* scall_lseek: a write never starts behind the end and leaves a gap, which  *)
(* tmpfs_write would not clear.                                              *)
PositionsInside == \A f \in Files : IsOpen(f) => Pos(f) <= size[Node(f)]

(* The allocated buffers are exactly those of the nodes, each of one node:   *)
(* growth neither leaks an outgrown buffer nor leaves two nodes with one.    *)
BuffersOwned ==
    /\ \A b \in Bufs : heap[b] # <<>> => \E n \in Nodes : Data(n).data = b
    /\ \A n \in Nodes : Data(n).data \in Bufs => Len(heap[Data(n).data]) = Data(n).cap
    /\ \A m, n \in Nodes : m # n /\ Data(m).data \in Bufs => Data(m).data # Data(n).data

(* No write ever reaches the boot archive the zero-copy files alias. *)
ArchiveIntact == heap[IMAGE] = Archive

(* Descriptors, buffers and the archive stay sound, also where memcpy is not. *)
FilesSound == PositionsInside /\ BuffersOwned /\ ArchiveIntact

(* Descriptors of one node, growing and promoted buffers together behave as  *)
(* the plain byte sequences of FileContents: every read returns what was     *)
(* written last.  It holds where memcpy is exact; elsewhere the bytes that   *)
(* mem.c:58 calls remaining are not the ones that remain.                    *)
Contents == INSTANCE FileContents WITH
    content <- [n \in Nodes |-> IF size[n] = 0 THEN <<>> ELSE SubSeq(heap[Data(n).data], 1, size[n])],
    at <- [f \in Files |-> IF IsOpen(f) THEN <<Node(f), Pos(f)>> ELSE <<>>]
ImplementsContents == Contents!AbsSpec
=============================================================================
