----------------------------- MODULE TmpfsProofs -----------------------------
(* Proofs about Tmpfs for any number of nodes, files and buffers and any page *)
(* size: no position leaves its file, every buffer has one owner, the boot    *)
(* archive is never written, and where memcpy is exact files behave as the    *)
(* byte sequences of FileContents.                                            *)
EXTENDS Tmpfs, SequenceTheorems, TLAPS

(* Read-only data is the archive and nothing else is. *)
RoIsArchive == \A n \in Nodes : Data(n).ro <=> Data(n).data = IMAGE

(* What a node's data is worth: nothing without a buffer, and as many bytes   *)
(* behind it as its capacity says.                                            *)
DataSound == \A n \in Nodes :
    /\ Data(n).data = NULL => Data(n).cap = 0
    /\ Data(n).data # NULL => Len(heap[Data(n).data]) = Data(n).cap
    /\ Data(n).data \in Bufs => Data(n).cap > 0 /\ size[n] > 0
    /\ size[n] <= Data(n).cap

BufferOwned == \A b \in Bufs : heap[b] # <<>> => \E n \in Nodes : Data(n).data = b

BuffersApart == \A m, n \in Nodes :
    m # n /\ Data(m).data \in Bufs => Data(m).data # Data(n).data

IInv ==
    /\ TypeOK
    /\ PositionsInside
    /\ RoIsArchive
    /\ DataSound
    /\ BufferOwned
    /\ BuffersApart
    /\ ArchiveIntact

-----------------------------------------------------------------------------
(* Lemmas about the operators of Tmpfs. *)

(* Rounding up to whole pages never shrinks. *)
LEMMA RoundUpGrows == \A n \in Nat : RoundUp(n) \in Nat /\ RoundUp(n) >= n
<1> SUFFICES ASSUME NEW n \in Nat PROVE RoundUp(n) \in Nat /\ RoundUp(n) >= n
  OBVIOUS
<1> DEFINE x == n + Page - 1
           q == x \div Page
<1>1. x \in Nat /\ Page \in Nat /\ Page > 0
  BY TmpfsAssumption
<1>2. q \in Nat /\ x < Page * q + Page
  <2> HIDE DEF x
  <2>1. q \in Int /\ x = Page * q + (x % Page) /\ x % Page \in 0 .. Page - 1
    BY <1>1
  <2>2. q >= 0
    BY <1>1
  <2> QED BY <1>1, <2>1, <2>2
<1>3. q * Page = Page * q /\ q * Page \in Nat
  BY <1>1, <1>2
<1> QED BY <1>1, <1>2, <1>3 DEF RoundUp

(* What the copy into a buffer leaves where. *)
LEMMA OverlayFacts ==
  ASSUME NEW S, NEW c \in Seq(S), NEW p \in Nat, NEW s \in Seq(S)
  PROVE  /\ Overlay(c, p, s) \in Seq(S)
         /\ Len(Overlay(c, p, s)) = Len(c)
         /\ \A i \in 1 .. Len(c) : Overlay(c, p, s)[i] =
                IF i > p /\ i <= p + Len(s) THEN s[i - p] ELSE c[i]
<1>1. Overlay(c, p, s) =
        [i \in 1 .. Len(c) |-> IF i > p /\ i <= p + Len(s) THEN s[i - p] ELSE c[i]]
  BY DEF Overlay
<1>2. \A i \in 1 .. Len(c) : (IF i > p /\ i <= p + Len(s) THEN s[i - p] ELSE c[i]) \in S
  OBVIOUS
<1> QED BY <1>1, <1>2

(* However many bytes a copy writes, its number is one. *)
LEMMA CopiedType == \A d, n \in Nat : Copied(d, n) \in Nat
<1> SUFFICES ASSUME NEW d \in Nat, NEW n \in Nat PROVE Copied(d, n) \in Nat
  OBVIOUS
<1> USE MemLibAssumption
<1>1. Lead(d, n) \in 0 .. n
  <2>1. d % Word \in 0 .. Word - 1
    OBVIOUS
  <2>2. (Word - (d % Word)) % Word \in Nat
    BY <2>1
  <2> QED BY <2>2 DEF Lead, Least
<1>2. (n - Lead(d, n)) % Word \in Nat
  BY <1>1
<1>3. (n \div Word) * Word \in Int
  <2>1. n \div Word \in Int
    OBVIOUS
  <2> QED BY <2>1
<1>4. Lead(d, n) \in Int /\ ((n \div Word) * Word) + ((n - Lead(d, n)) % Word) \in Int
  BY <1>1, <1>2, <1>3
<1> DEFINE last == ((n \div Word) * Word) + ((n - Lead(d, n)) % Word)
<1>5. Copied(d, n) = Greatest(Lead(d, n), last)
  BY DEF Copied
<1> HIDE DEF last
<1> QED BY <1>1, <1>4, <1>5 DEF Greatest, last

(* What arrives in a buffer is as long as what was copied.                 *)
LEMMA LandedType ==
  \A s \in Seq(Byte \cup {Junk}) : \A d \in Nat :
     Landed(d, s) \in Seq(Byte \cup {Junk}) /\ Len(Landed(d, s)) = Copied(d, Len(s))
<1> SUFFICES ASSUME NEW s \in Seq(Byte \cup {Junk}), NEW d \in Nat
             PROVE  Landed(d, s) \in Seq(Byte \cup {Junk}) /\ Len(Landed(d, s)) = Copied(d, Len(s))
  OBVIOUS
<1> DEFINE k == Len(s)
<1>0. k \in Nat
  OBVIOUS
<1> HIDE DEF k
<1>1. Copied(d, k) \in Nat
  BY <1>0, CopiedType, Zenon
<1>2. \A i \in 1 .. Copied(d, k) : (IF i <= k THEN s[i] ELSE Junk) \in Byte \cup {Junk}
  BY <1>0, <1>1 DEF k
<1>3. Landed(d, s) = [i \in 1 .. Copied(d, k) |-> IF i <= k THEN s[i] ELSE Junk]
  BY DEF Landed, k
<1>4. Landed(d, s) \in Seq(Byte \cup {Junk}) /\ Len(Landed(d, s)) = Copied(d, k)
  BY <1>1, <1>2, <1>3
<1> QED BY <1>4 DEF k

(* A copy, exact or not, leaves the buffer as long as it was. *)
LEMMA memcpyType ==
  \A c, s \in Seq(Byte \cup {Junk}) : \A p \in Nat :
     memcpy(c, p, s) \in Seq(Byte \cup {Junk}) /\ Len(memcpy(c, p, s)) = Len(c)
<1> SUFFICES ASSUME NEW c \in Seq(Byte \cup {Junk}), NEW s \in Seq(Byte \cup {Junk}), NEW p \in Nat
             PROVE  memcpy(c, p, s) \in Seq(Byte \cup {Junk}) /\ Len(memcpy(c, p, s)) = Len(c)
  OBVIOUS
<1>1. Landed(p, s) \in Seq(Byte \cup {Junk})
  BY LandedType
<1> HIDE DEF Landed
<1>2. Overlay(c, p, Landed(p, s)) \in Seq(Byte \cup {Junk})
      /\ Len(Overlay(c, p, Landed(p, s))) = Len(c)
  BY <1>1, OverlayFacts, Zenon
<1> QED BY <1>2 DEF memcpy

(* A copy to an aligned address writes as many bytes as it was asked to.   *)
LEMMA ExactAtStart == \A n \in Nat : Exact(0, n)
<1> SUFFICES ASSUME NEW n \in Nat PROVE Exact(0, n)
  OBVIOUS
<1> USE MemLibAssumption
<1>1. 0 % Word = 0 /\ Word % Word = 0 /\ Word - 0 = Word
  OBVIOUS
<1>2. Lead(0, n) = 0
  BY <1>1 DEF Lead, Least
<1>3. n \div Word \in Nat /\ n % Word \in Nat /\ n = Word * (n \div Word) + (n % Word)
  OBVIOUS
<1>4. (n \div Word) * Word = Word * (n \div Word)
  BY <1>3
<1>5. (n \div Word) * Word + ((n - 0) % Word) = n
  BY <1>3, <1>4
<1>6. Greatest(0, n) = n
  BY DEF Greatest
<1> QED BY <1>2, <1>5, <1>6 DEF Exact, Copied

(* An exact copy that ends inside the buffer replaces the bytes it is for. *)
LEMMA memcpyExact ==
  ASSUME NEW c \in Seq(Byte \cup {Junk}), NEW s \in Seq(Byte \cup {Junk}), NEW p \in Nat,
         Exact(p, Len(s)), p + Len(s) <= Len(c)
  PROVE  \A i \in 1 .. Len(c) :
           memcpy(c, p, s)[i] = IF i > p /\ i <= p + Len(s) THEN s[i - p] ELSE c[i]
<1>1. Landed(p, s) \in Seq(Byte \cup {Junk}) /\ Len(Landed(p, s)) = Len(s)
  BY LandedType DEF Exact
<1>2. \A j \in 1 .. Len(s) : Landed(p, s)[j] = s[j]
  BY DEF Landed, Exact
<1> HIDE DEF Landed
<1>3. \A i \in 1 .. Len(c) : memcpy(c, p, s)[i] =
        IF i > p /\ i <= p + Len(s) THEN Landed(p, s)[i - p] ELSE c[i]
  BY <1>1, OverlayFacts DEF memcpy
<1>4. \A i \in 1 .. Len(c) : i > p /\ i <= p + Len(s) => i - p \in 1 .. Len(s)
  OBVIOUS
<1> QED BY <1>2, <1>3, <1>4

(* A node has data, at least an empty one.                                 *)
LEMMA DataType == TypeOK => \A n \in Nodes : Data(n) \in tmpfs_datas
<1>1. tmpfs_data(NULL, 0, FALSE) \in tmpfs_datas
  BY DEF tmpfs_data, tmpfs_datas
<1> QED BY <1>1 DEF TypeOK, Data

(* An open file has a node and a position.                                 *)
LEMMA FileType == TypeOK => \A f \in Files : IsOpen(f) => file[f] \in fs_files /\ Node(f) \in Nodes /\ Pos(f) \in Nat
BY DEF TypeOK, IsOpen, Node, Pos, fs_files

-----------------------------------------------------------------------------
(* The files of the archive at boot satisfy the invariant.                 *)
LEMMA InitIInv == Init => IInv
<1> SUFFICES ASSUME Init PROVE IInv
  OBVIOUS
<1> USE TmpfsAssumption
<1> PICK archived \in SUBSET Nodes :
    /\ priv = [n \in Nodes |-> IF n \in archived THEN tmpfs_data(IMAGE, Len(Archive), TRUE) ELSE NULL]
    /\ size = [n \in Nodes |-> IF n \in archived THEN Len(Archive) ELSE 0]
  BY DEF Init
<1>1. heap = [b \in Bufs \cup {IMAGE} |-> IF b = IMAGE THEN Archive ELSE <<>>]
      /\ file = [f \in Files |-> NULL] /\ got = <<>> /\ spilt = 0
  BY DEF Init
<1>a. tmpfs_data(IMAGE, Len(Archive), TRUE) \in tmpfs_datas
  BY DEF tmpfs_data, tmpfs_datas
<1>2. TypeOK
  <2>1. priv \in [Nodes -> tmpfs_datas \cup {NULL}]
    BY <1>a
  <2>2. Archive \in Seq(Byte \cup {Junk}) /\ <<>> \in Seq(Byte \cup {Junk}) 
    OBVIOUS
  <2>3. heap \in [Bufs \cup {IMAGE} -> Seq(Byte \cup {Junk})]
    BY <1>1, <2>2
  <2>4. size \in [Nodes -> 0 .. MaxSize]
    OBVIOUS
  <2> QED BY <1>1, <2>1, <2>2, <2>3, <2>4 DEF TypeOK
<1>3. \A n \in Nodes : Data(n) = IF n \in archived THEN tmpfs_data(IMAGE, Len(Archive), TRUE)
                                                   ELSE tmpfs_data(NULL, 0, FALSE)
  <2> QED BY <1>a DEF Data
<1>b. \A n \in Nodes :
        IF n \in archived THEN Data(n).data = IMAGE /\ Data(n).cap = Len(Archive) /\ Data(n).ro
                          ELSE Data(n).data = NULL /\ Data(n).cap = 0 /\ ~Data(n).ro
  <2> DEFINE alias == tmpfs_data(IMAGE, Len(Archive), TRUE)
             none == tmpfs_data(NULL, 0, FALSE)
  <2>1. alias.data = IMAGE /\ alias.cap = Len(Archive) /\ alias.ro
    BY DEF tmpfs_data
  <2>2. none.data = NULL /\ none.cap = 0 /\ ~none.ro
    BY DEF tmpfs_data
  <2>3. \A n \in Nodes : Data(n) = IF n \in archived THEN alias ELSE none
    BY <1>3
  <2> HIDE DEF alias, none
  <2> QED BY <2>1, <2>2, <2>3, Zenon
<1>c. RoIsArchive
  BY <1>b, Zenon DEF RoIsArchive
<1>4. DataSound
  <2> SUFFICES ASSUME NEW n \in Nodes
               PROVE  /\ Data(n).data = NULL => Data(n).cap = 0
                      /\ Data(n).data # NULL => Len(heap[Data(n).data]) = Data(n).cap
                      /\ Data(n).data \in Bufs => Data(n).cap > 0 /\ size[n] > 0
                      /\ size[n] <= Data(n).cap
    BY DEF DataSound
  <2>1. CASE n \in archived
    <3>1. Data(n).data = IMAGE /\ Data(n).cap = Len(Archive) 
      BY <1>b, <2>1, Zenon
    <3>2. size[n] = Len(Archive) /\ heap[IMAGE] = Archive /\ Len(Archive) \in Nat
      BY <1>1, <2>1
    <3> QED BY <3>1, <3>2
  <2>2. CASE n \notin archived
    <3>1. Data(n).data = NULL /\ Data(n).cap = 0
      BY <1>b, <2>2, Zenon
    <3>2. size[n] = 0
      BY <2>2
    <3> QED BY <3>1, <3>2
  <2> QED BY <2>1, <2>2
<1>6. BufferOwned /\ BuffersApart
  BY <1>1, <1>3 DEF BufferOwned, BuffersApart, tmpfs_data
<1> QED BY <1>1, <1>2, <1>c, <1>4, <1>6 DEF IInv, PositionsInside, IsOpen, ArchiveIntact

(* An action that changes neither data nor bytes keeps all but the positions. *)
LEMMA DataUnchanged ==
  ASSUME IInv, UNCHANGED <<size, heap>>, \A n \in Nodes : Data(n)' = Data(n)
  PROVE  RoIsArchive' /\ DataSound' /\ BufferOwned' /\ BuffersApart' /\ ArchiveIntact'
<1>1. RoIsArchive'
  BY Zenon DEF IInv, RoIsArchive
<1>2. DataSound' /\ BufferOwned' /\ BuffersApart' /\ ArchiveIntact'
  BY DEF IInv, DataSound, BufferOwned, BuffersApart, ArchiveIntact
<1> QED BY <1>1, <1>2

(* Moving the position changes nothing else of an open file.               *)
LEMMA Advanced ==
  ASSUME NEW v \in fs_files, NEW k \in Nat
  PROVE  /\ [v EXCEPT !.pos = @ + k] \in fs_files
         /\ [v EXCEPT !.pos = @ + k].node = v.node
         /\ [v EXCEPT !.pos = @ + k].pos = v.pos + k
BY DEF fs_files

(* A read may return nothing.                                              *)
LEMMA NothingRead == <<>> \in Seq(Byte \cup {Junk})
OBVIOUS

(* Opening, closing and seeking move one position. *)
LEMMA PositionIInv ==
  ASSUME IInv, UNCHANGED <<priv, size, heap, spilt>>, got' \in Seq(Byte \cup {Junk}), NEW f \in Files,
         NEW v \in fs_files \cup {NULL}, file' = [file EXCEPT ![f] = v],
         v # NULL => v.pos <= size[v.node]
  PROVE  IInv'
<1>1. TypeOK'
  BY DEF IInv, TypeOK
<1>2. PositionsInside'
  <2> SUFFICES ASSUME NEW g \in Files, IsOpen(g)' PROVE (Pos(g) <= size[Node(g)])'
    BY DEF PositionsInside
  <2>1. CASE g = f
    BY <2>1 DEF IInv, TypeOK, IsOpen, Pos, Node
  <2>2. CASE g # f
    BY <2>2 DEF IInv, TypeOK, PositionsInside, IsOpen, Pos, Node
  <2> QED BY <2>1, <2>2
<1> QED BY <1>1, <1>2, DataUnchanged DEF IInv, Data

(* fs_open keeps the invariant.                                            *)
LEMMA OpenIInv ==
  ASSUME IInv, NEW f \in Files, NEW n \in Nodes, fs_open(f, n)
  PROVE  IInv'
<1> DEFINE v == [node |-> n, pos |-> 0]
<1>1. v \in fs_files /\ v.pos <= size[v.node]
  BY DEF IInv, TypeOK, fs_files
<1>2. file' = [file EXCEPT ![f] = v] /\ got' = <<>> /\ UNCHANGED <<priv, size, heap, spilt>>
  BY DEF fs_open
<1> HIDE DEF v
<1> QED BY <1>1, <1>2, PositionIInv, NothingRead

(* fs_close keeps the invariant.                                           *)
LEMMA CloseIInv ==
  ASSUME IInv, NEW f \in Files, fs_close(f)
  PROVE  IInv'
BY PositionIInv, NothingRead DEF fs_close

(* A read moves the position and touches no buffer.                        *)
LEMMA ReadIInv ==
  ASSUME IInv, NEW f \in Files, NEW cnt \in Nat, NEW d \in Nat, tmpfs_read(f, cnt, d)
  PROVE  IInv'
<1>1. IsOpen(f) /\ file[f] \in fs_files /\ Node(f) \in Nodes /\ Pos(f) \in Nat
      /\ UNCHANGED <<priv, size, heap, spilt>>
  BY FileType DEF tmpfs_read, IInv
<1> DEFINE empty == priv[Node(f)] = NULL \/ Pos(f) >= size[Node(f)] \/ priv[Node(f)].data = NULL
           k == ToRead(f, cnt)
<1>2. CASE empty
  <2>1. got' = <<>> /\ file' = [file EXCEPT ![f] = file[f]]
    BY <1>2 DEF tmpfs_read, IInv, TypeOK
  <2>2. file[f].pos <= size[file[f].node]
    BY <1>1 DEF IInv, PositionsInside, Pos, Node
  <2> QED BY <1>1, <2>1, <2>2, PositionIInv, NothingRead
<1>3. CASE ~empty
  <2> DEFINE src == heap[priv[Node(f)].data]
             read == SubSeq(src, Pos(f) + 1, Pos(f) + k)
             v == [file[f] EXCEPT !.pos = @ + k]
  <2>1. got' = Delivered(d, read) /\ file' = [file EXCEPT ![f] = v]
    BY <1>3 DEF tmpfs_read
  <2>2. size[Node(f)] \in Nat
    BY <1>1, TmpfsAssumption DEF IInv, TypeOK
  <2>3. k \in Nat /\ Pos(f) + k <= size[Node(f)]
    BY <1>1, <1>3, <2>2 DEF ToRead, Least
  <2>4. v \in fs_files /\ v.pos <= size[v.node]
    <3>1. file[f].node = Node(f) /\ file[f].pos = Pos(f)
      BY DEF Node, Pos
    <3> HIDE DEF k
    <3> QED BY <1>1, <2>3, <3>1 DEF fs_files
  <2>5. read \in Seq(Byte \cup {Junk})
    <3>1. Data(Node(f)) = priv[Node(f)]
      BY <1>3 DEF Data
    <3>2. src \in Seq(Byte \cup {Junk}) /\ Len(src) >= size[Node(f)]
      <4>1. Data(Node(f)).data \in Bufs \cup {IMAGE} /\ Data(Node(f)).cap \in Nat
        BY <1>1, <1>3, <3>1, DataType DEF IInv, tmpfs_datas
      <4>2. Len(src) = Data(Node(f)).cap /\ size[Node(f)] <= Data(Node(f)).cap
        BY <1>1, <1>3, <3>1 DEF IInv, DataSound
      <4> QED BY <2>2, <3>1, <4>1, <4>2 DEF IInv, TypeOK
    <3> HIDE DEF k, src
    <3>3. \A i \in Pos(f) + 1 .. Pos(f) + k : src[i] \in Byte \cup {Junk}
      BY <1>1, <2>2, <2>3, <3>2
    <3> QED BY <1>1, <2>3, <3>3, SubSeqProperties
  <2>6. got' \in Seq(Byte \cup {Junk})
    <3> DEFINE place == [i \in 1 .. Len(read) |-> Junk]
    <3> HIDE DEF read
    <3>1. place \in Seq(Byte \cup {Junk})
      BY <2>5
    <3>2. Landed(d, read) \in Seq(Byte \cup {Junk})
      BY <2>5, LandedType
    <3>3. got' = Overlay(place, 0, Landed(d, read))
      BY <2>1 DEF Delivered
    <3> HIDE DEF place
    <3> QED BY <3>1, <3>2, <3>3, OverlayFacts
  <2> HIDE DEF v
  <2> QED BY <1>1, <2>1, <2>4, <2>6, PositionIInv
<1> QED BY <1>2, <1>3

(* lseek, however it wraps, sets a position inside the file.               *)
LEMMA SeekIInv ==
  ASSUME IInv, NEW f \in Files, NEW offset \in 0 .. W - 1,
         NEW whence \in {"SEEK_SET", "SEEK_CUR", "SEEK_END"}, scall_lseek(f, offset, whence)
  PROVE  IInv'
<1> USE TmpfsAssumption
<1>1. file[f] \in fs_files /\ Node(f) \in Nodes /\ Pos(f) \in Nat /\ size[Node(f)] \in Nat
  BY FileType, SMTT(60) DEF scall_lseek, IInv, TypeOK
<1> DEFINE to == NewPos(f, offset, whence)
           v == [file[f] EXCEPT !.pos = to]
<1>2. to \in Nat /\ to <= size[Node(f)]
  <2> DEFINE sz == size[Node(f)]
             at == Pos(f)
             a == (at + offset) % W
             b == (sz + offset) % W
  <2>1. a \in Nat /\ b \in Nat /\ offset \in Nat /\ sz \in Nat
    BY <1>1, SMTT(60)
  <2>2. \A n \in Nat : Least(n, sz) \in Nat /\ Least(n, sz) <= sz
    <3> HIDE DEF sz
    <3> QED BY <2>1 DEF Least
  <2>3. to = Least(offset, sz) \/ to = Least(a, sz) \/ to = Least(b, sz)
    BY DEF NewPos
  <2> HIDE DEF to, sz, a, b
  <2>4. to \in Nat /\ to <= sz
    BY <2>1, <2>2, <2>3
  <2> QED BY <2>4 DEF sz
<1>3. v \in fs_files /\ v.pos <= size[v.node]
  <2>1. file[f].node = Node(f)
    BY DEF Node
  <2> HIDE DEF to
  <2> QED BY <1>1, <1>2, <2>1 DEF fs_files
<1>4. file' = [file EXCEPT ![f] = v] /\ got' = <<>> /\ UNCHANGED <<priv, size, heap, spilt>>
  BY DEF scall_lseek
<1> HIDE DEF v
<1> QED BY <1>3, <1>4, PositionIInv, NothingRead

-----------------------------------------------------------------------------
(* tmpfs_write.  A node keeps its data under a write that stores nothing. *)
LEMMA KeptData ==
  ASSUME TypeOK, NEW n \in Nodes, priv' = [priv EXCEPT ![n] = Data(n)]
  PROVE  priv' \in [Nodes -> tmpfs_datas \cup {NULL}] /\ \A m \in Nodes : Data(m)' = Data(m)
<1>1. Data(n) \in tmpfs_datas /\ Data(n) # NULL
  BY DataType, TmpfsAssumption
<1>2. priv' \in [Nodes -> tmpfs_datas \cup {NULL}]
  BY <1>1 DEF TypeOK
<1>3. \A m \in Nodes : priv'[m] = IF m = n THEN Data(n) ELSE priv[m]
  BY DEF TypeOK
<1>4. \A m \in Nodes : Data(m)' = IF priv'[m] = NULL THEN tmpfs_data(NULL, 0, FALSE) ELSE priv'[m]
  BY DEF Data
<1> QED BY <1>1, <1>2, <1>3, <1>4 DEF Data

(* A write that stores nothing keeps the invariant.                        *)
LEMMA NothingStored ==
  ASSUME IInv, NEW n \in Nodes, priv' = [priv EXCEPT ![n] = Data(n)], got' = <<>>,
         UNCHANGED <<size, heap, file, spilt>>
  PROVE  IInv'
<1>1. priv' \in [Nodes -> tmpfs_datas \cup {NULL}] /\ \A m \in Nodes : Data(m)' = Data(m)
  BY KeptData DEF IInv
<1>2. TypeOK'
  BY <1>1, NothingRead DEF IInv, TypeOK
<1>3. PositionsInside'
  BY DEF IInv, PositionsInside, IsOpen, Pos, Node
<1> QED BY <1>1, <1>2, <1>3, DataUnchanged DEF IInv

(* Bytes stored in a buffer no other node has, large enough for them and for  *)
(* what the file held, keep everything.                                       *)
LEMMA StoredIInv ==
  ASSUME IInv, NEW f \in Files, IsOpen(f), NEW s \in Seq(Byte), Pos(f) + Len(s) <= MaxSize,
         NEW buf \in Bufs, NEW cap \in Nat, priv' = [priv EXCEPT ![Node(f)] = tmpfs_data(buf, cap, FALSE)],
         NEW bytes \in [Bufs \cup {IMAGE} -> Seq(Byte \cup {Junk})], Stored(f, buf, bytes, s),
         Len(bytes[buf]) = cap, cap > 0, Pos(f) + Len(s) <= cap, size[Node(f)] <= cap,
         size[Node(f)] > 0 \/ Pos(f) + Len(s) > 0,
         \A m \in Nodes \ {Node(f)} : Data(m).data # buf
             /\ (Data(m).data # NULL => bytes[Data(m).data] = heap[Data(m).data]),
         \A b \in Bufs \ {buf} : bytes[b] # <<>> => \E m \in Nodes \ {Node(f)} : Data(m).data = b,
         bytes[IMAGE] = heap[IMAGE]
  PROVE  IInv'
<1> USE TmpfsAssumption
<1> DEFINE n == Node(f)
           new == tmpfs_data(buf, cap, FALSE)
           end == Pos(f) + Len(s)
<1>1. n \in Nodes /\ Pos(f) \in Nat /\ file[f] \in fs_files /\ Len(s) \in Nat /\ size[n] \in 0 .. MaxSize
      /\ Pos(f) <= size[n]
  BY FileType DEF IInv, TypeOK, PositionsInside
<1>2. new \in tmpfs_datas /\ new # NULL /\ new.data = buf /\ new.cap = cap
  <2>1. new \in tmpfs_datas
    BY DEF tmpfs_datas, tmpfs_data
  <2>2. new.data = buf /\ new.cap = cap
    BY DEF tmpfs_data
  <2> QED BY <2>1, <2>2
<1>3. ~new.ro
  BY DEF tmpfs_data
<1> DEFINE grown == IF end > size[n] THEN end ELSE size[n]
           laid == memcpy(bytes[buf], Pos(f), s)
           moved == [file[f] EXCEPT !.pos = @ + Len(s)]
<1>4. /\ heap' = [bytes EXCEPT ![buf] = laid]
      /\ file' = [file EXCEPT ![f] = moved]
      /\ size' = [size EXCEPT ![n] = grown]
      /\ got' = <<>>
      /\ spilt' = Beyond(bytes[buf], Pos(f), s)
  BY DEF Stored
<1>5. laid \in Seq(Byte \cup {Junk}) /\ Len(laid) = cap /\ spilt' \in Nat
  <2>1. s \in Seq(Byte \cup {Junk}) /\ bytes[buf] \in Seq(Byte \cup {Junk})
    BY SeqMonotonic
  <2>2. laid \in Seq(Byte \cup {Junk}) /\ Len(laid) = cap
    BY <1>1, <2>1, memcpyType
  <2>3. Copied(Pos(f), Len(s)) \in Nat
    BY <1>1, CopiedType
  <2>4. Pos(f) + Copied(Pos(f), Len(s)) - Len(bytes[buf]) \in Int
    BY <1>1, <2>3
  <2>5. spilt' \in Nat
    BY <1>4, <2>4 DEF Beyond, Greatest
  <2> QED BY <2>2, <2>5
<1>6. grown \in 1 .. MaxSize /\ grown <= cap /\ end <= grown /\ size[n] <= grown
  BY <1>1
<1>7. moved \in fs_files /\ moved.node = n /\ moved.pos = end
  <2>1. file[f].node = n /\ file[f].pos = Pos(f)
    BY DEF Node, Pos
  <2> DEFINE k == Len(s)
  <2>2. k \in Nat
    BY <1>1
  <2> HIDE DEF k
  <2>3. [file[f] EXCEPT !.pos = @ + k] \in fs_files /\ [file[f] EXCEPT !.pos = @ + k].node = n
        /\ [file[f] EXCEPT !.pos = @ + k].pos = Pos(f) + k
    BY <1>1, <2>1, <2>2, Advanced
  <2> QED BY <2>3 DEF k
<1>8. \A m \in Nodes : Data(m)' = IF m = n THEN new ELSE Data(m)
  <2>1. \A m \in Nodes : priv'[m] = IF m = n THEN new ELSE priv[m]
    BY <1>1 DEF IInv, TypeOK
  <2>2. \A m \in Nodes : Data(m)' = IF priv'[m] = NULL THEN tmpfs_data(NULL, 0, FALSE) ELSE priv'[m]
    BY DEF Data
  <2>3. \A m \in Nodes : Data(m) = IF priv[m] = NULL THEN tmpfs_data(NULL, 0, FALSE) ELSE priv[m]
    BY DEF Data
  <2> HIDE DEF new, n
  <2> TAKE m \in Nodes
  <2>4. CASE m = n
    <3>1. priv'[m] = new
      BY <2>1, <2>4
    <3> QED BY <1>2, <2>2, <2>4, <3>1
  <2>5. CASE m # n
    <3>1. priv'[m] = priv[m]
      BY <2>1, <2>5
    <3> QED BY <2>2, <2>3, <2>5, <3>1, ZenonT(60)
  <2> QED BY <2>4, <2>5
<1>9. \A m \in Nodes : size'[m] = IF m = n THEN grown ELSE size[m]
  BY <1>1, <1>4 DEF IInv, TypeOK
<1>10. \A b \in Bufs \cup {IMAGE} : heap'[b] = IF b = buf THEN laid ELSE bytes[b]
  BY <1>4
<1>11. \A m \in Nodes \ {n} : Data(m).data # buf
          /\ (Data(m).data # NULL => heap'[Data(m).data] = heap[Data(m).data])
  <2>1. \A m \in Nodes : Data(m).data # NULL => Data(m).data \in Bufs \cup {IMAGE}
    BY DataType DEF IInv, tmpfs_datas
  <2> HIDE DEF laid, n
  <2> QED BY <1>10, <2>1 DEF n
<1> HIDE DEF grown, laid, moved, new, n, end
<1>12. TypeOK'
  <2>1. priv' \in [Nodes -> tmpfs_datas \cup {NULL}]
    BY <1>1, <1>2 DEF IInv, TypeOK, new, n
  <2>2. size' \in [Nodes -> 0 .. MaxSize] /\ file' \in [Files -> fs_files \cup {NULL}]
    BY <1>1, <1>4, <1>6, <1>7 DEF IInv, TypeOK
  <2>3. heap' \in [Bufs \cup {IMAGE} -> Seq(Byte \cup {Junk})]
    BY <1>4, <1>5
  <2> QED BY <1>4, <1>5, <2>1, <2>2, <2>3, NothingRead DEF TypeOK
<1>13. PositionsInside'
  <2> SUFFICES ASSUME NEW g \in Files, file'[g] # NULL PROVE file'[g].pos <= size'[file'[g].node]
    BY DEF PositionsInside, IsOpen, Pos, Node
  <2>1. CASE g = f
    BY <1>1, <1>4, <1>6, <1>7, <1>9, <2>1 DEF IInv, TypeOK
  <2>2. CASE g # f
    <3>1. file'[g] = file[g] /\ file[g] \in fs_files
      BY <1>4, <2>2 DEF IInv, TypeOK
    <3>2. file[g].node \in Nodes /\ file[g].pos \in Nat /\ file[g].pos <= size[file[g].node]
      BY <3>1 DEF IInv, PositionsInside, IsOpen, Pos, Node, fs_files
    <3>3. size[file[g].node] <= size'[file[g].node]
      <4>1. size[file[g].node] \in Int
        BY <3>2 DEF IInv, TypeOK
      <4> QED BY <1>6, <1>9, <3>2, <4>1
    <3>4. size'[file[g].node] \in Int /\ size[file[g].node] \in Int
      BY <1>12, <3>2, SMTT(60) DEF IInv, TypeOK
    <3> QED BY <3>1, <3>2, <3>3, <3>4
  <2> QED BY <2>1, <2>2
<1>14. RoIsArchive'
  <2>1. \A m \in Nodes : Data(m)'.ro <=> Data(m)'.data = IMAGE
    <3> TAKE m \in Nodes
    <3>1. CASE m = n
      <4>1. Data(m)' = new /\ new.data # IMAGE
        BY <1>2, <1>8, <3>1
      <4> QED BY <1>3, <4>1, Zenon
    <3>2. CASE m # n
      <4>1. Data(m)' = Data(m)
        BY <1>8, <3>2
      <4> QED BY <4>1, Zenon DEF IInv, RoIsArchive
    <3> QED BY <3>1, <3>2
  <2> QED BY <2>1, Zenon DEF RoIsArchive
<1>15. DataSound'
  <2> SUFFICES ASSUME NEW m \in Nodes
      PROVE  /\ Data(m)'.data = NULL => Data(m)'.cap = 0
             /\ Data(m)'.data # NULL => Len(heap'[Data(m)'.data]) = Data(m)'.cap
             /\ Data(m)'.data \in Bufs => Data(m)'.cap > 0 /\ size'[m] > 0
             /\ size'[m] <= Data(m)'.cap
    BY DEF DataSound
  <2>1. CASE m = n
    BY <1>2, <1>5, <1>6, <1>8, <1>9, <1>10, <2>1, SMTT(60)
  <2>2. CASE m # n
    BY <1>8, <1>9, <1>11, <2>2, SMTT(60) DEF IInv, DataSound
  <2> QED BY <2>1, <2>2
<1>17. BufferOwned'
  <2> SUFFICES ASSUME NEW b \in Bufs, heap'[b] # <<>> PROVE \E m \in Nodes : Data(m)'.data = b
    BY DEF BufferOwned
  <2>1. CASE b = buf
    BY <1>1, <1>2, <1>8, <2>1
  <2>2. CASE b # buf
    BY <1>8, <1>10, <2>2, SMTT(60) DEF n
  <2> QED BY <2>1, <2>2
<1>18. BuffersApart'
  <2> SUFFICES ASSUME NEW k \in Nodes, NEW m \in Nodes, k # m, Data(k)'.data \in Bufs
               PROVE  Data(k)'.data # Data(m)'.data
    BY DEF BuffersApart
  <2>1. CASE k = n
    BY <1>2, <1>8, <1>11, <2>1
  <2>2. CASE k # n /\ m = n
    BY <1>2, <1>8, <1>11, <2>2
  <2>3. CASE k # n /\ m # n
    BY <1>8, <2>3 DEF IInv, BuffersApart
  <2> QED BY <2>1, <2>2, <2>3
<1>19. ArchiveIntact'
  BY <1>10 DEF IInv, ArchiveIntact
<1> QED BY <1>12, <1>13, <1>14, <1>15, <1>17, <1>18, <1>19 DEF IInv

(* A write goes to buffer buf of cap bytes, which nobody else has and which  *)
(* begins with what the file held; bytes is the heap it finds.               *)
Storing(f, s, buf, cap, bytes) ==
  /\ priv' = [priv EXCEPT ![Node(f)] = tmpfs_data(buf, cap, FALSE)]
  /\ Stored(f, buf, bytes, s)
  /\ Len(bytes[buf]) = cap /\ cap > 0 /\ Pos(f) + Len(s) <= cap /\ size[Node(f)] <= cap
  /\ size[Node(f)] > 0 \/ Pos(f) + Len(s) > 0
  /\ \A m \in Nodes \ {Node(f)} : Data(m).data # buf
       /\ (Data(m).data # NULL => bytes[Data(m).data] = heap[Data(m).data])
  /\ \A b \in Bufs \ {buf} : bytes[b] # <<>> => \E m \in Nodes \ {Node(f)} : Data(m).data = b
  /\ bytes[IMAGE] = heap[IMAGE]
  /\ \A i \in 1 .. size[Node(f)] : bytes[buf][i] = heap[Data(Node(f)).data][i]

Heaps == [Bufs \cup {IMAGE} -> Seq(Byte \cup {Junk})]

(* A write within the capacity goes to the node's own buffer. *)
LEMMA InPlaceStores ==
  ASSUME IInv, NEW f \in Files, IsOpen(f), NEW s \in Seq(Byte), Pos(f) + Len(s) <= MaxSize,
         ~NeedsBuffer(f, Len(s)), Len(s) > 0, priv' = [priv EXCEPT ![Node(f)] = Data(Node(f))],
         Stored(f, Data(Node(f)).data, heap, s)
  PROVE  \E buf \in Bufs, cap \in Nat : Storing(f, s, buf, cap, heap) /\ heap \in Heaps
<1> DEFINE n == Node(f)
           buf == Data(n).data
           cap == Data(n).cap
<1>1. n \in Nodes /\ Pos(f) \in Nat /\ size[n] \in Nat /\ Len(s) \in Nat
  BY FileType DEF IInv, TypeOK
<1>2. Data(n) \in tmpfs_datas
  BY <1>1, DataType DEF IInv
<1>3. ~Data(n).ro /\ Pos(f) + Len(s) <= cap
  <2>1. ~(Data(n).ro \/ Pos(f) + Len(s) > cap)
    BY DEF NeedsBuffer
  <2>2. ~Data(n).ro /\ ~(Pos(f) + Len(s) > cap)
    BY <2>1, Zenon
  <2>3. cap \in Nat
    BY <1>2 DEF tmpfs_datas
  <2> QED BY <1>1, <2>2, <2>3
<1>4. cap \in Nat /\ cap > 0
  BY <1>1, <1>2, <1>3 DEF tmpfs_datas
<1>5. buf \in Bufs
  <2>1. buf # NULL
    BY <1>1, <1>4 DEF IInv, DataSound
  <2>2. buf # IMAGE
    BY <1>1, <1>3, Zenon DEF IInv, RoIsArchive
  <2> QED BY <1>2, <2>1, <2>2 DEF tmpfs_datas
<1>6. Data(n) = tmpfs_data(buf, cap, FALSE)
  <2>1. Data(n).ro = FALSE
    BY <1>2, <1>3 DEF tmpfs_datas
  <2>2. Data(n) = [data |-> Data(n).data, cap |-> Data(n).cap, ro |-> Data(n).ro]
    BY <1>2 DEF tmpfs_datas
  <2> QED BY <2>1, <2>2, Zenon DEF tmpfs_data
<1>7. heap \in [Bufs \cup {IMAGE} -> Seq(Byte \cup {Junk})]
  BY DEF IInv, TypeOK
<1>8. Len(heap[buf]) = cap /\ size[n] <= cap
  BY <1>1, <1>5, TmpfsAssumption DEF IInv, DataSound
<1>10. \A m \in Nodes \ {n} : Data(m).data # buf
  BY <1>1, <1>5 DEF IInv, BuffersApart
<1>11. \A b \in Bufs \ {buf} : heap[b] # <<>> => \E m \in Nodes \ {n} : Data(m).data = b
  BY DEF IInv, BufferOwned
<1>12. size[n] > 0 \/ Pos(f) + Len(s) > 0
  BY <1>1
<1>13. priv' = [priv EXCEPT ![Node(f)] = tmpfs_data(buf, cap, FALSE)]
  BY <1>6
<1>14. Stored(f, buf, heap, s)
  OBVIOUS
<1>15. \A i \in 1 .. size[Node(f)] : heap[buf][i] = heap[Data(Node(f)).data][i]
  OBVIOUS
<1> HIDE DEF buf, cap
<1> QED BY <1>3, <1>4, <1>5, <1>7, <1>8, <1>10, <1>11, <1>12, <1>13, <1>14, <1>15 DEF n, Storing, Heaps

(* Rounded up, the new capacity holds what the file had and what is written. *)
LEMMA NewCapSuffices ==
  ASSUME IInv, NEW f \in Files, IsOpen(f), NEW cnt \in Nat, NeedsBuffer(f, cnt), NewCap(f, cnt) > 0
  PROVE  /\ NewCap(f, cnt) \in Nat /\ Pos(f) + cnt <= NewCap(f, cnt)
         /\ size[Node(f)] <= NewCap(f, cnt) /\ (size[Node(f)] > 0 \/ Pos(f) + cnt > 0)
<1> DEFINE n == Node(f)
<1>1. n \in Nodes /\ Pos(f) \in Nat /\ size[n] \in Nat /\ Pos(f) <= size[n]
  BY FileType DEF IInv, TypeOK, PositionsInside
<1>2. Data(n).cap \in Nat /\ size[n] <= Data(n).cap
  BY <1>1, DataType DEF IInv, DataSound, tmpfs_datas
<1>3. CASE Data(n).ro
  <2>1. NewCap(f, cnt) = RoundUp(size[n] + cnt)
    BY <1>3 DEF NewCap
  <2>2. size[n] + cnt \in Nat /\ RoundUp(size[n] + cnt) \in Nat /\ RoundUp(size[n] + cnt) >= size[n] + cnt
    BY <1>1, RoundUpGrows
  <2>3. RoundUp(0) = 0
    <3>1. (0 + Page - 1) \div Page = 0
      BY TmpfsAssumption
    <3>2. RoundUp(0) = 0 * Page
      BY <3>1 DEF RoundUp
    <3> QED BY <3>2, TmpfsAssumption
  <2>4. size[n] + cnt # 0
    BY <2>1, <2>3
  <2> QED BY <1>1, <2>1, <2>2, <2>4
<1>4. CASE ~Data(n).ro
  <2>1. NewCap(f, cnt) = RoundUp(Pos(f) + cnt)
    BY <1>4 DEF NewCap
  <2>2. Pos(f) + cnt > Data(n).cap
    BY <1>4 DEF NeedsBuffer
  <2>3. Pos(f) + cnt \in Nat /\ RoundUp(Pos(f) + cnt) \in Nat /\ RoundUp(Pos(f) + cnt) >= Pos(f) + cnt
    BY <1>1, RoundUpGrows
  <2> QED BY <1>1, <1>2, <2>1, <2>2, <2>3
<1> QED BY <1>3, <1>4

(* A write beyond the capacity, or to the archive, moves to a free buffer. *)
LEMMA GrowStores ==
  ASSUME IInv, NEW f \in Files, IsOpen(f), NEW s \in Seq(Byte), Pos(f) + Len(s) <= MaxSize,
         NeedsBuffer(f, Len(s)), NewCap(f, Len(s)) > 0, NEW b \in Bufs, heap[b] = <<>>,
         priv' = [priv EXCEPT ![Node(f)] = tmpfs_data(b, NewCap(f, Len(s)), FALSE)],
         Stored(f, b, Moved(Node(f), b, NewCap(f, Len(s))), s)
  PROVE  \E cap \in Nat : \E bytes \in Heaps : Storing(f, s, b, cap, bytes)
<1> USE TmpfsAssumption
<1> DEFINE n == Node(f)
           cap == NewCap(f, Len(s))
           kept == IF Data(n).data = NULL \/ size[n] = 0 THEN <<>> ELSE SubSeq(heap[Data(n).data], 1, size[n])
           freed == IF Data(n).ro \/ size[n] = 0 THEN {} ELSE {Data(n).data}
           blank == [i \in 1 .. cap |-> Junk]
           bytes == Moved(n, b, cap)
<1>1. n \in Nodes /\ Pos(f) \in Nat /\ size[n] \in Nat /\ Len(s) \in Nat
  BY FileType DEF IInv, TypeOK
<1>2. cap \in Nat /\ Pos(f) + Len(s) <= cap /\ size[n] <= cap /\ (size[n] > 0 \/ Pos(f) + Len(s) > 0)
  BY <1>1, NewCapSuffices
<1>3. \A m \in Nodes : Data(m).data \in Bufs \cup {NULL, IMAGE} /\ Data(m).cap \in Nat
  BY DataType DEF IInv, tmpfs_datas
<1>4. \A m \in Nodes : Data(m).data # b
  <2> SUFFICES ASSUME NEW m \in Nodes, Data(m).data = b PROVE FALSE
    OBVIOUS
  <2>1. Len(heap[b]) = Data(m).cap /\ Data(m).cap > 0
    BY DEF IInv, DataSound
  <2> QED BY <2>1
<1>5. kept \in Seq(Byte \cup {Junk})
  <2>1. CASE size[n] = 0
    BY <2>1, NothingRead
  <2>2. CASE size[n] # 0
    <3>1. Data(n).data \in Bufs \cup {IMAGE}
      BY <1>1, <1>3, <2>2 DEF IInv, DataSound
    <3>2. kept = SubSeq(heap[Data(n).data], 1, size[n])
      BY <2>2, <3>1
    <3>3. heap[Data(n).data] \in Seq(Byte \cup {Junk}) /\ size[n] <= Len(heap[Data(n).data])
      BY <1>1, <3>1 DEF IInv, TypeOK, DataSound
    <3>4. \A i \in 1 .. size[n] : heap[Data(n).data][i] \in Byte \cup {Junk}
      BY <1>1, <3>3, SMTT(60)
    <3> HIDE DEF kept
    <3> QED BY <1>1, <3>2, <3>4, SubSeqProperties
  <2> QED BY <2>1, <2>2
<1>6. blank \in Seq(Byte \cup {Junk}) /\ Len(blank) = cap
  <2> HIDE DEF cap
  <2> QED BY <1>2
<1>8. bytes = [c \in DOMAIN heap |-> IF c = b THEN memcpy(blank, 0, kept)
                                    ELSE IF c \in freed THEN <<>> ELSE heap[c]]
  BY DEF Moved
<1>9. heap \in [Bufs \cup {IMAGE} -> Seq(Byte \cup {Junk})]
  BY DEF IInv, TypeOK
<1>10. freed \subseteq Bufs /\ freed \subseteq {Data(n).data}
  <2>1. ASSUME ~Data(n).ro, size[n] # 0 PROVE Data(n).data \in Bufs
    <3>1. Data(n).data # NULL
      BY <1>1, <1>3, <2>1 DEF IInv, DataSound
    <3>2. Data(n).data # IMAGE
      BY <1>1, <2>1, Zenon DEF IInv, RoIsArchive
    <3> QED BY <1>1, <1>3, <3>1, <3>2
  <2> QED BY <2>1, Zenon
<1>11. Data(n).data \in Bufs => freed = {Data(n).data}
  <2>1. Data(n).data \in Bufs => size[n] # 0
    BY <1>1 DEF IInv, DataSound
  <2>2. Data(n).data \in Bufs => ~Data(n).ro
    BY <1>1, Zenon DEF IInv, RoIsArchive
  <2> QED BY <2>1, <2>2, Zenon
<1>12. memcpy(blank, 0, kept) \in Seq(Byte \cup {Junk}) /\ Len(memcpy(blank, 0, kept)) = cap
  <2> HIDE DEF blank, kept, cap
  <2> QED BY <1>5, <1>6, memcpyType
<1>20. \A i \in 1 .. size[n] : memcpy(blank, 0, kept)[i] = heap[Data(n).data][i]
  <2> SUFFICES ASSUME NEW i \in 1 .. size[n]
               PROVE  memcpy(blank, 0, kept)[i] = heap[Data(n).data][i]
    OBVIOUS
  <2>1. size[n] # 0 /\ Data(n).data \in Bufs \cup {IMAGE}
    BY <1>1, <1>3 DEF IInv, DataSound
  <2>2. kept = SubSeq(heap[Data(n).data], 1, size[n])
    BY <2>1
  <2>3. heap[Data(n).data] \in Seq(Byte \cup {Junk}) /\ size[n] <= Len(heap[Data(n).data])
    BY <1>1, <2>1 DEF IInv, TypeOK, DataSound
  <2>4. Len(kept) = size[n] /\ kept[i] = heap[Data(n).data][i]
    <3> HIDE DEF kept
    <3> QED BY <1>1, <2>2, <2>3, SMTT(60)
  <2> HIDE DEF blank, kept, cap
  <2>5. memcpy(blank, 0, kept)[i] = kept[i]
    <3>1. 0 \in Nat /\ Exact(0, Len(kept)) /\ i \in 1 .. Len(blank) /\ 0 + Len(kept) <= Len(blank)
      BY <1>1, <1>2, <1>5, <1>6, <2>4, ExactAtStart
    <3>2. i > 0 /\ i <= 0 + Len(kept) /\ i - 0 = i
      BY <1>1, <2>4
    <3> QED BY <1>5, <1>6, <3>1, <3>2, memcpyExact, ZenonT(60)
  <2> QED BY <2>4, <2>5
<1> HIDE DEF kept, blank, freed, cap
<1>13. bytes \in [Bufs \cup {IMAGE} -> Seq(Byte \cup {Junk})]
  <2>1. <<>> \in Seq(Byte \cup {Junk})
    OBVIOUS
  <2> HIDE DEF bytes
  <2> QED BY <1>8, <1>9, <1>12, <2>1
<1>14. \A c \in Bufs \cup {IMAGE} : bytes[c] =
          IF c = b THEN memcpy(blank, 0, kept) ELSE IF c \in freed THEN <<>> ELSE heap[c]
  <2> HIDE DEF bytes
  <2> QED BY <1>8, <1>9
<1> HIDE DEF bytes
<1>15. Len(bytes[b]) = cap
  BY <1>12, <1>14
<1>16. bytes[IMAGE] = heap[IMAGE]
  BY <1>10, <1>14
<1>17. \A m \in Nodes \ {n} : Data(m).data # b
          /\ (Data(m).data # NULL => bytes[Data(m).data] = heap[Data(m).data])
  <2> SUFFICES ASSUME NEW m \in Nodes \ {n}, Data(m).data # NULL
               PROVE  bytes[Data(m).data] = heap[Data(m).data]
    BY <1>4
  <2>1. Data(m).data \in Bufs \cup {IMAGE} /\ Data(m).data # b
    BY <1>3, <1>4
  <2>2. Data(m).data \notin freed
    BY <1>1, <1>10, <2>1 DEF IInv, BuffersApart
  <2> QED BY <1>14, <2>1, <2>2
<1>18. \A c \in Bufs \ {b} : bytes[c] # <<>> => \E m \in Nodes \ {n} : Data(m).data = c
  <2> SUFFICES ASSUME NEW c \in Bufs \ {b}, bytes[c] # <<>>
               PROVE  \E m \in Nodes \ {n} : Data(m).data = c
    OBVIOUS
  <2>1. c \notin freed /\ heap[c] # <<>>
    BY <1>14
  <2>2. PICK m \in Nodes : Data(m).data = c
    BY <2>1 DEF IInv, BufferOwned
  <2>3. m # n
    BY <1>11, <2>1, <2>2
  <2> QED BY <2>2, <2>3
<1>19. priv' = [priv EXCEPT ![Node(f)] = tmpfs_data(b, cap, FALSE)] /\ Stored(f, b, bytes, s) /\ cap > 0
  BY DEF bytes, cap
<1>21. \A i \in 1 .. size[n] : bytes[b][i] = heap[Data(n).data][i]
  BY <1>14, <1>20
<1> QED BY <1>2, <1>13, <1>15, <1>16, <1>17, <1>18, <1>19, <1>21, ZenonT(60) DEF n, Storing, Heaps

(* A write keeps the invariant, in place and with a larger buffer.         *)
LEMMA WriteIInv ==
  ASSUME IInv, NEW f \in Files, NEW s \in Seq(Byte), tmpfs_write(f, s)
  PROVE  IInv'
<1>1. IsOpen(f) /\ Pos(f) + Len(s) <= MaxSize /\ Node(f) \in Nodes
  BY FileType DEF tmpfs_write, IInv
<1>2. CASE NeedsBuffer(f, Len(s)) /\ priv' = [priv EXCEPT ![Node(f)] = Data(Node(f))]
           /\ got' = <<>> /\ UNCHANGED <<size, heap, file, spilt>>
  BY <1>1, <1>2, NothingStored
<1>3. CASE NeedsBuffer(f, Len(s)) /\ NewCap(f, Len(s)) > 0 /\ \E b \in Bufs :
              /\ heap[b] = <<>>
              /\ priv' = [priv EXCEPT ![Node(f)] = tmpfs_data(b, NewCap(f, Len(s)), FALSE)]
              /\ Stored(f, b, Moved(Node(f), b, NewCap(f, Len(s))), s)
  <2>1. PICK b \in Bufs, cap \in Nat, bytes \in Heaps : Storing(f, s, b, cap, bytes)
    BY <1>1, <1>3, GrowStores
  <2> QED BY <1>1, <2>1, StoredIInv DEF Storing, Heaps
<1>4. CASE ~NeedsBuffer(f, Len(s)) /\ Len(s) > 0 /\ priv' = [priv EXCEPT ![Node(f)] = Data(Node(f))]
           /\ Stored(f, Data(Node(f)).data, heap, s)
  <2>1. PICK b \in Bufs, cap \in Nat : Storing(f, s, b, cap, heap) /\ heap \in Heaps
    BY <1>1, <1>4, InPlaceStores
  <2> QED BY <1>1, <2>1, StoredIInv DEF Storing, Heaps
<1>5. CASE ~NeedsBuffer(f, Len(s)) /\ Len(s) = 0 /\ priv' = [priv EXCEPT ![Node(f)] = Data(Node(f))]
           /\ got' = <<>> /\ UNCHANGED <<size, heap, file, spilt>>
  BY <1>1, <1>5, NothingStored
<1> QED BY <1>2, <1>3, <1>4, <1>5 DEF tmpfs_write

-----------------------------------------------------------------------------
(* Every operation keeps the invariant.                                    *)
LEMMA NextIInv == IInv /\ [Next]_vars => IInv'
<1> SUFFICES ASSUME IInv, [Next]_vars PROVE IInv'
  OBVIOUS
<1>1. ASSUME NEW f \in Files, NEW n \in Nodes, fs_open(f, n) PROVE IInv'
  BY <1>1, OpenIInv
<1>2. ASSUME NEW f \in Files, fs_close(f) PROVE IInv'
  BY <1>2, CloseIInv
<1>3. ASSUME NEW f \in Files, NEW cnt \in 1 .. MaxSize, NEW d \in 0 .. Word - 1, tmpfs_read(f, cnt, d)
      PROVE  IInv'
  BY <1>3, ReadIInv, TmpfsAssumption, MemLibAssumption
<1>4. ASSUME NEW f \in Files, NEW k \in 0 .. MaxWrite, NEW s \in [1 .. k -> Byte], tmpfs_write(f, s)
      PROVE  IInv'
  <2>1. k \in Nat
    BY TmpfsAssumption
  <2>2. s \in Seq(Byte)
    BY <2>1
  <2> QED BY <1>4, <2>2, WriteIInv
<1>5. ASSUME NEW f \in Files, NEW offset \in 0 .. W - 1,
             NEW whence \in {"SEEK_SET", "SEEK_CUR", "SEEK_END"}, scall_lseek(f, offset, whence)
      PROVE  IInv'
  BY <1>5, SeekIInv
<1>6. CASE UNCHANGED vars
  <2>1. \A n \in Nodes : Data(n)' = Data(n)
    BY <1>6 DEF vars, Data
  <2>2. TypeOK' /\ PositionsInside'
    BY <1>6 DEF IInv, vars, TypeOK, PositionsInside, IsOpen, Pos, Node
  <2> QED BY <1>6, <2>1, <2>2, DataUnchanged DEF IInv, vars
<1> QED BY <1>1, <1>2, <1>3, <1>4, <1>5, <1>6 DEF Next

(* Files, descriptors and buffers stay sound together.                     *)
THEOREM TmpfsIInv == Spec => []IInv
BY InitIInv, NextIInv, PTL DEF Spec

(* Nodes, descriptors and buffers always hold what their declarations say,    *)
(* also where memcpy copies too little or too much.                           *)
THEOREM TmpfsTypeCorrect == Spec => []TypeOK
<1>1. IInv => TypeOK
  BY DEF IInv
<1> QED BY <1>1, TmpfsIInv, PTL

(* However seeks wrap, whichever descriptors share a node and however it      *)
(* grows, no position passes the end of its file.                             *)
THEOREM TmpfsPositions == Spec => []PositionsInside
<1>1. IInv => PositionsInside
  BY DEF IInv
<1> QED BY <1>1, TmpfsIInv, PTL

(* Every allocated buffer is one node's and as large as its capacity says:    *)
(* no growth or promotion leaks, shares or outgrows one.                      *)
THEOREM TmpfsBuffers == Spec => []BuffersOwned
<1>1. IInv => BuffersOwned
  <2> SUFFICES ASSUME IInv PROVE BuffersOwned
    OBVIOUS
  <2>1. \A n \in Nodes : Data(n).data \in Bufs => Len(heap[Data(n).data]) = Data(n).cap
    BY TmpfsAssumption DEF IInv, DataSound
  <2> QED BY <2>1 DEF IInv, BufferOwned, BuffersApart, BuffersOwned
<1> QED BY <1>1, TmpfsIInv, PTL

(* The boot archive keeps its bytes under any pattern of writes to the files  *)
(* that alias it.                                                             *)
THEOREM TmpfsArchive == Spec => []ArchiveIntact
<1>1. IInv => ArchiveIntact
  BY DEF IInv
<1> QED BY <1>1, TmpfsIInv, PTL

(* However seeks wrap and files grow, positions lie inside their files,       *)
(* buffers have one owner, and the archive is untouched.                      *)
THEOREM TmpfsFilesSound == Spec => []FilesSound
<1>1. PositionsInside /\ BuffersOwned /\ ArchiveIntact => FilesSound
  BY DEF FilesSound
<1> QED BY <1>1, TmpfsPositions, TmpfsBuffers, TmpfsArchive, PTL

-----------------------------------------------------------------------------
(* The bytes of a file and where the descriptors are, as Contents sees them.  *)
Bytes(n) == IF size[n] = 0 THEN <<>> ELSE SubSeq(heap[Data(n).data], 1, size[n])
BytesOf == [n \in Nodes |-> Bytes(n)]
At == [f \in Files |-> IF IsOpen(f) THEN <<Node(f), Pos(f)>> ELSE <<>>]

(* The bytes of a file are as many as its size says and lie in its buffer.    *)
LEMMA BytesInBuffer ==
  ASSUME IInv, NEW n \in Nodes
  PROVE  /\ size[n] \in 0 .. MaxSize /\ size[n] \in Nat
         /\ Bytes(n) \in Seq(Byte \cup {Junk}) /\ Len(Bytes(n)) = size[n]
         /\ \A i \in 1 .. size[n] : Bytes(n)[i] = heap[Data(n).data][i]
         /\ size[n] > 0 => /\ Data(n).data \in Bufs \cup {IMAGE}
                           /\ heap[Data(n).data] \in Seq(Byte \cup {Junk})
                           /\ size[n] <= Len(heap[Data(n).data])
<1>1. size[n] \in 0 .. MaxSize /\ size[n] \in Nat
  BY TmpfsAssumption DEF IInv, TypeOK
<1>2. CASE size[n] = 0
  BY <1>1, <1>2, NothingRead DEF Bytes
<1>3. CASE size[n] # 0
  <2>1. Data(n).data \in Bufs \cup {NULL, IMAGE} /\ Data(n).cap \in Nat
    BY DataType DEF IInv, tmpfs_datas
  <2>2. Data(n).data # NULL /\ size[n] <= Data(n).cap
    BY <1>1, <1>3, <2>1 DEF IInv, DataSound
  <2>3. heap[Data(n).data] \in Seq(Byte \cup {Junk}) /\ size[n] <= Len(heap[Data(n).data])
    BY <2>1, <2>2 DEF IInv, TypeOK, DataSound
  <2> DEFINE all == heap[Data(n).data]
  <2>4. Bytes(n) = SubSeq(all, 1, size[n])
    BY <1>3 DEF Bytes
  <2>5. all \in Seq(Byte \cup {Junk}) /\ size[n] <= Len(all)
    BY <2>3
  <2> HIDE DEF all
  <2>6. \A i \in 1 .. size[n] : all[i] \in Byte \cup {Junk}
    BY <1>1, <2>5
  <2>7. /\ SubSeq(all, 1, size[n]) \in Seq(Byte \cup {Junk}) /\ Len(SubSeq(all, 1, size[n])) = size[n]
        /\ \A i \in 1 .. size[n] : SubSeq(all, 1, size[n])[i] = all[i]
    BY <1>1, <2>5, <2>6, SubSeqProperties
  <2> QED BY <1>1, <2>1, <2>2, <2>3, <2>4, <2>7 DEF all
<1> QED BY <1>2, <1>3

(* An open descriptor is where Contents has it.                               *)
LEMMA WhereOpen ==
  ASSUME IInv, NEW f \in Files, IsOpen(f)
  PROVE  /\ At[f] = <<Node(f), Pos(f)>> /\ At[f] # <<>> /\ At[f][1] = Node(f) /\ At[f][2] = Pos(f)
         /\ Node(f) \in Nodes /\ Pos(f) \in 0 .. MaxSize /\ Pos(f) <= Len(BytesOf[Node(f)])
         /\ BytesOf[Node(f)] = Bytes(Node(f)) /\ Len(BytesOf[Node(f)]) = size[Node(f)]
<1>1. Node(f) \in Nodes /\ Pos(f) \in Nat /\ Pos(f) <= size[Node(f)]
  BY FileType DEF IInv, PositionsInside
<1>2. Len(Bytes(Node(f))) = size[Node(f)] /\ size[Node(f)] \in 0 .. MaxSize
  BY <1>1, BytesInBuffer
<1> QED BY <1>1, <1>2, TmpfsAssumption DEF At, BytesOf

DescriptorSet(f, v) == file' = [file EXCEPT ![f] = v]

(* How a change of one descriptor changes where the descriptors are.          *)
LEMMA AtAfter ==
  ASSUME IInv, NEW f \in Files
  PROVE  /\ file' = [file EXCEPT ![f] = NULL] => At' = [At EXCEPT ![f] = <<>>]
         /\ \A v \in fs_files : v # NULL /\ DescriptorSet(f, v) =>
              At' = [At EXCEPT ![f] = <<v.node, v.pos>>]
<1>1. At' = [g \in Files |-> IF file'[g] # NULL THEN <<file'[g].node, file'[g].pos>> ELSE <<>>]
  BY DEF At, IsOpen, Node, Pos
<1>2. At = [g \in Files |-> IF file[g] # NULL THEN <<file[g].node, file[g].pos>> ELSE <<>>]
  BY DEF At, IsOpen, Node, Pos
<1>3. file' = [file EXCEPT ![f] = NULL] => At' = [At EXCEPT ![f] = <<>>]
  <2> SUFFICES ASSUME file' = [file EXCEPT ![f] = NULL] PROVE At' = [At EXCEPT ![f] = <<>>]
    OBVIOUS
  <2>1. \A g \in Files : file'[g] = IF g = f THEN NULL ELSE file[g]
    BY DEF IInv, TypeOK
  <2> QED BY <1>1, <1>2, <2>1
<1>4. ASSUME NEW v \in fs_files, v # NULL, DescriptorSet(f, v)
      PROVE  At' = [At EXCEPT ![f] = <<v.node, v.pos>>]
  <2>1. \A g \in Files : file'[g] = IF g = f THEN v ELSE file[g]
    BY <1>4 DEF IInv, TypeOK, DescriptorSet
  <2> QED BY <1>1, <1>2, <1>4, <2>1
<1> QED BY <1>3, <1>4

(* A part of a sequence, by its elements.                                     *)
LEMMA PartOf ==
  ASSUME NEW S, NEW c, NEW p \in Nat, NEW k \in Nat, \A i \in p + 1 .. p + k : c[i] \in S
  PROVE  /\ SubSeq(c, p + 1, p + k) \in Seq(S) /\ Len(SubSeq(c, p + 1, p + k)) = k
         /\ \A i \in 1 .. k : SubSeq(c, p + 1, p + k)[i] = c[p + i]
<1>1. p + 1 \in Int /\ p + k \in Int /\ (p + k) - (p + 1) + 1 = k
      /\ \A i \in 1 .. k : p + 1 + i - 1 = p + i
  OBVIOUS
<1>2. /\ SubSeq(c, p + 1, p + k) \in Seq(S)
      /\ Len(SubSeq(c, p + 1, p + k)) = IF p + 1 <= p + k THEN (p + k) - (p + 1) + 1 ELSE 0
      /\ \A i \in 1 .. (p + k) - (p + 1) + 1 : SubSeq(c, p + 1, p + k)[i] = c[p + 1 + i - 1]
  BY <1>1, SubSeqProperties
<1>3. Len(SubSeq(c, p + 1, p + k)) = k
  BY <1>1, <1>2
<1> QED BY <1>1, <1>2, <1>3

(* Without a change of sizes and buffers the files hold what they held.       *)
LEMMA BytesKept ==
  ASSUME UNCHANGED <<size, heap>>, \A n \in Nodes : Data(n)' = Data(n)
  PROVE  BytesOf' = BytesOf
BY DEF BytesOf, Bytes

-----------------------------------------------------------------------------
(* Steps of Contents, told by what they do to BytesOf and At.                 *)
LEMMA OpenStep ==
  ASSUME NEW f \in Files, NEW n \in Nodes, At[f] = <<>>, At' = [At EXCEPT ![f] = <<n, 0>>],
         got' = <<>>, BytesOf' = BytesOf
  PROVE  Contents!AbsNext
<1>1. Contents!AbsOpen(f)
  BY DEF BytesOf, Bytes, At, Contents!AbsOpen, Contents!IsOpen
<1> QED BY <1>1 DEF Contents!AbsNext

(* Closing gives up a place. *)
LEMMA CloseStep ==
  ASSUME NEW f \in Files, At[f] # <<>>, At' = [At EXCEPT ![f] = <<>>], got' = <<>>, BytesOf' = BytesOf
  PROVE  Contents!AbsNext
<1>1. Contents!AbsClose(f)
  BY DEF BytesOf, Bytes, At, Contents!AbsClose, Contents!IsOpen
<1> QED BY <1>1 DEF Contents!AbsNext

(* A seek stays inside the file. *)
LEMMA SeekStep ==
  ASSUME NEW f \in Files, NEW p \in 0 .. MaxSize, At[f] # <<>>, p <= Len(BytesOf[At[f][1]]),
         At' = [At EXCEPT ![f] = <<At[f][1], p>>], got' = <<>>, BytesOf' = BytesOf
  PROVE  Contents!AbsNext
<1>1. Contents!AbsSeek(f)
  BY DEF BytesOf, Bytes, At, Contents!AbsSeek, Contents!IsOpen
<1> QED BY <1>1 DEF Contents!AbsNext

(* A read moves past what it delivers. *)
LEMMA ReadStep ==
  ASSUME NEW f \in Files, NEW k \in 0 .. MaxSize, At[f] # <<>>,
         At[f][2] + k <= Len(BytesOf[At[f][1]]),
         got' = SubSeq(BytesOf[At[f][1]], At[f][2] + 1, At[f][2] + k),
         At' = [At EXCEPT ![f] = <<At[f][1], At[f][2] + k>>], BytesOf' = BytesOf
  PROVE  Contents!AbsNext
<1>1. Contents!AbsRead(f)
  BY DEF BytesOf, Bytes, At, Contents!AbsRead, Contents!IsOpen
<1> QED BY <1>1 DEF Contents!AbsNext

(* A write lays bytes over the ones at the position and moves past them. *)
LEMMA WriteStep ==
  ASSUME NEW f \in Files, NEW k \in 0 .. MaxSize, NEW s \in [1 .. k -> Byte], At[f] # <<>>,
         BytesOf' = [BytesOf EXCEPT ![At[f][1]] = Contents!Overlay(BytesOf[At[f][1]], At[f][2], s)],
         At' = [At EXCEPT ![f] = <<At[f][1], At[f][2] + k>>], got' = <<>>
  PROVE  Contents!AbsNext
<1>1. Contents!AbsWrite(f)
  BY DEF BytesOf, Bytes, At, Contents!AbsWrite, Contents!IsOpen
<1> QED BY <1>1 DEF Contents!AbsNext
-----------------------------------------------------------------------------
(* Opening, closing and seeking are what Contents calls so.                   *)
LEMMA OpenContents ==
  ASSUME IInv, NEW f \in Files, NEW n \in Nodes, fs_open(f, n)
  PROVE  Contents!AbsNext
<1> DEFINE v == [node |-> n, pos |-> 0]
<1>1. v \in fs_files /\ v # NULL /\ v.node = n /\ v.pos = 0
  BY TmpfsAssumption DEF fs_files
<1>2. file' = [file EXCEPT ![f] = v] /\ got' = <<>> /\ UNCHANGED <<priv, size, heap>> /\ ~ IsOpen(f)
  BY DEF fs_open
<1> HIDE DEF v
<1>3. At' = [At EXCEPT ![f] = <<n, 0>>]
  <2>1. DescriptorSet(f, v)
    BY <1>2 DEF DescriptorSet
  <2> QED BY <1>1, <2>1, AtAfter, SMTT(30)
<1>4. At[f] = <<>>
  BY <1>2 DEF At
<1>5. BytesOf' = BytesOf
  BY <1>2, BytesKept DEF Data
<1> QED BY <1>2, <1>3, <1>4, <1>5, OpenStep

(* fs_close gives up the place of a descriptor. *)
LEMMA CloseContents ==
  ASSUME IInv, NEW f \in Files, fs_close(f)
  PROVE  Contents!AbsNext
<1>1. file' = [file EXCEPT ![f] = NULL] /\ got' = <<>> /\ UNCHANGED <<priv, size, heap>> /\ IsOpen(f)
  BY DEF fs_close
<1>2. At' = [At EXCEPT ![f] = <<>>]
  BY <1>1, AtAfter
<1>3. At[f] # <<>>
  BY <1>1, WhereOpen
<1>4. BytesOf' = BytesOf
  BY <1>1, BytesKept DEF Data
<1> QED BY <1>1, <1>2, <1>3, <1>4, CloseStep

(* A descriptor set to a place inside its file, and nothing else.             *)
LEMMA PlacedContents ==
  ASSUME IInv, NEW f \in Files, IsOpen(f), NEW p \in Nat, p <= size[Node(f)],
         file' = [file EXCEPT ![f] = [file[f] EXCEPT !.pos = p]], got' = <<>>, BytesOf' = BytesOf
  PROVE  Contents!AbsNext
<1> DEFINE v == [file[f] EXCEPT !.pos = p]
<1>1. file[f] \in fs_files /\ file[f].node = Node(f) /\ Node(f) \in Nodes
  BY FileType DEF IInv, Node
<1>2. v \in fs_files /\ v.node = Node(f) /\ v.pos = p /\ v # NULL /\ file' = [file EXCEPT ![f] = v]
  <2>1. v \in fs_files /\ v.node = Node(f) /\ v.pos = p
    BY <1>1 DEF fs_files
  <2>2. file' = [file EXCEPT ![f] = v]
    OBVIOUS
  <2> HIDE DEF v
  <2> QED BY <2>1, <2>2, TmpfsAssumption
<1> HIDE DEF v
<1>3. At' = [At EXCEPT ![f] = <<Node(f), p>>]
  <2>1. v \in fs_files /\ v # NULL /\ DescriptorSet(f, v)
    BY <1>2 DEF DescriptorSet
  <2>2. At' = [At EXCEPT ![f] = <<v.node, v.pos>>]
    BY <2>1, AtAfter, ZenonT(60)
  <2>3. v.node = Node(f) /\ v.pos = p
    BY <1>2
  <2> QED BY <2>2, <2>3
<1>4. p \in 0 .. MaxSize
  BY <1>1, BytesInBuffer, TmpfsAssumption
<1>5. At[f] # <<>> /\ At[f][1] = Node(f) /\ p <= Len(BytesOf[Node(f)])
  BY WhereOpen
<1> QED BY <1>3, <1>4, <1>5, SeekStep

(* scall_lseek moves to a place inside the file, however the sum wraps. *)
LEMMA SeekContents ==
  ASSUME IInv, NEW f \in Files, NEW offset \in 0 .. W - 1,
         NEW whence \in {"SEEK_SET", "SEEK_CUR", "SEEK_END"}, scall_lseek(f, offset, whence)
  PROVE  Contents!AbsNext
<1> DEFINE to == NewPos(f, offset, whence)
<1>1. IsOpen(f) /\ Node(f) \in Nodes /\ Pos(f) \in Nat /\ size[Node(f)] \in Nat
  BY FileType, BytesInBuffer DEF scall_lseek, IInv
<1>2. to \in Nat /\ to <= size[Node(f)]
  <2>1. (Pos(f) + offset) % W \in Nat /\ (size[Node(f)] + offset) % W \in Nat /\ offset \in Nat
    BY <1>1, TmpfsAssumption, SMTT(60)
  <2> QED BY <1>1, <2>1 DEF NewPos, Least
<1>3. file' = [file EXCEPT ![f] = [file[f] EXCEPT !.pos = to]] /\ got' = <<>>
      /\ UNCHANGED <<priv, size, heap>>
  BY DEF scall_lseek
<1>4. BytesOf' = BytesOf
  BY <1>3, BytesKept DEF Data
<1> HIDE DEF to
<1> QED BY <1>1, <1>2, <1>3, <1>4, PlacedContents

(* What changes no file and no position is a seek to where a descriptor is.   *)
LEMMA NothingContents ==
  ASSUME IInv, NEW f \in Files, IsOpen(f), file' = file, got' = <<>>, BytesOf' = BytesOf
  PROVE  Contents!AbsNext
<1>1. file[f] \in fs_files /\ Pos(f) \in Nat /\ Pos(f) <= size[Node(f)] /\ Pos(f) = file[f].pos
  BY FileType DEF IInv, PositionsInside, Pos
<1>2. file' = [file EXCEPT ![f] = [file[f] EXCEPT !.pos = Pos(f)]]
  BY <1>1 DEF IInv, TypeOK, fs_files
<1> QED BY <1>1, <1>2, PlacedContents

-----------------------------------------------------------------------------
(* An exact copy delivers the bytes it was given.                             *)
LEMMA DeliveredExactly ==
  ASSUME NEW d \in Nat, NEW s \in Seq(Byte \cup {Junk}), Exact(d, Len(s))
  PROVE  Delivered(d, s) = s
<1> DEFINE place == [i \in 1 .. Len(s) |-> Junk]
<1>1. place \in Seq(Byte \cup {Junk}) /\ Len(place) = Len(s)
  OBVIOUS
<1>2. Landed(d, s) \in Seq(Byte \cup {Junk}) /\ Len(Landed(d, s)) = Len(s)
  BY LandedType DEF Exact
<1>3. \A i \in 1 .. Len(s) : Landed(d, s)[i] = s[i]
  BY DEF Landed, Exact
<1>4. Delivered(d, s) = Overlay(place, 0, Landed(d, s))
  BY DEF Delivered
<1> HIDE DEF place, Landed
<1>5. /\ Delivered(d, s) \in Seq(Byte \cup {Junk}) /\ Len(Delivered(d, s)) = Len(s)
      /\ \A i \in 1 .. Len(s) : Delivered(d, s)[i] =
           IF i > 0 /\ i <= 0 + Len(s) THEN Landed(d, s)[i - 0] ELSE place[i]
  BY <1>1, <1>2, <1>4, OverlayFacts
<1>6. \A i \in 1 .. Len(s) : Delivered(d, s)[i] = s[i]
  BY <1>3, <1>5
<1> QED BY <1>5, <1>6, SeqEqual

(* A read delivers the bytes of the file at the position.                     *)
LEMMA ReadContents ==
  ASSUME IInv, Aligned, NEW f \in Files, NEW cnt \in Nat, NEW d \in Nat, tmpfs_read(f, cnt, d)
  PROVE  Contents!AbsNext
<1>1. /\ IsOpen(f) /\ UNCHANGED <<priv, size, heap, spilt>> /\ Node(f) \in Nodes
      /\ Pos(f) \in Nat /\ file[f] \in fs_files
  BY FileType DEF tmpfs_read, IInv
<1>2. BytesOf' = BytesOf
  BY <1>1, BytesKept DEF Data
<1> DEFINE n == Node(f)
           empty == priv[n] = NULL \/ Pos(f) >= size[n] \/ priv[n].data = NULL
           k == ToRead(f, cnt)
<1>3. CASE empty
  <2>1. got' = <<>> /\ file' = file
    BY <1>3 DEF tmpfs_read
  <2> QED BY <1>1, <1>2, <2>1, NothingContents
<1>4. CASE ~ empty
  <2> DEFINE read == SubSeq(heap[priv[n].data], Pos(f) + 1, Pos(f) + k)
             v == [file[f] EXCEPT !.pos = @ + k]
  <2>1. got' = Delivered(d, read) /\ file' = [file EXCEPT ![f] = v] /\ Exact(d, k)
    BY <1>4 DEF tmpfs_read
  <2>2. size[n] \in Nat /\ size[n] <= MaxSize /\ priv[n] # NULL /\ Data(n) = priv[n]
    <3>1. size[n] \in Nat /\ size[n] <= MaxSize
      BY <1>1, BytesInBuffer, TmpfsAssumption
    <3>2. priv[n] # NULL
      BY <1>4
    <3> QED BY <3>1, <3>2 DEF Data
  <2>3. k \in Nat /\ Pos(f) + k <= size[n]
    BY <1>1, <1>4, <2>2 DEF ToRead, Least
  <2> HIDE DEF k
  <2>4. v \in fs_files /\ v # NULL /\ v.node = n /\ v.pos = Pos(f) + k
    <3>1. v \in fs_files /\ v.node = n /\ v.pos = Pos(f) + k
      BY <1>1, <2>3 DEF fs_files, Node, Pos
    <3> HIDE DEF v
    <3> QED BY <3>1, TmpfsAssumption
  <2> HIDE DEF v
  <2>5. At' = [At EXCEPT ![f] = <<n, Pos(f) + k>>]
    <3>1. DescriptorSet(f, v)
      BY <2>1 DEF DescriptorSet
    <3> QED BY <2>4, <3>1, AtAfter, SMTT(30)
  <2>6. read \in Seq(Byte \cup {Junk}) /\ read = SubSeq(Bytes(n), Pos(f) + 1, Pos(f) + k) /\ Len(read) = k
    <3> DEFINE src == heap[priv[n].data]
               c == Bytes(n)
    <3>1. /\ src \in Seq(Byte \cup {Junk}) /\ size[n] <= Len(src)
          /\ c \in Seq(Byte \cup {Junk}) /\ Len(c) = size[n] /\ \A i \in 1 .. size[n] : c[i] = src[i]
      BY <1>1, <1>4, <2>2, BytesInBuffer, SMTT(60)
    <3> HIDE DEF src, c
    <3>2. \A i \in Pos(f) + 1 .. Pos(f) + k : src[i] \in Byte \cup {Junk} /\ c[i] = src[i]
      BY <1>1, <2>2, <2>3, <3>1
    <3>3. /\ SubSeq(src, Pos(f) + 1, Pos(f) + k) \in Seq(Byte \cup {Junk})
          /\ Len(SubSeq(src, Pos(f) + 1, Pos(f) + k)) = k
          /\ \A i \in 1 .. k : SubSeq(src, Pos(f) + 1, Pos(f) + k)[i] = src[Pos(f) + i]
      BY <1>1, <2>3, <3>2, PartOf
    <3>4. /\ SubSeq(c, Pos(f) + 1, Pos(f) + k) \in Seq(Byte \cup {Junk})
          /\ Len(SubSeq(c, Pos(f) + 1, Pos(f) + k)) = k
          /\ \A i \in 1 .. k : SubSeq(c, Pos(f) + 1, Pos(f) + k)[i] = c[Pos(f) + i]
      BY <1>1, <2>3, <3>2, PartOf
    <3>5. \A i \in 1 .. k : Pos(f) + i \in Pos(f) + 1 .. Pos(f) + k
      BY <1>1, <2>3
    <3> DEFINE u == SubSeq(src, Pos(f) + 1, Pos(f) + k)
               w == SubSeq(c, Pos(f) + 1, Pos(f) + k)
    <3>6. u = w
      <4>1. \A i \in 1 .. k : c[Pos(f) + i] = src[Pos(f) + i]
        BY <3>2, <3>5
      <4>2. u \in Seq(Byte \cup {Junk}) /\ w \in Seq(Byte \cup {Junk}) /\ Len(u) = k /\ Len(w) = k
        BY <3>3, <3>4
      <4>3. \A i \in 1 .. k : u[i] = w[i]
        BY <3>3, <3>4, <4>1
      <4> HIDE DEF u, w, k
      <4> QED BY <4>2, <4>3, SeqEqual, SMTT(30)
    <3> QED BY <3>3, <3>6 DEF src, c
  <2> HIDE DEF read
  <2>7. got' = SubSeq(Bytes(n), Pos(f) + 1, Pos(f) + k)
    BY <2>1, <2>6, DeliveredExactly
  <2>8. k \in 0 .. MaxSize
    BY <1>1, <2>2, <2>3, TmpfsAssumption
  <2>9. /\ At[f] # <<>> /\ At[f][1] = n /\ At[f][2] = Pos(f)
        /\ BytesOf[n] = Bytes(n) /\ Len(BytesOf[n]) = size[n]
    BY <1>1, WhereOpen
  <2> QED BY <1>1, <1>2, <2>3, <2>5, <2>7, <2>8, <2>9, ReadStep, ZenonT(60)
<1> QED BY <1>3, <1>4
-----------------------------------------------------------------------------
(* A write lays its bytes over those of the file, in whichever buffer.        *)
LEMMA StoredBytes ==
  ASSUME IInv, NEW f \in Files, IsOpen(f), NEW s \in Seq(Byte), Exact(Pos(f), Len(s)),
         NEW buf \in Bufs, NEW cap \in Nat, NEW bytes \in Heaps, Storing(f, s, buf, cap, bytes)
  PROVE  BytesOf' = [BytesOf EXCEPT ![Node(f)] = Contents!Overlay(BytesOf[Node(f)], Pos(f), s)]
<1> DEFINE n == Node(f)
           p == Pos(f)
           new == tmpfs_data(buf, cap, FALSE)
           end == p + Len(s)
           z == IF end > size[n] THEN end ELSE size[n]
           c == bytes[buf]
<1>1. /\ n \in Nodes /\ p \in Nat /\ p <= size[n] /\ size[n] \in Nat /\ Len(s) \in Nat
      /\ s \in Seq(Byte \cup {Junk})
  BY FileType, BytesInBuffer DEF IInv, PositionsInside
<1>2. /\ priv' = [priv EXCEPT ![n] = new]
      /\ heap' = [bytes EXCEPT ![buf] = memcpy(c, p, s)]
      /\ size' = [size EXCEPT ![n] = z]
      /\ Len(c) = cap /\ end <= cap /\ size[n] <= cap
      /\ size[n] > 0 \/ end > 0
      /\ \A m \in Nodes \ {n} : Data(m).data # buf
           /\ (Data(m).data # NULL => bytes[Data(m).data] = heap[Data(m).data])
      /\ \A i \in 1 .. size[n] : c[i] = heap[Data(n).data][i]
  BY DEF Storing, Stored
<1>3. z \in Nat /\ z > 0 /\ z <= cap /\ size[n] <= z /\ end <= z /\ (z = size[n] \/ z = end)
  BY <1>1, <1>2
<1>4. c \in Seq(Byte \cup {Junk})
  BY DEF Heaps
<1>5. new.data = buf /\ new # NULL
  <2>1. new.data = buf /\ new \in tmpfs_datas
    BY DEF tmpfs_datas, tmpfs_data
  <2> HIDE DEF new
  <2> QED BY <2>1, TmpfsAssumption
<1>6. \A m \in Nodes : /\ Data(m)' = IF m = n THEN new ELSE Data(m)
                       /\ size'[m] = IF m = n THEN z ELSE size[m]
  <2> HIDE DEF n, z, new
  <2>1. \A m \in Nodes : /\ priv'[m] = IF m = n THEN new ELSE priv[m]
                         /\ size'[m] = IF m = n THEN z ELSE size[m]
    BY <1>2 DEF IInv, TypeOK
  <2> QED BY <1>5, <2>1 DEF Data
<1>7. \A b \in Bufs \cup {IMAGE} : heap'[b] = IF b = buf THEN memcpy(c, p, s) ELSE bytes[b]
  BY <1>2 DEF Heaps
<1>8. BytesOf' = [m \in Nodes |-> IF size'[m] = 0 THEN <<>> ELSE SubSeq(heap'[Data(m)'.data], 1, size'[m])]
  BY DEF BytesOf, Bytes
<1> HIDE DEF n, p, z, c, new
<1>9. ASSUME NEW m \in Nodes, m # n PROVE BytesOf'[m] = BytesOf[m]
  <2>1. CASE size[m] = 0
    BY <1>6, <1>8, <1>9, <2>1 DEF BytesOf, Bytes
  <2>2. CASE size[m] # 0
    <3>1. Data(m).data \in Bufs \cup {IMAGE} /\ Data(m).data # NULL
      BY <2>2, BytesInBuffer, TmpfsAssumption
    <3>2. heap'[Data(m).data] = heap[Data(m).data]
      BY <1>2, <1>7, <1>9, <3>1
    <3> QED BY <1>6, <1>8, <1>9, <2>2, <3>2 DEF BytesOf, Bytes
  <2> QED BY <2>1, <2>2
<1> DEFINE was == Bytes(n)
           is == memcpy(c, p, s)
           over == Contents!Overlay(was, p, s)
<1>10. BytesOf'[n] = SubSeq(is, 0 + 1, 0 + z)
  <2>1. 0 + 1 = 1 /\ 0 + z = z /\ z # 0
    BY <1>3
  <2> QED BY <1>1, <1>5, <1>6, <1>7, <1>8, <2>1
<1>11. /\ is \in Seq(Byte \cup {Junk}) /\ Len(is) = cap
       /\ \A i \in 1 .. cap : is[i] = IF i > p /\ i <= end THEN s[i - p] ELSE c[i]
  BY <1>1, <1>2, <1>4, memcpyType, memcpyExact, ZenonT(60) DEF p
<1>12. was \in Seq(Byte \cup {Junk}) /\ Len(was) = size[n] /\ \A i \in 1 .. size[n] : was[i] = c[i]
  BY <1>1, <1>2, BytesInBuffer
<1>13. /\ over = [i \in 1 .. z |-> IF i > p /\ i <= end THEN s[i - p] ELSE was[i]]
  <2>1. Contents!Later(Len(was), p + Len(s)) = z
    BY <1>1, <1>12 DEF Contents!Later, z
  <2> QED BY <2>1 DEF Contents!Overlay
<1> HIDE DEF was, is, over
<1>14. \A i \in 1 .. z : i \in 1 .. cap /\ is[i] \in Byte \cup {Junk}
  BY <1>2, <1>3, <1>11
<1>15. \A i \in 1 .. z : over[i] = is[i]
  <2> SUFFICES ASSUME NEW i \in 1 .. z PROVE over[i] = is[i]
    OBVIOUS
  <2>1. CASE i > p /\ i <= end
    BY <1>11, <1>13, <1>14, <2>1
  <2>2. CASE ~ (i > p /\ i <= end)
    <3>1. i \in 1 .. size[n]
      BY <1>1, <1>3, <2>2
    <3> QED BY <1>11, <1>12, <1>13, <1>14, <2>2, <3>1
  <2> QED BY <2>1, <2>2
<1>16. over \in Seq(Byte \cup {Junk}) /\ Len(over) = z
  <2>1. over \in [1 .. z -> Byte \cup {Junk}]
    BY <1>13, <1>14, <1>15
  <2> QED BY <1>3, <2>1
<1>17. \A i \in 0 + 1 .. 0 + z : is[i] \in Byte \cup {Junk}
  BY <1>3, <1>14
<1>18. /\ BytesOf'[n] \in Seq(Byte \cup {Junk}) /\ Len(BytesOf'[n]) = z
       /\ \A i \in 1 .. z : BytesOf'[n][i] = is[0 + i]
  BY <1>3, <1>10, <1>17, PartOf
<1>19. BytesOf'[n] = over
  <2>1. \A i \in 1 .. z : BytesOf'[n][i] = over[i]
    BY <1>15, <1>18
  <2> QED BY <1>16, <1>18, <2>1, SeqEqual
<1>20. BytesOf[n] = was
  BY <1>1 DEF BytesOf, was
<1>21. BytesOf' = [m \in Nodes |-> IF m = n THEN over ELSE BytesOf[m]]
  BY <1>8, <1>9, <1>19
<1>22. [BytesOf EXCEPT ![n] = over] = [m \in Nodes |-> IF m = n THEN over ELSE BytesOf[m]]
  BY DEF BytesOf
<1> QED BY <1>20, <1>21, <1>22 DEF n, p, over
(* A write that finds or gets a buffer writes its bytes, one that gets none   *)
(* or writes nothing leaves the file as it is.                                *)
LEMMA WriteContents ==
  ASSUME IInv, Aligned, NEW f \in Files, NEW k \in 0 .. MaxWrite, NEW s \in [1 .. k -> Byte],
         tmpfs_write(f, s)
  PROVE  Contents!AbsNext
<1>1. k \in Nat /\ s \in Seq(Byte) /\ Len(s) = k
  BY TmpfsAssumption
<1>2. IsOpen(f) /\ Pos(f) + Len(s) <= MaxSize /\ Exact(Pos(f), Len(s))
  BY DEF tmpfs_write
<1>3. Node(f) \in Nodes /\ Pos(f) \in Nat /\ file[f] \in fs_files
  BY <1>2, FileType DEF IInv
<1>4. k \in 0 .. MaxSize
  BY <1>1, <1>2, <1>3, TmpfsAssumption
<1>5. CASE priv' = [priv EXCEPT ![Node(f)] = Data(Node(f))]
           /\ got' = <<>> /\ UNCHANGED <<size, heap, file, spilt>>
  <2>1. \A m \in Nodes : Data(m)' = Data(m)
    BY <1>3, <1>5, KeptData DEF IInv
  <2>2. BytesOf' = BytesOf
    BY <1>5, <2>1, BytesKept
  <2> QED BY <1>2, <1>5, <2>2, NothingContents
<1>6. ASSUME NEW buf \in Bufs, NEW cap \in Nat, NEW bytes \in Heaps, Storing(f, s, buf, cap, bytes)
      PROVE  Contents!AbsNext
  <2>1. BytesOf' = [BytesOf EXCEPT ![Node(f)] = Contents!Overlay(BytesOf[Node(f)], Pos(f), s)]
    BY <1>1, <1>2, <1>6, StoredBytes
  <2> DEFINE v == [file[f] EXCEPT !.pos = @ + Len(s)]
  <2>2. file' = [file EXCEPT ![f] = v] /\ got' = <<>>
    BY <1>6 DEF Storing, Stored
  <2>3. v \in fs_files /\ v.node = Node(f) /\ v.pos = Pos(f) + k
    BY <1>1, <1>3 DEF fs_files, Node, Pos
  <2> HIDE DEF v
  <2>4. v # NULL
    BY <2>3, TmpfsAssumption
  <2>5. At' = [At EXCEPT ![f] = <<Node(f), Pos(f) + k>>]
    <3>1. DescriptorSet(f, v)
      BY <2>2 DEF DescriptorSet
    <3> QED BY <2>3, <2>4, <3>1, AtAfter, SMTT(30)
  <2>6. At[f] # <<>> /\ At[f][1] = Node(f) /\ At[f][2] = Pos(f)
    BY <1>2, WhereOpen
  <2> QED BY <1>4, <2>1, <2>2, <2>5, <2>6, WriteStep
<1>7. CASE NeedsBuffer(f, Len(s)) /\ NewCap(f, Len(s)) > 0 /\ \E b \in Bufs :
              /\ heap[b] = <<>>
              /\ priv' = [priv EXCEPT ![Node(f)] = tmpfs_data(b, NewCap(f, Len(s)), FALSE)]
              /\ Stored(f, b, Moved(Node(f), b, NewCap(f, Len(s))), s)
  <2>1. PICK b \in Bufs, cap \in Nat, bytes \in Heaps : Storing(f, s, b, cap, bytes)
    BY <1>1, <1>2, <1>7, GrowStores
  <2> QED BY <1>6, <2>1
<1>8. CASE ~NeedsBuffer(f, Len(s)) /\ Len(s) > 0 /\ priv' = [priv EXCEPT ![Node(f)] = Data(Node(f))]
           /\ Stored(f, Data(Node(f)).data, heap, s)
  <2>1. PICK b \in Bufs, cap \in Nat : Storing(f, s, b, cap, heap) /\ heap \in Heaps
    BY <1>1, <1>2, <1>8, InPlaceStores
  <2> QED BY <1>6, <2>1
<1> QED BY <1>5, <1>7, <1>8 DEF tmpfs_write

(* Every step is one of Contents, if copies are exact.                        *)
LEMMA NextContents ==
  ASSUME IInv, Aligned, [Next]_vars
  PROVE  Contents!AbsNext \/ UNCHANGED <<BytesOf, At, got>>
<1>1. ASSUME NEW f \in Files, NEW n \in Nodes, fs_open(f, n) PROVE Contents!AbsNext
  BY <1>1, OpenContents
<1>2. ASSUME NEW f \in Files, fs_close(f) PROVE Contents!AbsNext
  BY <1>2, CloseContents
<1>3. ASSUME NEW f \in Files, NEW cnt \in 1 .. MaxSize, NEW d \in 0 .. Word - 1, tmpfs_read(f, cnt, d)
      PROVE  Contents!AbsNext
  BY <1>3, ReadContents
<1>4. ASSUME NEW f \in Files, NEW k \in 0 .. MaxWrite, NEW s \in [1 .. k -> Byte], tmpfs_write(f, s)
      PROVE  Contents!AbsNext
  BY <1>4, WriteContents
<1>5. ASSUME NEW f \in Files, NEW offset \in 0 .. W - 1,
             NEW whence \in {"SEEK_SET", "SEEK_CUR", "SEEK_END"}, scall_lseek(f, offset, whence)
      PROVE  Contents!AbsNext
  BY <1>5, SeekContents
<1>6. CASE UNCHANGED vars
  BY <1>6 DEF vars, BytesOf, Bytes, Data, At, IsOpen, Node, Pos
<1> QED BY <1>1, <1>2, <1>3, <1>4, <1>5, <1>6 DEF Next

(* Where memcpy is exact, through descriptors that share a node, growth and   *)
(* promotion from the archive, every read returns what was written last, and  *)
(* a write changes the bytes it is for and no others (tmpfs_read,             *)
(* tmpfs_write, scall_lseek).                                                 *)
THEOREM TmpfsImplementsContents == Aligned => (Spec => ImplementsContents)
<1> SUFFICES ASSUME Aligned PROVE Spec => ImplementsContents
  OBVIOUS
<1>1. Init => Contents!AbsInit
  BY DEF Init, Contents!AbsInit, IsOpen
<1>2. IInv /\ [Next]_vars => [Contents!AbsNext]_<<BytesOf, At, got>>
  BY NextContents
<1>3. [Contents!AbsNext]_<<BytesOf, At, got>> =>
        [Contents!AbsNext]_<<[n \in Nodes |-> IF size[n] = 0 THEN <<>> ELSE SubSeq(heap[Data(n).data], 1, size[n])],
                             [f \in Files |-> IF IsOpen(f) THEN <<Node(f), Pos(f)>> ELSE <<>>], got>>
  BY DEF BytesOf, Bytes, At
<1> QED BY <1>1, <1>2, <1>3, TmpfsIInv, PTL DEF Spec, ImplementsContents, Contents!AbsSpec
=============================================================================
