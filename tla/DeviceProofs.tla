---------------------------- MODULE DeviceProofs -----------------------------
(***************************************************************************)
(* The devices, for any number of processes and terminals, any players and  *)
(* files, and rings of any size: the keyboard focus, the keys that wait and *)
(* the blocked read of standard input stay those of one terminal, and bytes *)
(* leave its ring in the order they came; the sound controller plays every  *)
(* sample once and in order; the reader of the mouse has the button as it   *)
(* is.  The index arithmetic of the rings comes first.                      *)
(***************************************************************************)
EXTENDS VirtualTerminals, Sound, Ps2Input, SetLemmas, SequenceTheorems

(* The bytes of events, and rings of them whose indices fit the count.     *)
Bytes == Int \X Kinds \X Int \cup {Blank}
Rings == [buf : [0 .. InSize - 1 -> Bytes], head : 0 .. InSize - 1,
          tail : 0 .. InSize - 1, count : 0 .. InSize]
RingSound(r) == r \in Rings /\ r.tail = (r.head + r.count) % InSize

(* Indices of a ring of m bytes.                                           *)
LEMMA Wrap ==
  ASSUME NEW m \in Nat \ {0}, NEW h \in 0 .. m - 1, NEW j \in 0 .. m
  PROVE  /\ (h + j) % m \in 0 .. m - 1
         /\ (h + j) % m = IF h + j < m THEN h + j ELSE h + j - m
<1> DEFINE x == h + j
<1>1. x \in Nat /\ x < 2 * m
  OBVIOUS
<1> HIDE DEF x
<1>2. x % m \in 0 .. m - 1
  BY <1>1
<1>3. CASE x < m
  BY <1>1, <1>2, <1>3
<1>4. CASE ~ (x < m)
  <2>1. x % m = x - m
    BY <1>1, <1>4
  <2> QED BY <1>2, <1>4, <2>1 DEF x
<1> QED BY <1>2, <1>3, <1>4 DEF x

(* The distance from a place of the ring to another, once around.          *)
LEMMA Distance ==
  ASSUME NEW m \in Nat \ {0}, NEW i \in 0 .. m - 1, NEW t \in 0 .. m - 1
  PROVE  /\ (i - t) % m \in 0 .. m - 1
         /\ (i - t) % m = IF i >= t THEN i - t ELSE i - t + m
<1> DEFINE x == i - t
<1>1. x \in Int /\ x < m /\ 0 - m <= x /\ (x < 0 <=> ~ (i >= t))
  OBVIOUS
<1> HIDE DEF x
<1>2. x % m \in 0 .. m - 1
  BY <1>1
<1>3. CASE x < 0
  <2>1. x % m = x + m
    BY <1>1, <1>3
  <2> QED BY <1>1, <1>2, <1>3, <2>1 DEF x
<1>4. CASE ~ (x < 0)
  <2>1. x % m = x
    BY <1>1, <1>4
  <2> QED BY <1>1, <1>2, <1>4, <2>1 DEF x
<1> QED BY <1>3, <1>4

(* From the head h of a ring with c of its m bytes waiting: the k-th byte  *)
(* lies k - 1 places on, and that is k - 1 - c places past the tail.       *)
LEMMA PlaceOfByte ==
  ASSUME NEW m \in Nat \ {0}, NEW h \in 0 .. m - 1, NEW c \in 0 .. m, NEW k \in 1 .. m
  PROVE  /\ (h + k - 1) % m \in 0 .. m - 1
         /\ (((h + k - 1) % m) - ((h + c) % m)) % m = IF k <= c THEN k - 1 - c + m ELSE k - 1 - c
<1> DEFINE i == (h + (k - 1)) % m
           t == (h + c) % m
<1>1. k - 1 \in 0 .. m /\ h + (k - 1) = h + k - 1
  OBVIOUS
<1>2. i \in 0 .. m - 1 /\ i = IF h + (k - 1) < m THEN h + (k - 1) ELSE h + (k - 1) - m
  BY <1>1, Wrap
<1>3. t \in 0 .. m - 1 /\ t = IF h + c < m THEN h + c ELSE h + c - m
  BY Wrap
<1> HIDE DEF i, t
<1>4. (i - t) % m = IF i >= t THEN i - t ELSE i - t + m
  BY <1>2, <1>3, Distance
<1> DEFINE d == (i - t) % m
<1>5. d = IF i >= t THEN i - t ELSE i - t + m
  BY <1>4
<1> HIDE DEF d
<1>6. d = IF k <= c THEN k - 1 - c + m ELSE k - 1 - c
  BY <1>2, <1>3, <1>5
<1> QED BY <1>1, <1>2, <1>6 DEF d, i, t

(* Places behind the tail are places behind the head, further on.          *)
LEMMA TailMoves ==
  ASSUME NEW m \in Nat \ {0}, NEW h \in 0 .. m - 1, NEW c \in 0 .. m, NEW w \in 0 .. m - c
  PROVE  (((h + c) % m) + w) % m = (h + (c + w)) % m
<1> DEFINE t == (h + c) % m
<1>1. t \in 0 .. m - 1 /\ t = IF h + c < m THEN h + c ELSE h + c - m
  BY Wrap
<1> HIDE DEF t
<1>2. w \in 0 .. m /\ c + w \in 0 .. m
  OBVIOUS
<1>3. (t + w) % m = IF t + w < m THEN t + w ELSE t + w - m
  BY <1>1, <1>2, Wrap
<1>4. (h + (c + w)) % m = IF h + (c + w) < m THEN h + (c + w) ELSE h + (c + w) - m
  BY <1>2, Wrap
<1> DEFINE a == (t + w) % m
           b == (h + (c + w)) % m
<1>5. a = (IF t + w < m THEN t + w ELSE t + w - m)
      /\ b = (IF h + (c + w) < m THEN h + (c + w) ELSE h + (c + w) - m)
  BY <1>3, <1>4
<1> HIDE DEF a, b
<1>6. a = b
  BY <1>1, <1>5
<1> QED BY <1>6 DEF a, b, t

(* Moving the head over bytes taken out does not move the tail.            *)
LEMMA HeadMoves ==
  ASSUME NEW m \in Nat \ {0}, NEW h \in 0 .. m - 1, NEW c \in 0 .. m, NEW d \in 0 .. c
  PROVE  /\ (h + d) % m \in 0 .. m - 1
         /\ (((h + d) % m) + (c - d)) % m = (h + c) % m
<1>1. d \in 0 .. m /\ c - d \in 0 .. m - d /\ d + (c - d) = c
  OBVIOUS
<1>2. (((h + d) % m) + (c - d)) % m = (h + (d + (c - d))) % m
  BY <1>1, TailMoves
<1>3. (h + d) % m \in 0 .. m - 1
  BY <1>1, Wrap
<1> QED BY <1>1, <1>2, <1>3

(* The parts of a ring.                                                    *)
LEMMA RingParts ==
  ASSUME NEW r, RingSound(r)
  PROVE  /\ InSize \in Nat \ {0} /\ r.head \in 0 .. InSize - 1 /\ r.count \in 0 .. InSize
         /\ r.tail \in 0 .. InSize - 1 /\ r.buf \in [0 .. InSize - 1 -> Bytes]
         /\ r = [buf |-> r.buf, head |-> r.head, tail |-> r.tail, count |-> r.count]
<1> HIDE DEF Bytes
<1> QED BY VtAssumption DEF RingSound, Rings

(* Writing puts the bytes there is room for behind the waiting ones.       *)
LEMMA WriteAppends ==
  ASSUME NEW r, RingSound(r), NEW s \in Seq(Bytes)
  PROVE  \E w \in 0 .. Len(s) :
           /\ RingSound(Ring!ring_write(r, s))
           /\ Ring!ring_write(r, s).count = r.count + w
           /\ \A k \in 1 .. r.count + w :
                Ring!Waiting(Ring!ring_write(r, s))[k] =
                  IF k <= r.count THEN Ring!Waiting(r)[k] ELSE s[k - r.count]
<1> DEFINE is == Ring!ring_write(r, s)
           w == Ring!Least(Len(s), Ring!Room(r))
           h == r.head
           c == r.count
           d(i) == (i - r.tail) % InSize
<1>1. /\ InSize \in Nat \ {0} /\ h \in 0 .. InSize - 1 /\ c \in 0 .. InSize
      /\ r.tail \in 0 .. InSize - 1 /\ r.buf \in [0 .. InSize - 1 -> Bytes]
  BY RingParts
<1>2. r.tail = (h + c) % InSize
  BY DEF RingSound
<1>3. Len(s) \in Nat /\ \A k \in 1 .. Len(s) : s[k] \in Bytes
  <2> HIDE DEF Bytes
  <2> QED OBVIOUS
<1>4. w \in 0 .. Len(s) /\ w \in 0 .. InSize - c /\ c + w \in 0 .. InSize
  BY <1>1, <1>3, SMTT(60) DEF Ring!Least, Ring!Room
<1>5. is = [buf |-> [i \in 0 .. InSize - 1 |-> IF d(i) < w THEN s[d(i) + 1] ELSE r.buf[i]],
            head |-> h, tail |-> (r.tail + w) % InSize, count |-> c + w]
  BY DEF Ring!ring_write, Ring!Place
<1> HIDE DEF is, w, h, c
<1>6. /\ is.head = h /\ is.tail = (r.tail + w) % InSize /\ is.count = c + w
      /\ is.buf = [i \in 0 .. InSize - 1 |-> IF d(i) < w THEN s[d(i) + 1] ELSE r.buf[i]]
      /\ is = [buf |-> is.buf, head |-> is.head, tail |-> is.tail, count |-> is.count]
  <2> HIDE DEF d
  <2> QED BY <1>5
<1>7. is.tail = (h + (c + w)) % InSize
  BY <1>1, <1>2, <1>4, <1>6, TailMoves, SMTT(60)
<1>8. is.tail \in 0 .. InSize - 1
  BY <1>1, <1>4, <1>7, Wrap
<1>9. \A i \in 0 .. InSize - 1 : d(i) \in 0 .. InSize - 1
  BY <1>1, Distance
<1> HIDE DEF d
<1>10. is.buf \in [0 .. InSize - 1 -> Bytes]
  <2>1. \A i \in 0 .. InSize - 1 : d(i) < w => s[d(i) + 1] \in Bytes
    <3> SUFFICES ASSUME NEW i \in 0 .. InSize - 1, d(i) < w PROVE d(i) + 1 \in 1 .. Len(s)
      BY <1>3
    <3> QED BY <1>3, <1>4, <1>9
  <2> HIDE DEF Bytes
  <2> QED BY <1>1, <1>6, <2>1
<1>11. RingSound(is)
  <2>1. is.head \in 0 .. InSize - 1 /\ is.count \in 0 .. InSize
    BY <1>1, <1>4, <1>6
  <2>2. is \in Rings
    <3> HIDE DEF Bytes
    <3> QED BY <1>6, <1>8, <1>10, <2>1 DEF Rings
  <2> QED BY <1>6, <1>7, <2>2 DEF RingSound
<1>12. ASSUME NEW k \in 1 .. c + w
       PROVE  Ring!Waiting(is)[k] = IF k <= c THEN Ring!Waiting(r)[k] ELSE s[k - c]
  <2> DEFINE i == (h + k - 1) % InSize
  <2>1. Ring!Waiting(is)[k] = is.buf[i]
    BY <1>6, <1>12 DEF Ring!Waiting
  <2>2. k \in 1 .. InSize /\ k \in Int
    BY <1>1, <1>4
  <2>3. i \in 0 .. InSize - 1 /\ d(i) = IF k <= c THEN k - 1 - c + InSize ELSE k - 1 - c
    <3>1. /\ (h + k - 1) % InSize \in 0 .. InSize - 1
          /\ (((h + k - 1) % InSize) - ((h + c) % InSize)) % InSize =
               IF k <= c THEN k - 1 - c + InSize ELSE k - 1 - c
      BY <1>1, <2>2, PlaceOfByte, ZenonT(60)
    <3>2. d(i) = (i - ((h + c) % InSize)) % InSize
      <4> HIDE DEF i
      <4> QED BY <1>2 DEF d
    <3> QED BY <3>1, <3>2, Zenon
  <2>4. k <= c => Ring!Waiting(r)[k] = r.buf[i]
    <3>1. k <= c => k \in 1 .. c
      BY <1>1, <2>2
    <3> QED BY <3>1 DEF Ring!Waiting, h, c
  <2> HIDE DEF i
  <2>5. is.buf[i] = IF d(i) < w THEN s[d(i) + 1] ELSE r.buf[i]
    BY <1>6, <2>3
  <2>6. CASE k <= c
    <3>1. ~ (d(i) < w)
      BY <1>1, <1>4, <2>2, <2>3, <2>6
    <3> QED BY <2>1, <2>4, <2>5, <2>6, <3>1
  <2>7. CASE ~ (k <= c)
    <3>1. d(i) < w /\ d(i) + 1 = k - c
      BY <1>1, <1>4, <1>12, <2>2, <2>3, <2>7
    <3> QED BY <2>1, <2>5, <2>7, <3>1
  <2> QED BY <2>6, <2>7
<1> QED BY <1>4, <1>6, <1>11, <1>12 DEF is, c

(* Reading takes the oldest bytes from the front.                          *)
LEMMA ReadTakes ==
  ASSUME NEW r, RingSound(r), NEW n \in Nat
  PROVE  \E m \in 0 .. r.count :
           /\ RingSound(Ring!ring_read(r, n))
           /\ Ring!ring_read(r, n).count = r.count - m
           /\ \A k \in 1 .. r.count - m :
                Ring!Waiting(Ring!ring_read(r, n))[k] = Ring!Waiting(r)[k + m]
<1> DEFINE is == Ring!ring_read(r, n)
           m == Ring!Least(n, r.count)
           h == r.head
           c == r.count
           g == (h + m) % InSize
<1>1. /\ InSize \in Nat \ {0} /\ h \in 0 .. InSize - 1 /\ c \in 0 .. InSize
      /\ r.tail \in 0 .. InSize - 1 /\ r.buf \in [0 .. InSize - 1 -> Bytes]
      /\ r = [buf |-> r.buf, head |-> r.head, tail |-> r.tail, count |-> r.count]
  BY RingParts
<1>2. r.tail = (h + c) % InSize
  BY DEF RingSound
<1>3. m \in 0 .. c /\ m \in 0 .. InSize
  BY <1>1 DEF Ring!Least
<1>4. is = [buf |-> r.buf, head |-> g, tail |-> r.tail, count |-> c - m]
  <2> DEFINE b == r.buf
             t == r.tail
  <2>1. r = [buf |-> b, head |-> h, tail |-> t, count |-> c]
    BY <1>1
  <2>2. is = [r EXCEPT !.head = g, !.count = c - m]
    BY DEF Ring!ring_read
  <2> HIDE DEF is, b, t, h, c, g
  <2>3. is = [buf |-> b, head |-> g, tail |-> t, count |-> c - m]
    BY <2>1, <2>2
  <2> QED BY <2>3 DEF b, t
<1> HIDE DEF is, m, h, c
<1>5. is.buf = r.buf /\ is.head = g /\ is.tail = r.tail /\ is.count = c - m
  <2> DEFINE b == r.buf
             t == r.tail
             left == c - m
  <2>1. is = [buf |-> b, head |-> g, tail |-> t, count |-> left]
    BY <1>4
  <2> HIDE DEF b, t, left, g
  <2>2. is.buf = b /\ is.head = g /\ is.tail = t /\ is.count = left
    BY <2>1
  <2> QED BY <2>2 DEF b, t, left
<1>6. g \in 0 .. InSize - 1 /\ is.tail = (is.head + is.count) % InSize
  <2>1. (h + m) % InSize \in 0 .. InSize - 1 /\ (((h + m) % InSize) + (c - m)) % InSize = (h + c) % InSize
    BY <1>1, <1>3, HeadMoves
  <2> QED BY <1>2, <1>5, <2>1
<1>7. RingSound(is)
  <2>1. is.head \in 0 .. InSize - 1 /\ is.count \in 0 .. InSize
    BY <1>1, <1>3, <1>5, <1>6, SMTT(60)
  <2>2. is \in Rings
    <3> HIDE DEF Bytes, g
    <3> QED BY <1>1, <1>4, <1>5, <2>1 DEF Rings
  <2> QED BY <1>6, <2>2 DEF RingSound
<1>8. ASSUME NEW k \in 1 .. c - m
      PROVE  Ring!Waiting(is)[k] = Ring!Waiting(r)[k + m]
  <2>1. Ring!Waiting(is)[k] = r.buf[(g + k - 1) % InSize]
    BY <1>5, <1>8 DEF Ring!Waiting
  <2>2. k + m \in 1 .. c /\ k - 1 \in 0 .. InSize - m /\ k - 1 + m \in 0 .. InSize /\ k \in Int /\ m \in Int
    BY <1>1, <1>3, SMTT(60)
  <2>3. Ring!Waiting(r)[k + m] = r.buf[(h + (k + m) - 1) % InSize]
    BY <2>2 DEF Ring!Waiting, h, c
  <2>4. (((h + m) % InSize) + (k - 1)) % InSize = (h + (m + (k - 1))) % InSize
    BY <1>1, <1>3, <2>2, TailMoves
  <2>5. g + (k - 1) = g + k - 1 /\ h + (m + (k - 1)) = h + (k + m) - 1
    <3> HIDE DEF g
    <3> QED BY <1>1, <1>6, <2>2, SMTT(60)
  <2> QED BY <2>1, <2>3, <2>4, <2>5
<1> QED BY <1>3, <1>5, <1>7, <1>8 DEF is, c

-----------------------------------------------------------------------------
(* Two terminals never have the same id, and ids are not used again.       *)
IdsDistinct ==
  /\ \A s \in Slots : Used(s) => vt_table[s].id < vt_id_counter
  /\ \A s, t \in Slots : Used(s) /\ Used(t) /\ vt_table[s].id = vt_table[t].id => s = t

(* Only the process that has the processor is inside vt_input_read, and it *)
(* still wants a byte.                                                     *)
OneReader ==
  \A p \in Procs : reading[p] # Idle =>
    p = cpu /\ reading[p].left # 0 /\ reading[p].slot \in Slots

VtInv ==
  /\ TypeOK
  /\ input \in [Slots -> Rings] /\ \A s \in Slots : RingSound(input[s])
  /\ IdsDistinct
  /\ OneReader
  /\ FocusAgrees
  /\ InputStays
  /\ ReaderSound

TableRecords == [id : 0 .. MaxIds, state : {"FREE", "ACTIVE", "FOCUSED"}]

(* The parts of the table and of the rings.                                *)
LEMMA VtParts ==
  ASSUME VtInv
  PROVE  /\ vt_table \in [Slots -> TableRecords] /\ input \in [Slots -> Rings]
         /\ \A s \in Slots : RingSound(input[s])
         /\ vt_id_counter \in 0 .. MaxIds /\ MaxIds \in Nat
         /\ vt_focused \in {NoId} \cup (0 .. MaxIds)
         /\ cpu \in Procs
         /\ reading \in [Procs -> [slot : 0 .. VT_MAX, id : {NoId} \cup (0 .. MaxIds), left : 0 .. MaxCount]]
  BY VtAssumption DEF VtInv, TypeOK, TableRecords

(* Sound rings give what TypeOK says of them.                              *)
LEMMA RingsTyped ==
  ASSUME NEW inp, \A s \in Slots : RingSound(inp[s])
  PROVE  \A s \in Slots : /\ inp[s].head \in 0 .. InSize - 1
                          /\ inp[s].count \in 0 .. InSize
                          /\ inp[s].tail = (inp[s].head + inp[s].count) % InSize
  BY RingParts DEF RingSound

(* A process that runs program code is not inside a read.                  *)
LEMMA NobodyReads ==
  ASSUME VtInv, InUser
  PROVE  \A p \in Procs : reading[p] = Idle
  BY DEF VtInv, OneReader, InUser

(* The ring of a new terminal is sound, whatever its buffer holds.         *)
LEMMA EmptyRingSound ==
  ASSUME NEW b \in [0 .. InSize - 1 -> Bytes]
  PROVE  RingSound([buf |-> b, head |-> 0, tail |-> 0, count |-> 0])
<1>1. InSize \in Nat \ {0} /\ 0 \in 0 .. InSize - 1 /\ 0 \in 0 .. InSize /\ 0 + 0 < InSize
  BY VtAssumption
<1>2. (0 + 0) % InSize = 0
  BY <1>1, Wrap
<1>3. [buf |-> b, head |-> 0, tail |-> 0, count |-> 0] \in Rings
  <2> HIDE DEF Bytes
  <2> QED BY <1>1 DEF Rings
<1> QED BY <1>2, <1>3 DEF RingSound

(* No terminal exists at first.                                            *)
LEMMA InitVtInv == Init => VtInv
<1> SUFFICES ASSUME Init PROVE VtInv
  OBVIOUS
<1>1. InSize \in Nat \ {0} /\ VT_MAX \in Nat /\ MaxIds \in Nat /\ MaxCount \in Nat
  BY VtAssumption
<1>2. RingSound(Ring!EmptyRing) /\ Ring!EmptyRing.count = 0
  <2>1. [i \in 0 .. InSize - 1 |-> Blank] \in [0 .. InSize - 1 -> Bytes]
    BY DEF Bytes
  <2> HIDE DEF Bytes, Blank
  <2> QED BY <2>1, EmptyRingSound DEF Ring!EmptyRing
<1>3. input = [s \in Slots |-> Ring!EmptyRing] /\ \A s \in Slots : input[s] = Ring!EmptyRing
  BY DEF Init
<1> HIDE DEF Ring!EmptyRing
<1>4. input \in [Slots -> Rings] /\ \A s \in Slots : RingSound(input[s])
  BY <1>2, <1>3 DEF RingSound
<1>5. TypeOK
  <2>1. \A s \in Slots : /\ input[s].head \in 0 .. InSize - 1
                         /\ input[s].count \in 0 .. InSize
                         /\ input[s].tail = (input[s].head + input[s].count) % InSize
    BY <1>4, RingsTyped
  <2>2. /\ vt_table \in [Slots -> [id : 0 .. MaxIds, state : {"FREE", "ACTIVE", "FOCUSED"}]]
        /\ vt_id_counter \in 0 .. MaxIds
        /\ vt_focused \in {NoId} \cup (0 .. MaxIds)
        /\ cpu \in Procs
        /\ reading \in [Procs -> [slot : 0 .. VT_MAX, id : {NoId} \cup (0 .. MaxIds), left : 0 .. MaxCount]]
    BY <1>1 DEF Init, Idle
  <2> QED BY <2>1, <2>2 DEF TypeOK
<1>6. \A s \in Slots : ~ Used(s) /\ vt_table[s].state = "FREE"
  BY DEF Init, Used
<1>7. \A p \in Procs : reading[p] = Idle
  BY DEF Init
<1>8. IdsDistinct /\ OneReader /\ FocusAgrees /\ InputStays /\ ReaderSound
  BY <1>6, <1>7 DEF IdsDistinct, OneReader, FocusAgrees, InputStays, ReaderSound, Init
<1> QED BY <1>4, <1>5, <1>8 DEF VtInv

(* What remains to show of a step by a process in user mode that reads     *)
(* nothing.                                                                *)
LEMMA UserStep ==
  ASSUME VtInv, InUser, UNCHANGED <<cpu, reading>>,
         vt_table' \in [Slots -> TableRecords],
         vt_id_counter' \in 0 .. MaxIds, vt_focused' \in {NoId} \cup (0 .. MaxIds),
         input' \in [Slots -> Rings], \A s \in Slots : RingSound(input'[s]),
         IdsDistinct', FocusAgrees', InputStays'
  PROVE  VtInv'
<1>1. \A p \in Procs : reading'[p] = Idle
  BY NobodyReads
<1>2. OneReader' /\ ReaderSound'
  BY <1>1 DEF OneReader, ReaderSound
<1>3. \A s \in Slots : /\ input'[s].head \in 0 .. InSize - 1
                       /\ input'[s].count \in 0 .. InSize
                       /\ input'[s].tail = (input'[s].head + input'[s].count) % InSize
  BY RingsTyped
<1>4. TypeOK'
  BY <1>3, VtParts DEF TypeOK, TableRecords
<1> QED BY <1>2, <1>4 DEF VtInv

(* vt_create keeps the invariant.                                          *)
LEMMA CreateVtInv == ASSUME VtInv, vt_create PROVE VtInv'
<1> USE DEF TableRecords
<1>1. PICK s \in Slots :
        /\ ~ Used(s)
        /\ vt_table' = [vt_table EXCEPT ![s] =
             [id |-> vt_id_counter, state |-> IF vt_focused = NoId THEN "FOCUSED" ELSE "ACTIVE"]]
        /\ input' = [input EXCEPT ![s] = FreshInput(s)]
  BY DEF vt_create
<1>2. /\ InUser /\ vt_id_counter < MaxIds /\ UNCHANGED <<cpu, reading>>
      /\ vt_focused' = IF vt_focused = NoId THEN vt_id_counter ELSE vt_focused
      /\ vt_id_counter' = vt_id_counter + 1
  BY DEF vt_create
<1>3. vt_table \in [Slots -> TableRecords] /\ vt_id_counter \in 0 .. MaxIds /\ MaxIds \in Nat
      /\ vt_focused \in {NoId} \cup (0 .. MaxIds) /\ input \in [Slots -> Rings]
      /\ \A t \in Slots : RingSound(input[t])
  BY VtParts
<1>4. RingSound(FreshInput(s)) /\ FreshInput(s).count = 0
  <2>1. /\ input[s].buf \in [0 .. InSize - 1 -> Bytes]
        /\ input[s] = [buf |-> input[s].buf, head |-> input[s].head,
                       tail |-> input[s].tail, count |-> input[s].count]
    BY <1>3, RingParts
  <2> DEFINE r == input[s]
             b == r.buf
             h == r.head
             t == r.tail
             c == r.count
  <2>2. FreshInput(s) = [r EXCEPT !.head = 0, !.tail = 0, !.count = 0]
    BY DEF FreshInput, Ring!Reset
  <2>3. r = [buf |-> b, head |-> h, tail |-> t, count |-> c]
    BY <2>1
  <2> HIDE DEF r, b, h, t, c
  <2>4. FreshInput(s) = [buf |-> b, head |-> 0, tail |-> 0, count |-> 0]
    BY <2>2, <2>3
  <2>5. b \in [0 .. InSize - 1 -> Bytes]
    BY <2>1 DEF b, r
  <2> QED BY <2>4, <2>5, EmptyRingSound
<1> DEFINE f == FreshInput(s)
<1>5. /\ input' \in [Slots -> Rings] /\ input'[s] = f
      /\ \A t \in Slots : t # s => input'[t] = input[t]
      /\ \A t \in Slots : RingSound(input'[t])
  <2>1. f \in Rings
    BY <1>4 DEF RingSound
  <2> HIDE DEF f, Rings
  <2>2. input' \in [Slots -> Rings] /\ input'[s] = f /\ \A t \in Slots : t # s => input'[t] = input[t]
    BY <1>1, <1>3, <2>1 DEF f
  <2> QED BY <1>3, <1>4, <2>2 DEF f
<1>6. /\ vt_table' \in [Slots -> TableRecords]
      /\ vt_table'[s] = [id |-> vt_id_counter, state |-> IF vt_focused = NoId THEN "FOCUSED" ELSE "ACTIVE"]
      /\ \A t \in Slots : t # s => vt_table'[t] = vt_table[t]
  BY <1>1, <1>3
<1>7. Used(s)' /\ \A t \in Slots : t # s => (Used(t)' <=> Used(t))
  BY <1>6 DEF Used
<1>8. IdsDistinct'
  <2>1. \A t \in Slots : Used(t) => vt_table[t].id < vt_id_counter
    BY DEF VtInv, IdsDistinct
  <2>2. \A t, u \in Slots : Used(t) /\ Used(u) /\ vt_table[t].id = vt_table[u].id => t = u
    BY DEF VtInv, IdsDistinct
  <2>3. \A t \in Slots : vt_table[t].id \in Int
    BY <1>3
  <2>4. \A t \in Slots : Used(t)' => vt_table'[t].id < vt_id_counter'
    BY <1>2, <1>3, <1>6, <1>7, <2>1, <2>3
  <2>5. \A t, u \in Slots : Used(t)' /\ Used(u)' /\ vt_table'[t].id = vt_table'[u].id => t = u
    <3> SUFFICES ASSUME NEW t \in Slots, NEW u \in Slots, Used(t)', Used(u)',
                        vt_table'[t].id = vt_table'[u].id, t # u
                 PROVE  FALSE
      OBVIOUS
    <3>1. CASE t = s
      BY <1>3, <1>6, <1>7, <2>1, <2>3, <3>1
    <3>2. CASE u = s
      BY <1>3, <1>6, <1>7, <2>1, <2>3, <3>2
    <3>3. CASE t # s /\ u # s
      BY <1>6, <1>7, <2>2, <3>3
    <3> QED BY <3>1, <3>2, <3>3
  <2> QED BY <2>4, <2>5 DEF IdsDistinct
<1>9. FocusAgrees'
  <2>1. /\ \A t \in Slots : vt_table[t].state = "FOCUSED" <=> Used(t) /\ vt_table[t].id = vt_focused
        /\ vt_focused # NoId => \E t \in Slots : Used(t) /\ vt_table[t].id = vt_focused
    BY DEF VtInv, FocusAgrees, vt_get
  <2>2. \A t \in Slots : Used(t) => vt_table[t].id < vt_id_counter
    BY DEF VtInv, IdsDistinct
  <2>3. vt_id_counter # NoId /\ (vt_focused # NoId => vt_focused # vt_id_counter)
    BY <1>3, <2>1, <2>2 DEF NoId
  <2>4. \A t \in Slots : vt_table[t].id \in Nat
    BY <1>3
  <2>5. \A t \in Slots : vt_table'[t].state = "FOCUSED" <=> Used(t)' /\ vt_table'[t].id = vt_focused'
    <3> SUFFICES ASSUME NEW t \in Slots
                 PROVE  vt_table'[t].state = "FOCUSED" <=> Used(t)' /\ vt_table'[t].id = vt_focused'
      OBVIOUS
    <3>1. CASE t = s
      BY <1>2, <1>6, <1>7, <2>3, <3>1
    <3>2. CASE t # s
      BY <1>2, <1>3, <1>6, <1>7, <2>1, <2>2, <2>4, <3>2 DEF NoId
    <3> QED BY <3>1, <3>2
  <2>6. \E t \in Slots : Used(t)' /\ vt_table'[t].id = vt_focused'
    <3>1. CASE vt_focused = NoId
      BY <1>2, <1>6, <1>7, <3>1
    <3>2. CASE vt_focused # NoId
      BY <1>1, <1>2, <1>6, <1>7, <2>1, <3>2
    <3> QED BY <3>1, <3>2
  <2> QED BY <2>5, <2>6 DEF FocusAgrees, vt_get
<1>10. InputStays'
  <2> SUFFICES ASSUME NEW t \in Slots, Used(t)', NEW i \in 1 .. input'[t].count
               PROVE  Ring!Waiting(input'[t])[i][1] = vt_table'[t].id
    BY DEF InputStays
  <2>1. CASE t = s
    BY <1>4, <1>5, <2>1
  <2>2. CASE t # s
    BY <1>5, <1>6, <1>7, <2>2 DEF VtInv, InputStays
  <2> QED BY <2>1, <2>2
<1>11. vt_id_counter' \in 0 .. MaxIds /\ vt_focused' \in {NoId} \cup (0 .. MaxIds)
  BY <1>2, <1>3
<1> QED BY <1>2, <1>5, <1>6, <1>8, <1>9, <1>10, <1>11, UserStep

(* A step that changes only states of terminals that were in use.          *)
LEMMA StatesVtInv ==
  ASSUME VtInv, InUser, UNCHANGED <<cpu, reading, vt_id_counter, input>>,
         vt_table' \in [Slots -> TableRecords],
         \A s \in Slots : vt_table'[s].id = vt_table[s].id /\ (Used(s)' => Used(s)),
         vt_focused' \in {NoId} \cup (0 .. MaxIds), FocusAgrees'
  PROVE  VtInv'
<1>1. IdsDistinct'
  BY DEF VtInv, IdsDistinct
<1>2. InputStays'
  BY DEF VtInv, InputStays
<1> QED BY <1>1, <1>2, VtParts, UserStep

(* vt_destroy keeps the invariant, of the terminal in focus too.           *)
LEMMA DestroyVtInv ==
  ASSUME VtInv, NEW id \in 0 .. MaxIds - 1, vt_destroy(id)
  PROVE  VtInv'
<1>1. /\ InUser /\ UNCHANGED <<cpu, reading, vt_id_counter, input>>
      /\ vt_table' = [s \in Slots |->
           IF s \in vt_get(id) THEN [vt_table[s] EXCEPT !.state = "FREE"] ELSE vt_table[s]]
      /\ vt_focused' = IF vt_focused = id THEN NoId ELSE vt_focused
  BY DEF vt_destroy
<1>2. vt_table \in [Slots -> TableRecords] /\ vt_focused \in {NoId} \cup (0 .. MaxIds)
  BY VtParts
<1>3. /\ vt_table' \in [Slots -> TableRecords]
      /\ \A s \in Slots : vt_table'[s].id = vt_table[s].id
      /\ \A s \in Slots : s \in vt_get(id) => vt_table'[s].state = "FREE"
      /\ \A s \in Slots : s \notin vt_get(id) => vt_table'[s] = vt_table[s]
  BY <1>1, <1>2 DEF TableRecords
<1>4. \A s \in Slots : Used(s)' <=> Used(s) /\ vt_table[s].id # id
  BY <1>3 DEF Used, vt_get
<1>5. FocusAgrees'
  <2>1. /\ \A s \in Slots : vt_table[s].state = "FOCUSED" <=> Used(s) /\ vt_table[s].id = vt_focused
        /\ vt_focused # NoId => \E s \in Slots : Used(s) /\ vt_table[s].id = vt_focused
    BY DEF VtInv, FocusAgrees, vt_get
  <2>2. \A s \in Slots : vt_table[s].id # NoId
    BY <1>2 DEF TableRecords, NoId
  <2>3. \A s \in Slots : vt_table'[s].state = "FOCUSED" <=> Used(s)' /\ vt_table'[s].id = vt_focused'
    <3> SUFFICES ASSUME NEW s \in Slots
                 PROVE  vt_table'[s].state = "FOCUSED" <=> Used(s)' /\ vt_table'[s].id = vt_focused'
      OBVIOUS
    <3>1. CASE s \in vt_get(id)
      BY <1>1, <1>3, <1>4, <2>2, <3>1 DEF vt_get
    <3>2. CASE s \notin vt_get(id)
      BY <1>1, <1>3, <1>4, <2>1, <2>2, <3>2 DEF vt_get
    <3> QED BY <3>1, <3>2
  <2>4. vt_focused' # NoId => \E s \in Slots : Used(s)' /\ vt_table'[s].id = vt_focused'
    BY <1>1, <1>3, <1>4, <2>1
  <2> QED BY <2>3, <2>4 DEF FocusAgrees, vt_get
<1>6. vt_focused' \in {NoId} \cup (0 .. MaxIds)
  BY <1>1, <1>2
<1> QED BY <1>1, <1>3, <1>4, <1>5, <1>6, StatesVtInv

(* vt_focus keeps the invariant.                                           *)
LEMMA FocusVtInv ==
  ASSUME VtInv, NEW id \in {NoId} \cup (0 .. MaxIds - 1), vt_focus(id)
  PROVE  VtInv'
<1>1. /\ InUser /\ UNCHANGED <<cpu, reading, vt_id_counter, input>>
      /\ vt_table' = [s \in Slots |->
           IF s \in vt_get(id) THEN [vt_table[s] EXCEPT !.state = "FOCUSED"] ELSE Unfocused[s]]
      /\ vt_focused' = IF vt_get(id) = {} THEN NoId ELSE id
  BY DEF vt_focus
<1>2. vt_table \in [Slots -> TableRecords] /\ MaxIds \in Nat
  BY VtParts
<1>3. /\ \A s \in Slots : vt_table[s].state = "FOCUSED" <=> Used(s) /\ vt_table[s].id = vt_focused
      /\ vt_focused # NoId => vt_get(vt_focused) # {}
  BY DEF VtInv, FocusAgrees
<1>4. \A s \in Slots : Unfocused[s] =
        IF vt_table[s].state = "FOCUSED" THEN [vt_table[s] EXCEPT !.state = "ACTIVE"] ELSE vt_table[s]
  BY <1>3 DEF Unfocused, vt_get
<1>5. /\ vt_table' \in [Slots -> TableRecords]
      /\ \A s \in Slots : vt_table'[s].id = vt_table[s].id
      /\ \A s \in Slots : s \in vt_get(id) => vt_table'[s].state = "FOCUSED"
      /\ \A s \in Slots : s \notin vt_get(id) =>
           vt_table'[s].state = IF vt_table[s].state = "FOCUSED" THEN "ACTIVE" ELSE vt_table[s].state
  <2> DEFINE new(s) == IF s \in vt_get(id) THEN [vt_table[s] EXCEPT !.state = "FOCUSED"]
                       ELSE IF vt_table[s].state = "FOCUSED"
                            THEN [vt_table[s] EXCEPT !.state = "ACTIVE"] ELSE vt_table[s]
  <2>1. vt_table' = [s \in Slots |-> new(s)]
    BY <1>1, <1>4
  <2>2. \A s \in Slots : vt_table[s] \in TableRecords
    BY <1>2
  <2>3. \A s \in Slots : /\ new(s) \in TableRecords /\ new(s).id = vt_table[s].id
                         /\ s \in vt_get(id) => new(s).state = "FOCUSED"
                         /\ s \notin vt_get(id) =>
                              new(s).state = IF vt_table[s].state = "FOCUSED"
                                             THEN "ACTIVE" ELSE vt_table[s].state
    BY <2>2 DEF TableRecords
  <2> HIDE DEF new
  <2> QED BY <2>1, <2>3
<1>6. \A s \in Slots : Used(s)' <=> Used(s)
  BY <1>5 DEF Used, vt_get
<1>7. FocusAgrees'
  <2>1. \A s \in Slots : vt_table'[s].state = "FOCUSED" <=> s \in vt_get(id)
    BY <1>5
  <2>2. \A s \in Slots : vt_table[s].id # NoId
    BY <1>2 DEF TableRecords, NoId
  <2>3. \A s \in Slots : s \in vt_get(id) <=> Used(s)' /\ vt_table'[s].id = vt_focused'
    <3>1. CASE vt_get(id) = {}
      BY <1>1, <1>5, <2>2, <3>1
    <3>2. CASE vt_get(id) # {}
      BY <1>1, <1>5, <1>6, <3>2 DEF vt_get
    <3> QED BY <3>1, <3>2
  <2>4. vt_focused' # NoId => \E s \in Slots : s \in vt_get(id)
    BY <1>1 DEF vt_get
  <2> QED BY <2>1, <2>3, <2>4 DEF FocusAgrees, vt_get
<1>8. vt_focused' \in {NoId} \cup (0 .. MaxIds)
  BY <1>1, <1>2
<1> QED BY <1>1, <1>5, <1>6, <1>7, <1>8, StatesVtInv

(* The bytes of an event carry the terminal they were meant for.           *)
LEMMA EventIsBytes ==
  ASSUME NEW id \in 0 .. MaxIds - 1, NEW kind \in Kinds
  PROVE  /\ Event(kind, id) \in Seq(Bytes)
         /\ \A k \in 1 .. Len(Event(kind, id)) : Event(kind, id)[k][1] = id
<1> DEFINE ev == Event(kind, id)
<1>1. EvSize \in Nat /\ \A i \in 1 .. EvSize : <<id, kind, i>> \in Bytes
  BY VtAssumption DEF Bytes
<1>2. ev \in [1 .. EvSize -> Bytes] /\ \A k \in 1 .. EvSize : ev[k] = <<id, kind, k>>
  <2> HIDE DEF Bytes
  <2> QED BY <1>1 DEF Event
<1> HIDE DEF Bytes, ev
<1>3. ev \in Seq(Bytes) /\ Len(ev) = EvSize
  BY <1>1, <1>2
<1>4. \A k \in 1 .. Len(ev) : ev[k][1] = id
  BY <1>2, <1>3
<1> QED BY <1>3, <1>4 DEF ev

(* vt_input_write keeps the invariant, dropping what finds no room.        *)
LEMMA WriteVtInv ==
  ASSUME VtInv, NEW id \in 0 .. MaxIds - 1, NEW kind \in Kinds, vt_input_write(id, kind)
  PROVE  VtInv'
<1> DEFINE ev == Event(kind, id)
<1> PICK s \in vt_get(id) : input' = [input EXCEPT ![s] = Ring!ring_write(@, ev)]
  BY DEF vt_input_write
<1>1. InUser /\ UNCHANGED <<vt_table, vt_id_counter, vt_focused, cpu, reading>>
  BY DEF vt_input_write
<1>2. s \in Slots /\ Used(s) /\ vt_table[s].id = id
  BY DEF vt_get
<1>3. input \in [Slots -> Rings] /\ \A t \in Slots : RingSound(input[t])
  BY VtParts
<1>4. ev \in Seq(Bytes) /\ \A k \in 1 .. Len(ev) : ev[k][1] = id
  BY EventIsBytes
<1> DEFINE was == input[s]
           is == Ring!ring_write(was, ev)
<1>5. PICK w \in 0 .. Len(ev) :
        /\ RingSound(is) /\ is.count = was.count + w
        /\ \A k \in 1 .. was.count + w :
             Ring!Waiting(is)[k] = IF k <= was.count THEN Ring!Waiting(was)[k] ELSE ev[k - was.count]
  <2> HIDE DEF ev
  <2> QED BY <1>2, <1>3, <1>4, WriteAppends
<1> HIDE DEF ev
<1>6. /\ input' \in [Slots -> Rings] /\ input'[s] = is
      /\ \A t \in Slots : t # s => input'[t] = input[t]
  <2>1. is \in Rings
    BY <1>5 DEF RingSound
  <2>2. input' = [input EXCEPT ![s] = is]
    OBVIOUS
  <2> HIDE DEF is, Rings
  <2> QED BY <1>2, <1>3, <2>1, <2>2
<1> HIDE DEF is
<1>7. \A t \in Slots : RingSound(input'[t])
  BY <1>3, <1>5, <1>6
<1>8. IdsDistinct' /\ FocusAgrees'
  BY <1>1 DEF VtInv, IdsDistinct, FocusAgrees, Used, vt_get
<1>9. InputStays'
  <2> SUFFICES ASSUME NEW t \in Slots, Used(t), NEW i \in 1 .. input'[t].count
               PROVE  Ring!Waiting(input'[t])[i][1] = vt_table[t].id
    BY <1>1 DEF InputStays, Used
  <2>1. CASE t # s
    BY <1>6, <2>1 DEF VtInv, InputStays
  <2>2. CASE t = s
    <3>1. Len(ev) \in Nat /\ was.count \in Nat
      <4>1. was.count \in Nat
        BY <1>2, <1>3, RingParts
      <4> QED BY <1>4, <4>1
    <3>2. i \in 1 .. was.count + w
      BY <1>5, <1>6, <2>2
    <3>3. CASE i <= was.count
      <4>1. i \in 1 .. was.count
        BY <3>1, <3>2, <3>3
      <4>2. Ring!Waiting(was)[i][1] = vt_table[s].id
        BY <1>2, <4>1 DEF VtInv, InputStays
      <4> QED BY <1>5, <1>6, <2>2, <3>2, <3>3, <4>2
    <3>4. CASE ~ (i <= was.count)
      <4>1. i - was.count \in 1 .. Len(ev)
        BY <1>5, <3>1, <3>2, <3>4
      <4>2. ev[i - was.count][1] = id
        BY <1>4, <4>1
      <4> QED BY <1>2, <1>5, <1>6, <2>2, <3>2, <3>4, <4>2
    <3> QED BY <3>3, <3>4
  <2> QED BY <2>1, <2>2
<1> QED BY <1>1, <1>6, <1>7, <1>8, <1>9, VtParts, UserStep

(* Entering a read keeps the invariant.                                    *)
LEMMA ScallReadVtInv ==
  ASSUME VtInv, NEW count \in 1 .. MaxCount, scall_read(count)
  PROVE  VtInv'
<1>1. InUser /\ UNCHANGED <<vt_table, vt_id_counter, vt_focused, input, cpu>>
  BY DEF scall_read
<1>2. PICK s \in vt_get(vt_focused) :
        reading' = [reading EXCEPT ![cpu] = [slot |-> s, id |-> vt_focused, left |-> count]]
  BY DEF scall_read
<1>3. s \in Slots /\ s \in 0 .. VT_MAX /\ Used(s) /\ vt_table[s].id = vt_focused
  BY VtAssumption DEF vt_get, Slots
<1>4. /\ vt_focused \in {NoId} \cup (0 .. MaxIds) /\ cpu \in Procs
      /\ reading \in [Procs -> [slot : 0 .. VT_MAX, id : {NoId} \cup (0 .. MaxIds), left : 0 .. MaxCount]]
      /\ MaxCount \in Nat
  BY VtParts, VtAssumption
<1>5. [slot |-> s, id |-> vt_focused, left |-> count]
        \in [slot : 0 .. VT_MAX, id : {NoId} \cup (0 .. MaxIds), left : 0 .. MaxCount]
  BY <1>3, <1>4
<1>6. /\ reading' \in [Procs -> [slot : 0 .. VT_MAX, id : {NoId} \cup (0 .. MaxIds), left : 0 .. MaxCount]]
      /\ reading'[cpu] = [slot |-> s, id |-> vt_focused, left |-> count]
      /\ \A p \in Procs : p # cpu => reading'[p] = Idle
  BY <1>1, <1>2, <1>4, <1>5, NobodyReads
<1>7. TypeOK'
  BY <1>1, <1>6 DEF VtInv, TypeOK
<1>8. OneReader'
  BY <1>1, <1>3, <1>6 DEF OneReader
<1>9. ReaderSound'
  BY <1>1, <1>3, <1>6 DEF ReaderSound, Used
<1>10. IdsDistinct' /\ FocusAgrees' /\ InputStays'
  BY <1>1 DEF VtInv, IdsDistinct, FocusAgrees, InputStays, Used, vt_get
<1> QED BY <1>1, <1>7, <1>8, <1>9, <1>10 DEF VtInv

(* Taking an event, which may end the read, keeps the invariant.           *)
LEMMA ReadVtInv == ASSUME VtInv, vt_input_read PROVE VtInv'
<1> DEFINE me == reading[cpu]
           s == me.slot
           was == input[s]
           is == Ring!ring_read(was, EvSize)
<1>1. /\ me # Idle /\ input' = [input EXCEPT ![s] = is]
      /\ UNCHANGED <<vt_table, vt_id_counter, vt_focused, cpu>>
      /\ \/ reading' = [reading EXCEPT ![cpu] = Idle]
         \/ me.left # 1 /\ reading' = [reading EXCEPT ![cpu] = [me EXCEPT !.left = @ - 1]]
         \/ reading' = reading
  BY DEF vt_input_read, InUser
<1>2. /\ cpu \in Procs /\ input \in [Slots -> Rings] /\ \A t \in Slots : RingSound(input[t])
      /\ reading \in [Procs -> [slot : 0 .. VT_MAX, id : {NoId} \cup (0 .. MaxIds), left : 0 .. MaxCount]]
      /\ MaxCount \in Nat /\ VT_MAX \in Nat /\ EvSize \in Nat
  BY VtParts, VtAssumption
<1>3. s \in Slots /\ Used(s) /\ vt_table[s].id = me.id /\ me.left # 0
      /\ \A p \in Procs : p # cpu => reading[p] = Idle
  BY <1>1, <1>2 DEF VtInv, ReaderSound, OneReader
<1>4. PICK m \in 0 .. was.count :
        /\ RingSound(is) /\ is.count = was.count - m
        /\ \A k \in 1 .. was.count - m : Ring!Waiting(is)[k] = Ring!Waiting(was)[k + m]
  BY <1>2, <1>3, ReadTakes
<1>5. /\ input' \in [Slots -> Rings] /\ input'[s] = is
      /\ \A t \in Slots : t # s => input'[t] = input[t]
  <2>1. is \in Rings
    BY <1>4 DEF RingSound
  <2> HIDE DEF is, Rings
  <2> QED BY <1>1, <1>2, <1>3, <2>1
<1>6. \A t \in Slots : RingSound(input'[t])
  <2> HIDE DEF is
  <2> QED BY <1>2, <1>4, <1>5
<1>7. IdsDistinct' /\ FocusAgrees'
  BY <1>1 DEF VtInv, IdsDistinct, FocusAgrees, Used, vt_get
<1>8. InputStays'
  <2> SUFFICES ASSUME NEW t \in Slots, Used(t), NEW i \in 1 .. input'[t].count
               PROVE  Ring!Waiting(input'[t])[i][1] = vt_table[t].id
    BY <1>1 DEF InputStays, Used
  <2> HIDE DEF is
  <2>1. CASE t # s
    BY <1>5, <2>1 DEF VtInv, InputStays
  <2>2. CASE t = s
    <3>1. was.count \in Nat
      BY <1>2, <1>3, RingParts
    <3>2. i \in 1 .. was.count - m /\ i + m \in 1 .. was.count
      BY <1>4, <1>5, <2>2, <3>1
    <3>3. Ring!Waiting(was)[i + m][1] = vt_table[s].id
      BY <1>3, <3>2 DEF VtInv, InputStays
    <3> QED BY <1>4, <1>5, <2>2, <3>2, <3>3
  <2> QED BY <2>1, <2>2
<1>9. \A t \in Slots : /\ input'[t].head \in 0 .. InSize - 1
                       /\ input'[t].count \in 0 .. InSize
                       /\ input'[t].tail = (input'[t].head + input'[t].count) % InSize
  BY <1>6, RingsTyped
<1> HIDE DEF is, was
<1> DEFINE R == [slot : 0 .. VT_MAX, id : {NoId} \cup (0 .. MaxIds), left : 0 .. MaxCount]
<1>10. me.left - 1 \in 0 .. MaxCount /\ Idle \in R
  <2>1. me \in R
    BY <1>2
  <2>2. Idle \in R
    BY <1>2 DEF Idle
  <2> QED BY <1>2, <1>3, <2>1, <2>2
<1>11. /\ reading' \in [Procs -> R]
       /\ \A p \in Procs : p # cpu => reading'[p] = Idle
       /\ reading'[cpu] # Idle =>
            reading'[cpu].slot = s /\ reading'[cpu].id = me.id /\ reading'[cpu].left # 0
  <2>1. CASE reading' = [reading EXCEPT ![cpu] = Idle]
    BY <1>2, <1>3, <1>10, <2>1
  <2>2. CASE me.left # 1 /\ reading' = [reading EXCEPT ![cpu] = [me EXCEPT !.left = @ - 1]]
    <3> DEFINE new == [me EXCEPT !.left = @ - 1]
    <3>1. new \in R /\ new.slot = s /\ new.id = me.id /\ new.left # 0
      BY <1>2, <1>3, <1>10, <2>2
    <3> HIDE DEF new
    <3>2. reading' = [reading EXCEPT ![cpu] = new]
      BY <2>2 DEF new
    <3> QED BY <1>2, <1>3, <3>1, <3>2
  <2>3. CASE reading' = reading
    BY <1>2, <1>3, <2>3
  <2> QED BY <1>1, <2>1, <2>2, <2>3
<1>12. OneReader' /\ ReaderSound'
  BY <1>1, <1>3, <1>11 DEF OneReader, ReaderSound, Used
<1>13. TypeOK'
  BY <1>1, <1>9, <1>11 DEF VtInv, TypeOK
<1> QED BY <1>5, <1>6, <1>7, <1>8, <1>12, <1>13 DEF VtInv

(* A switch to another process keeps the invariant.                        *)
LEMMA TimerVtInv ==
  ASSUME VtInv, NEW p \in Procs, timer_handler(p)
  PROVE  VtInv'
<1>1. InUser /\ cpu' = p /\ UNCHANGED <<vt_table, vt_id_counter, vt_focused, input, reading>>
  BY DEF timer_handler, MayPreempt
<1>2. \A q \in Procs : reading'[q] = Idle
  BY <1>1, NobodyReads
<1>3. OneReader' /\ ReaderSound'
  BY <1>2 DEF OneReader, ReaderSound
<1>4. TypeOK'
  BY <1>1 DEF VtInv, TypeOK
<1>5. IdsDistinct' /\ FocusAgrees' /\ InputStays'
  BY <1>1 DEF VtInv, IdsDistinct, FocusAgrees, InputStays, Used, vt_get
<1> QED BY <1>1, <1>3, <1>4, <1>5 DEF VtInv

(* Every step keeps the invariant.                                         *)
LEMMA NextVtInv == VtInv /\ [Next]_vars => VtInv'
<1> SUFFICES ASSUME VtInv, [Next]_vars PROVE VtInv'
  OBVIOUS
<1>1. CASE vt_create
  BY <1>1, CreateVtInv
<1>2. ASSUME NEW id \in 0 .. MaxIds - 1, vt_destroy(id) \/ vt_focus(id) PROVE VtInv'
  BY <1>2, DestroyVtInv, FocusVtInv
<1>3. CASE vt_focus(NoId)
  BY <1>3, FocusVtInv
<1>4. ASSUME NEW id \in 0 .. MaxIds - 1, NEW kind \in Kinds, vt_input_write(id, kind) PROVE VtInv'
  BY <1>4, WriteVtInv
<1>5. ASSUME NEW count \in 1 .. MaxCount, scall_read(count) PROVE VtInv'
  BY <1>5, ScallReadVtInv
<1>6. CASE vt_input_read
  BY <1>6, ReadVtInv
<1>7. ASSUME NEW p \in Procs, timer_handler(p) PROVE VtInv'
  BY <1>7, TimerVtInv
<1>8. CASE UNCHANGED vars
  BY <1>8 DEF vars, VtInv, TypeOK, IdsDistinct, OneReader, FocusAgrees, InputStays,
              ReaderSound, Used, vt_get
<1> QED BY <1>1, <1>2, <1>3, <1>4, <1>5, <1>6, <1>7, <1>8 DEF Next

(* The invariant of terminals, rings and readers.                          *)
LEMMA InvariantVtInv == Spec => []VtInv
  BY InitVtInv, NextVtInv, PTL DEF Spec

(* Types, and the indices of every ring consistent with its count.         *)
THEOREM VirtualTerminalsTypeCorrect == Spec => []TypeOK
<1>1. VtInv => TypeOK
  BY DEF VtInv
<1> QED BY <1>1, InvariantVtInv, PTL

(* For any number of processes, slots, terminals and any ring: one         *)
(* terminal has the focus by both records of it, no key of a former        *)
(* terminal waits in the ring of a slot used again, and the terminal a     *)
(* read waits at is the one it began with (vt.c:78-89, 255-319, 356-394).  *)
THEOREM VirtualTerminalsKeysStay == Spec => []KeysStay
<1>1. VtInv => KeysStay
  BY DEF VtInv, KeysStay
<1> QED BY <1>1, InvariantVtInv, PTL

-----------------------------------------------------------------------------
(* Prefixes and suffixes, element by element.                              *)
LEMMA PrefixByElements ==
  ASSUME NEW S, NEW s \in Seq(S), NEW t \in Seq(S), Len(s) <= Len(t),
         \A i \in 1 .. Len(s) : s[i] = t[i]
  PROVE  IsPrefix(s, t)
<1>1. SubSeq(s, 1, Len(s)) = SubSeq(t, 1, Len(s))
  <2>1. /\ SubSeq(s, 1, Len(s)) \in Seq(S) /\ SubSeq(t, 1, Len(s)) \in Seq(S)
        /\ Len(SubSeq(s, 1, Len(s))) = Len(s) /\ Len(SubSeq(t, 1, Len(s))) = Len(s)
    OBVIOUS
  <2>2. \A i \in 1 .. Len(s) : SubSeq(s, 1, Len(s))[i] = s[i] /\ SubSeq(t, 1, Len(s))[i] = t[i]
    OBVIOUS
  <2> QED BY <2>1, <2>2, SeqEqual
<1> QED BY <1>1 DEF IsPrefix

(* A sequence that agrees with the end of another is its suffix.           *)
LEMMA SuffixByElements ==
  ASSUME NEW S, NEW s \in Seq(S), NEW t \in Seq(S), NEW m \in Nat, Len(t) = Len(s) + m,
         \A i \in 1 .. Len(s) : s[i] = t[i + m]
  PROVE  IsSuffix(s, t)
<1>1. Len(s) \in Nat /\ Len(t) \in Nat
  OBVIOUS
<1>2. Reverse(s) \in Seq(S) /\ Len(Reverse(s)) = Len(s)
  BY <1>1 DEF Reverse
<1>3. Reverse(t) \in Seq(S) /\ Len(Reverse(t)) = Len(t)
  BY <1>1 DEF Reverse
<1>4. ASSUME NEW i \in 1 .. Len(s) PROVE Reverse(s)[i] = Reverse(t)[i]
  <2>1. Reverse(s)[i] = s[(Len(s) - i) + 1]
    BY DEF Reverse
  <2>2. Reverse(t)[i] = t[(Len(t) - i) + 1]
    BY <1>1 DEF Reverse
  <2>3. (Len(s) - i) + 1 \in 1 .. Len(s) /\ (Len(t) - i) + 1 = ((Len(s) - i) + 1) + m
    BY <1>1
  <2> QED BY <2>1, <2>2, <2>3
<1>5. IsPrefix(Reverse(s), Reverse(t))
  BY <1>1, <1>2, <1>3, <1>4, PrefixByElements
<1> QED BY <1>5 DEF IsSuffix

(* The bytes that wait in a ring are as many as it counts.                 *)
LEMMA WaitingIsSeq ==
  ASSUME NEW r, RingSound(r)
  PROVE  Ring!Waiting(r) \in Seq(Bytes) /\ Len(Ring!Waiting(r)) = r.count
<1>1. InSize \in Nat \ {0} /\ r.head \in 0 .. InSize - 1 /\ r.count \in 0 .. InSize
      /\ r.buf \in [0 .. InSize - 1 -> Bytes]
  BY RingParts
<1>2. \A k \in 1 .. r.count : (r.head + k - 1) % InSize \in 0 .. InSize - 1
  <2> SUFFICES ASSUME NEW k \in 1 .. r.count PROVE (r.head + k - 1) % InSize \in 0 .. InSize - 1
    OBVIOUS
  <2>1. k - 1 \in 0 .. InSize /\ r.head + (k - 1) = r.head + k - 1
    BY <1>1
  <2>2. (r.head + (k - 1)) % InSize \in 0 .. InSize - 1
    BY <1>1, <2>1, Wrap
  <2> QED BY <2>1, <2>2
<1> HIDE DEF Bytes
<1>3. Ring!Waiting(r) \in [1 .. r.count -> Bytes]
  BY <1>1, <1>2 DEF Ring!Waiting
<1> QED BY <1>1, <1>3

(* Bytes leave every ring in the order they came, over all wraps of its    *)
(* indices (vt.c:40-76): ring_write, whatever it has room for, and         *)
(* ring_read never disturb a byte that waits.                              *)
THEOREM VirtualTerminalsBytesInOrder == Spec => BytesInOrder
<1>1. ASSUME VtInv, VtInv', [Next]_vars, NEW s \in Slots, input'[s] # input[s]
      PROVE  \/ IsPrefix(Ring!Waiting(input[s]), Ring!Waiting(input'[s]))
             \/ IsSuffix(Ring!Waiting(input'[s]), Ring!Waiting(input[s]))
  <2> DEFINE was == input[s]
             is == input'[s]
  <2>1. RingSound(was) /\ RingSound(is) /\ input \in [Slots -> Rings]
    BY <1>1, VtParts DEF VtInv
  <2>2. /\ Ring!Waiting(was) \in Seq(Bytes) /\ Len(Ring!Waiting(was)) = was.count
        /\ Ring!Waiting(is) \in Seq(Bytes) /\ Len(Ring!Waiting(is)) = is.count
        /\ was.count \in Nat /\ is.count \in Nat
    BY <2>1, WaitingIsSeq, RingParts
  <2>3. CASE vt_create
    <3>1. is = FreshInput(s)
      BY <1>1, <2>1, <2>3 DEF vt_create
    <3>2. is.count = 0
      BY <2>1, <3>1 DEF FreshInput, Ring!Reset, RingSound, Rings
    <3>3. was.count = 0 + was.count /\ \A i \in 1 .. 0 : Ring!Waiting(is)[i] = Ring!Waiting(was)[i + was.count]
      BY <2>2
    <3> HIDE DEF was, is, Bytes
    <3>4. IsSuffix(Ring!Waiting(is), Ring!Waiting(was))
      BY <2>2, <3>2, <3>3, SuffixByElements
    <3> QED BY <3>4 DEF was, is
  <2>4. ASSUME NEW id \in 0 .. MaxIds - 1, NEW kind \in Kinds, vt_input_write(id, kind)
        PROVE  IsPrefix(Ring!Waiting(was), Ring!Waiting(is))
    <3> DEFINE ev == Event(kind, id)
    <3>1. is = Ring!ring_write(was, ev)
      BY <1>1, <2>1, <2>4 DEF vt_input_write, vt_get
    <3>2. ev \in Seq(Bytes)
      BY <2>4, EventIsBytes
    <3> HIDE DEF was, is, ev, Bytes
    <3>3. PICK w \in 0 .. Len(ev) :
            /\ is.count = was.count + w
            /\ \A k \in 1 .. was.count + w :
                 Ring!Waiting(is)[k] = IF k <= was.count THEN Ring!Waiting(was)[k] ELSE ev[k - was.count]
      BY <2>1, <3>1, <3>2, WriteAppends
    <3>4. was.count <= is.count
      BY <2>2, <3>2, <3>3
    <3>5. \A k \in 1 .. was.count : Ring!Waiting(was)[k] = Ring!Waiting(is)[k]
      BY <2>2, <3>2, <3>3, SMTT(60)
    <3> QED BY <2>2, <3>4, <3>5, PrefixByElements
  <2>5. CASE vt_input_read
    <3>1. is = Ring!ring_read(was, EvSize)
      BY <1>1, <2>1, <2>5 DEF vt_input_read
    <3>2. PICK m \in 0 .. was.count :
            /\ is.count = was.count - m
            /\ \A k \in 1 .. was.count - m : Ring!Waiting(is)[k] = Ring!Waiting(was)[k + m]
      <4>1. EvSize \in Nat
        BY VtAssumption
      <4> HIDE DEF was, is
      <4> QED BY <2>1, <3>1, <4>1, ReadTakes
    <3> HIDE DEF was, is, Bytes
    <3>3. m \in Nat /\ was.count = is.count + m
      BY <2>2, <3>2
    <3>4. IsSuffix(Ring!Waiting(is), Ring!Waiting(was))
      BY <2>2, <3>2, <3>3, SuffixByElements
    <3> QED BY <3>4 DEF was, is
  <2>6. CASE input' = input
    BY <1>1, <2>6
  <2> QED BY <1>1, <2>3, <2>4, <2>5, <2>6
          DEF Next, vt_destroy, vt_focus, scall_read, timer_handler, vars
<1>2. VtInv /\ VtInv' /\ [Next]_vars =>
        [\A s \in {x \in Slots : input'[x] # input[x]} :
           LET was == Ring!Waiting(input[s])
               is == Ring!Waiting(input'[s])
           IN  IsPrefix(was, is) \/ IsSuffix(is, was)]_vars
  BY <1>1
<1> QED BY <1>2, InvariantVtInv, PTL DEF Spec, BytesInOrder

-----------------------------------------------------------------------------
(* The ring of the sound controller.                                       *)
(* From one buffer to another, once around the ring.                       *)
Ahead(i, t) == IF i >= t THEN i - t ELSE i - t + BdlSize
After(i) == IF i + 1 = BdlSize THEN 0 ELSE i + 1

LEMMA RingSize == ASSUME SoundAssumption PROVE BdlSize \in Nat \ {0}
  BY DEF SoundAssumption

(* Buffers counted from the front of the ring.                             *)
LEMMA SlotOf ==
  ASSUME SoundAssumption, NEW x \in 0 .. 2 * BdlSize - 1
  PROVE  Slot(x) \in 0 .. BdlSize - 1 /\ Slot(x) = IF x < BdlSize THEN x ELSE x - BdlSize
<1>1. BdlSize \in Nat \ {0}
  BY RingSize
<1>2. x % BdlSize \in 0 .. BdlSize - 1
  BY <1>1
<1>3. CASE x < BdlSize
  BY <1>1, <1>2, <1>3 DEF Slot
<1>4. CASE ~ (x < BdlSize)
  <2>1. x % BdlSize = x - BdlSize
    BY <1>1, <1>4
  <2> QED BY <1>2, <1>4, <2>1 DEF Slot
<1> QED BY <1>3, <1>4

LEMMA SlotFacts ==
  ASSUME SoundAssumption, NEW i \in 0 .. BdlSize - 1, NEW t \in 0 .. BdlSize - 1
  PROVE  /\ Slot(i + 1) = After(i) /\ After(i) \in 0 .. BdlSize - 1
         /\ Slot(i - t + BdlSize) = Ahead(i, t) /\ Ahead(i, t) \in 0 .. BdlSize - 1
<1>1. BdlSize \in Nat \ {0}
  BY RingSize
<1>2. Slot(i + 1) = IF i + 1 < BdlSize THEN i + 1 ELSE i + 1 - BdlSize
  BY <1>1, SlotOf
<1>3. Slot(i - t + BdlSize) = IF i - t + BdlSize < BdlSize THEN i - t + BdlSize ELSE i - t
  <2> DEFINE x == i - t + BdlSize
  <2>1. x \in 0 .. 2 * BdlSize - 1
    BY <1>1
  <2>2. x - BdlSize = i - t
    BY <1>1
  <2> HIDE DEF x
  <2>3. Slot(x) = IF x < BdlSize THEN x ELSE x - BdlSize
    BY <2>1, SlotOf
  <2> QED BY <2>2, <2>3 DEF x
<1> QED BY <1>1, <1>2, <1>3 DEF After, Ahead

-----------------------------------------------------------------------------
(* Concatenation, as an operator of its own: the provers see its facts, not *)
(* its definition.                                                         *)
Join(s, t) == s \o t

LEMMA JoinFacts ==
  ASSUME NEW S
  PROVE  /\ <<>> \in Seq(S)
         /\ \A s, t \in Seq(S) : Join(s, t) \in Seq(S)
         /\ \A s \in Seq(S) : Join(<<>>, s) = s /\ Join(s, <<>>) = s
         /\ \A s, t, u \in Seq(S) : Join(Join(s, t), u) = Join(s, Join(t, u))
<1>1. \A s \in Seq(S) : <<>> \o s = s /\ s \o <<>> = s
  BY ConcatSimplifications
<1>2. \A s, t, u \in Seq(S) : (s \o t) \o u = s \o (t \o u)
  BY ConcatAssociative, SMTT(60)
<1>3. \A s, t \in Seq(S) : s \o t \in Seq(S)
  BY ConcatProperties
<1> QED BY <1>1, <1>2, <1>3, SMTT(60) DEF Join

(* The samples of n buffers, buffer by buffer.                             *)
Upto(r, from, n, f) == f = [k \in 0..n |-> IF k = 0 THEN <<>> ELSE Join(f[k - 1], r[Slot(from + k - 1)])]

LEMMA UptoExists ==
  ASSUME NEW r, NEW from \in Int, NEW n \in Nat
  PROVE  \E f : Upto(r, from, n, f)
<1> DEFINE None == {m \in Nat : \A f : ~ Upto(r, from, m, f)}
<1> SUFFICES ASSUME None # {}
             PROVE  FALSE
  OBVIOUS
<1>1. PICK m \in None : \A x \in None : m <= x
  BY MinExists
<1>2. m \in Nat /\ \A f : ~ Upto(r, from, m, f)
  OBVIOUS
<1>3. CASE m = 0
  <2> DEFINE f == [k \in 0..0 |-> <<>>]
  <2>1. f = [k \in 0..0 |-> IF k = 0 THEN <<>> ELSE Join(f[k - 1], r[Slot(from + k - 1)])]
    OBVIOUS
  <2> QED BY <2>1, <1>2, <1>3 DEF Upto
<1>4. CASE m # 0
  <2>1. m - 1 \in Nat /\ m - 1 \notin None
    BY <1>1, <1>2, <1>4
  <2>2. PICK g : Upto(r, from, m - 1, g)
    BY <2>1
  <2> HIDE DEF None
  <2> DEFINE f == [k \in 0..m |-> IF k = m THEN Join(g[m - 1], r[Slot(from + m - 1)]) ELSE g[k]]
             c(k) == r[Slot(from + k - 1)]
  <2>3. ASSUME NEW k \in 0..m
        PROVE  f[k] = IF k = 0 THEN <<>> ELSE Join(f[k - 1], c(k))
    <3>1. \A j \in 0..m-1 : g[j] = IF j = 0 THEN <<>> ELSE Join(g[j - 1], c(j))
      BY <2>2 DEF Upto
    <3>2. \A j \in 0..m-1 : f[j] = g[j]
      BY <1>2
    <3>3. f[m] = Join(g[m - 1], c(m))
      BY <1>2
    <3> HIDE DEF f, c
    <3>4. CASE k = m
      BY <3>2, <3>3, <3>4, <2>1, <1>4
    <3>5. CASE k # m
      <4>1. k \in 0..m-1 /\ (k # 0 => k - 1 \in 0..m-1)
        BY <3>5, <1>2
      <4> QED BY <4>1, <3>1, <3>2
    <3> QED BY <3>4, <3>5
  <2>4. f = [k \in 0..m |-> IF k = 0 THEN <<>> ELSE Join(f[k - 1], c(k))]
    <3>1. f = [k \in 0..m |-> f[k]]
      OBVIOUS
    <3> HIDE DEF f, c
    <3> QED BY <2>3, <3>1
  <2> QED BY <2>4, <1>2 DEF Upto
<1> QED BY <1>3, <1>4

LEMMA UptoChosen ==
  ASSUME NEW r, NEW from \in Int, NEW n \in Nat
  PROVE  /\ Upto(r, from, n, CHOOSE f : Upto(r, from, n, f))
         /\ Sounds(r, from, n) = (CHOOSE f : Upto(r, from, n, f))[n]
<1>1. \E f : Upto(r, from, n, f)
  BY UptoExists
<1>2. Upto(r, from, n, CHOOSE f : Upto(r, from, n, f))
  BY <1>1
<1> QED BY <1>2 DEF Sounds, Upto, Join

LEMMA SoundsUnfold ==
  ASSUME NEW r, NEW from \in Int, NEW n \in Nat
  PROVE  Sounds(r, from, n) = IF n = 0 THEN <<>> ELSE Join(Sounds(r, from, n - 1), r[Slot(from + n - 1)])
<1> DEFINE f == CHOOSE u : Upto(r, from, n, u)
           g == CHOOSE u : Upto(r, from, n - 1, u)
<1>1. Upto(r, from, n, f) /\ Sounds(r, from, n) = f[n]
  BY UptoChosen
<1>2. n # 0 => Upto(r, from, n - 1, g) /\ Sounds(r, from, n - 1) = g[n - 1]
  <2>1. n # 0 => n - 1 \in Nat
    OBVIOUS
  <2> QED BY <2>1, UptoChosen
<1> HIDE DEF f, g
<1>3. \A k \in 0..n : f[k] = IF k = 0 THEN <<>> ELSE Join(f[k - 1], r[Slot(from + k - 1)])
  BY <1>1 DEF Upto
<1>4. CASE n = 0
  BY <1>1, <1>3, <1>4
<1>5. CASE n # 0
  <2>1. \A k \in 0..n-1 : g[k] = IF k = 0 THEN <<>> ELSE Join(g[k - 1], r[Slot(from + k - 1)])
    BY <1>2, <1>5 DEF Upto
  <2> DEFINE Off == {k \in 0..n-1 : f[k] # g[k]}
  <2>2. Off = {}
    <3> SUFFICES ASSUME Off # {} PROVE FALSE
      OBVIOUS
    <3>1. Off \in SUBSET Nat
      OBVIOUS
    <3>2. PICK k \in Off : \A x \in Off : k <= x
      <4> HIDE DEF Off
      <4> QED BY <3>1, MinExists
    <3>3. k # 0 => f[k - 1] = g[k - 1]
      BY <3>2
    <3> QED BY <1>3, <2>1, <3>2, <3>3
  <2>3. f[n - 1] = g[n - 1]
    BY <2>2, <1>5
  <2>4. f[n] = Join(f[n - 1], r[Slot(from + n - 1)])
    BY <1>3, <1>5
  <2> QED BY <1>1, <1>2, <1>5, <2>3, <2>4
<1> QED BY <1>4, <1>5

LEMMA SoundsIsSeq ==
  ASSUME NEW S, NEW r, NEW from \in Int, NEW n \in Nat, \A k \in 1..n : r[Slot(from + k - 1)] \in Seq(S)
  PROVE  Sounds(r, from, n) \in Seq(S)
<1> DEFINE Off == {k \in 0..n : Sounds(r, from, k) \notin Seq(S)}
<1> SUFFICES ASSUME Off # {} PROVE FALSE
  OBVIOUS
<1>1. Off \in SUBSET Nat
  OBVIOUS
<1>2. PICK k \in Off : \A x \in Off : k <= x
  <2> HIDE DEF Off
  <2> QED BY <1>1, MinExists
<1>0. k \in 0..n /\ Sounds(r, from, k) \notin Seq(S)
  OBVIOUS
<1>3. k # 0 => Sounds(r, from, k - 1) \in Seq(S) /\ r[Slot(from + k - 1)] \in Seq(S)
  <2>1. k # 0 => k - 1 \in 0..n /\ k - 1 \notin Off
    BY <1>0, <1>2
  <2>2. k # 0 => Sounds(r, from, k - 1) \in Seq(S)
    BY <2>1
  <2>3. k # 0 => k \in 1..n
    BY <1>0
  <2>4. k # 0 => r[Slot(from + k - 1)] \in Seq(S)
    BY <2>3
  <2> QED BY <2>2, <2>4
<1> HIDE DEF Off
<1>4. Sounds(r, from, k) = IF k = 0 THEN <<>> ELSE Join(Sounds(r, from, k - 1), r[Slot(from + k - 1)])
  BY <1>0, SoundsUnfold
<1> QED BY <1>0, <1>3, <1>4, JoinFacts

(* Only the buffers counted matter.                                        *)
LEMMA SoundsOf ==
  ASSUME NEW r, NEW q, NEW from \in Int, NEW to \in Int, NEW n \in Nat,
         \A k \in 1..n : q[Slot(to + k - 1)] = r[Slot(from + k - 1)]
  PROVE  Sounds(q, to, n) = Sounds(r, from, n)
<1> DEFINE Off == {k \in 0..n : Sounds(q, to, k) # Sounds(r, from, k)}
<1> SUFFICES ASSUME Off # {} PROVE FALSE
  OBVIOUS
<1>1. Off \in SUBSET Nat
  OBVIOUS
<1>2. PICK k \in Off : \A x \in Off : k <= x
  <2> HIDE DEF Off
  <2> QED BY <1>1, MinExists
<1>0. k \in 0..n /\ Sounds(q, to, k) # Sounds(r, from, k)
  OBVIOUS
<1>3. k # 0 => Sounds(q, to, k - 1) = Sounds(r, from, k - 1) /\ q[Slot(to + k - 1)] = r[Slot(from + k - 1)]
  BY <1>0, <1>2
<1> HIDE DEF Off
<1>4. /\ Sounds(r, from, k) = IF k = 0 THEN <<>> ELSE Join(Sounds(r, from, k - 1), r[Slot(from + k - 1)])
      /\ Sounds(q, to, k) = IF k = 0 THEN <<>> ELSE Join(Sounds(q, to, k - 1), q[Slot(to + k - 1)])
  BY <1>0, SoundsUnfold
<1> QED BY <1>0, <1>3, <1>4

(* The first buffer apart.                                                 *)
LEMMA SoundsHead ==
  ASSUME NEW S, NEW r, NEW from \in Int, NEW n \in Nat \ {0},
         \A k \in 1..n : r[Slot(from + k - 1)] \in Seq(S)
  PROVE  Sounds(r, from, n) = Join(r[Slot(from)], Sounds(r, from + 1, n - 1))
<1> DEFINE Off == {k \in 1..n : Sounds(r, from, k) # Join(r[Slot(from)], Sounds(r, from + 1, k - 1))}
<1> SUFFICES ASSUME Off # {} PROVE FALSE
  OBVIOUS
<1>1. Off \in SUBSET Nat
  OBVIOUS
<1>2. PICK k \in Off : \A x \in Off : k <= x
  <2> HIDE DEF Off
  <2> QED BY <1>1, MinExists
<1>3. k \in 1..n /\ k - 1 \in Nat /\ Sounds(r, from, k) # Join(r[Slot(from)], Sounds(r, from + 1, k - 1))
  BY <1>2
<1>4. k - 1 # 0 => Sounds(r, from, k - 1) = Join(r[Slot(from)], Sounds(r, from + 1, k - 2))
  <2>1. k - 1 # 0 => k - 1 \in 1..n /\ k - 1 \notin Off /\ k - 1 - 1 = k - 2
    BY <1>2, <1>3
  <2> QED BY <2>1
<1> HIDE DEF Off
<1> DEFINE a == r[Slot(from)]
           c == r[Slot(from + k - 1)]
           b == Sounds(r, from + 1, k - 2)
<1>5. Sounds(r, from, k) = Join(Sounds(r, from, k - 1), c)
  <2>1. k \in Nat /\ k # 0
    BY <1>3
  <2> QED BY <2>1, SoundsUnfold
<1>6. a \in Seq(S) /\ c \in Seq(S)
  <2>1. from + 1 - 1 = from /\ 1 \in 1..n
    OBVIOUS
  <2>2. r[Slot(from + 1 - 1)] \in Seq(S)
    BY <2>1
  <2>3. c \in Seq(S)
    BY <1>3
  <2> QED BY <2>1, <2>2, <2>3
<1>7. CASE k = 1
  <2>1. Sounds(r, from, 0) = <<>> /\ Sounds(r, from + 1, 0) = <<>>
    BY SoundsUnfold
  <2>2. from + 1 - 1 = from
    OBVIOUS
  <2>3. c = a
    BY <1>7, <2>2
  <2> HIDE DEF a, c
  <2>4. Join(<<>>, a) = a /\ Join(a, <<>>) = a
    BY <1>6, JoinFacts
  <2> QED BY <1>3, <1>5, <1>7, <2>1, <2>3, <2>4 DEF a
<1>8. CASE k # 1
  <2>1. k - 1 \in Nat \ {0} /\ k - 2 \in Nat /\ k - 1 - 1 = k - 2 /\ from + 1 + (k - 1) - 1 = from + k - 1
    BY <1>3, <1>8
  <2>2. Sounds(r, from + 1, k - 1) = Join(b, c)
    BY <2>1, SoundsUnfold
  <2>3. b \in Seq(S)
    <3>1. \A j \in 1..k-2 : r[Slot(from + 1 + j - 1)] \in Seq(S)
      <4> SUFFICES ASSUME NEW j \in 1..k-2 PROVE r[Slot(from + 1 + j - 1)] \in Seq(S)
        OBVIOUS
      <4>1. j + 1 \in 1..n /\ from + 1 + j - 1 = from + (j + 1) - 1
        BY <1>3
      <4> QED BY <4>1
    <3>2. k - 2 \in Nat /\ from + 1 \in Int
      BY <2>1
    <3> HIDE DEF a, c
    <3> QED BY <3>1, <3>2, SoundsIsSeq
  <2>4. Sounds(r, from, k - 1) = Join(a, b)
    BY <1>4, <2>1
  <2> HIDE DEF a, b, c
  <2>5. Join(Join(a, b), c) = Join(a, Join(b, c))
    BY <1>6, <2>3, JoinFacts
  <2>6. Sounds(r, from, k) = Join(a, Sounds(r, from + 1, k - 1))
    BY <1>5, <2>2, <2>4, <2>5
  <2> QED BY <1>3, <2>6 DEF a
<1> QED BY <1>7, <1>8

-----------------------------------------------------------------------------
(* Going round the ring.                                                   *)
LEMMA AheadFacts ==
  ASSUME SoundAssumption, NEW i \in 0 .. BdlSize - 1, NEW t \in 0 .. BdlSize - 1, NEW c \in 0 .. BdlSize - 1
  PROVE  /\ Ahead(i, c) \in 0 .. BdlSize - 1 /\ After(i) \in 0 .. BdlSize - 1
         /\ Ahead(i, i) = 0 /\ (i # c => Ahead(i, c) >= 1)
         /\ (c # After(i) => Ahead(After(i), c) = Ahead(i, c) + 1)
         /\ (i # c => Ahead(i, After(c)) = Ahead(i, c) - 1)
         /\ (After(i) = After(t) => i = t)
         /\ (Ahead(i, c) + 1 = BdlSize <=> c = After(i))
         /\ (Ahead(i, c) = Ahead(t, c) => i = t)
<1>1. BdlSize \in Nat \ {0}
  BY RingSize
<1> QED BY <1>1 DEF Ahead, After

LEMMA AheadSlots ==
  ASSUME SoundAssumption, NEW i \in 0 .. BdlSize - 1, NEW c \in 0 .. BdlSize - 1
  PROVE  /\ Slot(c + Ahead(i, c)) = i
         /\ \A k \in 1 .. Ahead(i, c) : /\ Slot(c + k - 1) \in 0 .. BdlSize - 1
                                        /\ Slot(c + k - 1) # i
<1> DEFINE a == Ahead(i, c)
<1>1. BdlSize \in Nat \ {0} /\ a \in 0 .. BdlSize - 1 /\ (c + a = i \/ c + a = i + BdlSize)
  BY RingSize DEF Ahead
<1> HIDE DEF a
<1>2. Slot(c + a) = i
  <2> DEFINE x == c + a
  <2>1. x \in 0 .. 2 * BdlSize - 1 /\ (x = i \/ x = i + BdlSize)
    BY <1>1
  <2> HIDE DEF x
  <2>2. Slot(x) = IF x < BdlSize THEN x ELSE x - BdlSize
    BY <2>1, SlotOf
  <2>3. Slot(x) = i
    BY <1>1, <2>1, <2>2
  <2> QED BY <2>3 DEF x
<1>3. ASSUME NEW k \in 1 .. a
      PROVE  Slot(c + k - 1) \in 0 .. BdlSize - 1 /\ Slot(c + k - 1) # i
  <2> DEFINE x == c + k - 1
  <2>1. x \in 0 .. 2 * BdlSize - 1 /\ x < c + a /\ c <= x
    BY <1>1
  <2> HIDE DEF x
  <2>2. Slot(x) \in 0 .. BdlSize - 1 /\ Slot(x) = IF x < BdlSize THEN x ELSE x - BdlSize
    BY <2>1, SlotOf
  <2>3. Slot(x) # i
    BY <1>1, <2>1, <2>2
  <2> QED BY <2>2, <2>3 DEF x
<1> QED BY <1>2, <1>3 DEF a

(* From the buffer after c on.                                             *)
LEMMA SoundsAfter ==
  ASSUME SoundAssumption, NEW r, NEW c \in 0 .. BdlSize - 1, NEW n \in 0 .. BdlSize - 1
  PROVE  Sounds(r, After(c), n) = Sounds(r, c + 1, n)
<1>1. BdlSize \in Nat \ {0} /\ After(c) \in 0 .. BdlSize - 1 /\ (After(c) = c + 1 \/ After(c) = c + 1 - BdlSize)
  BY RingSize DEF After
<1>2. ASSUME NEW k \in 1 .. n
      PROVE  Slot(After(c) + k - 1) = Slot(c + 1 + k - 1)
  <2> DEFINE x == After(c) + k - 1
             y == c + 1 + k - 1
  <2>1. x \in 0 .. 2 * BdlSize - 1 /\ y \in 0 .. 2 * BdlSize - 1 /\ (x = y \/ x = y - BdlSize)
    BY <1>1
  <2> HIDE DEF x, y
  <2>2. /\ Slot(x) = IF x < BdlSize THEN x ELSE x - BdlSize
        /\ Slot(y) = IF y < BdlSize THEN y ELSE y - BdlSize
    BY <2>1, SlotOf
  <2>3. Slot(x) = Slot(y)
    BY <1>1, <2>1, <2>2
  <2> QED BY <2>3 DEF x, y
<1>3. n \in Nat /\ After(c) \in Int /\ c + 1 \in Int
  BY <1>1
<1> HIDE DEF After
<1> QED BY <1>2, <1>3, SoundsOf

(* Filling the buffer after the last one that waits adds it at the end.    *)
LEMMA SoundsFilled ==
  ASSUME SoundAssumption, NEW S, NEW r \in [0 .. BdlSize - 1 -> Seq(S)], NEW piece \in Seq(S),
         NEW i \in 0 .. BdlSize - 1, NEW c \in 0 .. BdlSize - 1
  PROVE  Sounds([r EXCEPT ![i] = piece], c, Ahead(i, c) + 1) = Join(Sounds(r, c, Ahead(i, c)), piece)
<1> DEFINE q == [r EXCEPT ![i] = piece]
           n == Ahead(i, c)
<1>1. n \in Nat /\ n + 1 \in Nat /\ n + 1 # 0 /\ n + 1 - 1 = n /\ c \in Int /\ c + (n + 1) - 1 = c + n
  <2>1. BdlSize \in Nat \ {0} /\ n \in 0 .. BdlSize - 1
    BY RingSize DEF Ahead
  <2> HIDE DEF n
  <2> QED BY <2>1
<1>2. /\ Slot(c + n) = i
      /\ \A k \in 1 .. n : Slot(c + k - 1) \in 0 .. BdlSize - 1 /\ Slot(c + k - 1) # i
  BY AheadSlots
<1>3. q[i] = piece /\ \A x \in 0 .. BdlSize - 1 : x # i => q[x] = r[x]
  OBVIOUS
<1> HIDE DEF q, n
<1>4. \A k \in 1 .. n : q[Slot(c + k - 1)] = r[Slot(c + k - 1)]
  BY <1>2, <1>3
<1>5. Sounds(q, c, n) = Sounds(r, c, n)
  BY <1>1, <1>4, SoundsOf, ZenonT(60)
<1>6. Sounds(q, c, n + 1) = Join(Sounds(q, c, n + 1 - 1), q[Slot(c + (n + 1) - 1)])
  BY <1>1, SoundsUnfold
<1>7. Sounds(q, c, n + 1) = Join(Sounds(q, c, n), q[Slot(c + n)])
  BY <1>1, <1>6
<1>8. Sounds(q, c, n + 1) = Join(Sounds(r, c, n), piece)
  BY <1>2, <1>3, <1>5, <1>7
<1> QED BY <1>8 DEF q, n

(* Playing a buffer takes it from the front.                               *)
LEMMA SoundsPlayed ==
  ASSUME SoundAssumption, NEW S, NEW r \in [0 .. BdlSize - 1 -> Seq(S)],
         NEW c \in 0 .. BdlSize - 1, NEW n \in 1 .. BdlSize
  PROVE  /\ Sounds(r, c, n) = Join(r[c], Sounds(r, After(c), n - 1))
         /\ r[c] \in Seq(S) /\ Sounds(r, After(c), n - 1) \in Seq(S)
<1>1. BdlSize \in Nat \ {0} /\ n \in Nat \ {0} /\ c \in Int /\ After(c) \in 0 .. BdlSize - 1
  BY RingSize DEF After
<1>2. ASSUME NEW x \in 0 .. BdlSize - 1, NEW k \in 1 .. n
      PROVE  r[Slot(x + k - 1)] \in Seq(S)
  <2> DEFINE y == x + k - 1
  <2>1. y \in 0 .. 2 * BdlSize - 1
    BY <1>1
  <2> HIDE DEF y
  <2>2. Slot(y) \in 0 .. BdlSize - 1
    BY <2>1, SlotOf
  <2>3. r[Slot(y)] \in Seq(S)
    BY <2>2
  <2> QED BY <2>3 DEF y
<1>3. Sounds(r, c, n) = Join(r[Slot(c)], Sounds(r, c + 1, n - 1))
  BY <1>1, <1>2, SoundsHead, ZenonT(60)
<1>4. Slot(c) = c
  BY <1>1, SlotOf
<1>5. n - 1 \in 0 .. BdlSize - 1 /\ n - 1 \in Nat
  BY <1>1
<1>6. Sounds(r, After(c), n - 1) = Sounds(r, c + 1, n - 1)
  BY <1>5, SoundsAfter
<1>7. Sounds(r, After(c), n - 1) \in Seq(S)
  <2>1. \A k \in 1 .. n - 1 : r[Slot(After(c) + k - 1)] \in Seq(S)
    BY <1>1, <1>2, SMTT(60)
  <2> DEFINE d == After(c)
             m == n - 1
  <2>2. d \in Int /\ m \in Nat /\ \A k \in 1 .. m : r[Slot(d + k - 1)] \in Seq(S)
    BY <1>1, <1>5, <2>1
  <2> HIDE DEF d, m
  <2>3. Sounds(r, d, m) \in Seq(S)
    BY <2>2, SoundsIsSeq
  <2> QED BY <2>3 DEF d, m
<1> QED BY <1>3, <1>4, <1>6, <1>7
-----------------------------------------------------------------------------
(* What the driver, the controller and the players keep.                   *)
Places == 0 .. BdlSize - 1
Samples == ({"beep"} \X Nat \X Nat) \cup (Players \X Int)
Callers == {"nobody", "beep"} \cup Players
Calls == [by : Callers, buf : Seq(Samples), done : Nat,
          at : {"idle", "civ", "fill", "start", "end"}, civ : Places]
Readers == [state : {"start", "read", "write", "done", "refused"}, left : Int, at : Int,
            buf : Seq(Samples), out : Nat]

DriverTypes ==
    /\ ring \in [Places -> Seq(Samples)] /\ taken \in Seq(Samples) /\ played \in Seq(Samples)
    /\ write_idx \in Places /\ civ \in Places /\ lvi \in Places
    /\ run \in BOOLEAN /\ halted \in BOOLEAN
    /\ call \in Calls /\ call.done <= Len(call.buf)

(* A player that reads or writes has a file it can play.                   *)
PlayerTypes ==
    /\ beeps \in Seq(Nat)
    /\ wave \in [Players -> Waves] /\ wav \in [Players -> Readers]
    /\ \A p \in Players : wav[p].state \in {"read", "write"} \/ call.by = p =>
         Playable(wave[p]) /\ wav[p].at <= wave[p].samples

(* The controller stays between the last buffer it played and the last      *)
(* valid one, also while the driver works with an older civ.               *)
RingPositions ==
    /\ ~run => halted /\ civ = 0 /\ write_idx = 0 /\ (call.at = "start" => lvi = 0)
    /\ run => IF call.at = "start" THEN lvi = write_idx ELSE write_idx = After(lvi)
    /\ run /\ halted => civ = lvi
    /\ run /\ call.at # "start" => civ # write_idx
    /\ call.at = "start" => civ # After(write_idx)
    /\ call.at = "fill" /\ run => Ahead(civ, call.civ) < Ahead(write_idx, call.civ)
    /\ call.at = "fill" /\ ~run => call.civ = civ

(* What was taken and not played is in the ring.                           *)
Pending == IF run /\ halted THEN 0
           ELSE IF call.at = "start" THEN Ahead(write_idx, civ) + 1 ELSE Ahead(write_idx, civ)
RingKept == Join(played, Sounds(ring, civ, Pending)) = taken

SoundInv == DriverTypes /\ PlayerTypes /\ RingPositions /\ RingKept

LEMMA CallersAre == "nobody" \in Callers /\ "beep" \in Callers /\ Players \subseteq Callers
  BY DEF Callers

(* Half of a stretch, and a stretch of a sequence.                         *)
LEMMA PieceIsSeq ==
  ASSUME NEW S, NEW s \in Seq(S), NEW m \in Nat \ {0}, NEW n \in Int, n <= Len(s)
  PROVE  SubSeq(s, m, n) \in Seq(S)
<1>1. CASE m <= n + 1
  <2>1. m \in 1 .. Len(s) + 1 /\ n \in m - 1 .. Len(s)
    BY <1>1
  <2> QED BY <2>1, SubSeqProperties
<1>2. CASE ~ (m <= n + 1)
  <2>1. 1 .. (n - m + 1) = {} /\ 1 .. (1 + n - m) = {}
    BY <1>2
  <2>2. SubSeq(s, m, n) = [i \in {} |-> s[i + m - 1]]
    BY <2>1 DEF SubSeq
  <2>3. SubSeq(s, m, n) = <<>>
    BY <2>2
  <2> QED BY <2>3
<1> QED BY <1>1, <1>2

LEMMA PlayableFacts ==
  ASSUME SoundAssumption, NEW w \in Waves, Playable(w)
  PROVE  Channels(w) \in 1..2 /\ Stated(w) \in Nat /\ w.samples \in Nat
<1>1. w.samples \in Nat /\ w.chunks \in Seq(Chunks)
  BY DEF SoundAssumption
<1> DEFINE Data == {i \in DOMAIN w.chunks : w.chunks[i].id = "data"}
<1>2. DOMAIN w.chunks = 1 .. Len(w.chunks)
  BY <1>1
<1>3. Data \in SUBSET Nat /\ Data # {}
  BY <1>2 DEF Playable, HasData
<1>4. \E i \in Data : \A j \in Data : i <= j
  <2> HIDE DEF Data
  <2> QED BY <1>3, MinExists
<1>5. \E i \in DOMAIN w.chunks : w.chunks[i].id = "data" /\ \A j \in 1 .. i - 1 : w.chunks[j].id # "data"
  <2>1. PICK i \in Data : \A j \in Data : i <= j
    BY <1>4
  <2>2. \A j \in 1 .. i - 1 : w.chunks[j].id # "data"
    BY <1>2, <2>1, SMTT(60)
  <2> QED BY <2>1, <2>2
<1>6. FirstData(w) \in DOMAIN w.chunks
  BY <1>5 DEF FirstData
<1>7. w.chunks[FirstData(w)] \in Chunks
  BY <1>1, <1>2, <1>6
<1> QED BY <1>1, <1>7 DEF Stated, Channels, Playable, Chunks

LEMMA StereoIsSeq ==
  ASSUME SoundAssumption, NEW p \in Players, NEW from \in Int, NEW frames \in Nat
  PROVE  Stereo(p, from, frames) \in Seq(Samples)
<1>1. 2 * frames \in Nat
  OBVIOUS
<1>2. \A i \in 1 .. 2 * frames : from + i \in Int /\ from + (i + 1) \div 2 \in Int
  OBVIOUS
<1>3. \A x \in Int : Sample(p, x) \in Samples
  BY DEF Sample, Samples
<1> DEFINE m == 2 * frames
<1> HIDE DEF m
<1>4. [i \in 1 .. m |-> Sample(p, from + (i + 1) \div 2)] \in Seq(Samples)
  BY <1>1, <1>2, <1>3 DEF m
<1>5. [i \in 1 .. m |-> Sample(p, from + i)] \in Seq(Samples)
  BY <1>1, <1>2, <1>3 DEF m
<1> QED BY <1>4, <1>5 DEF Stereo, m

-----------------------------------------------------------------------------
(* Most steps leave the device alone.                                      *)
LEMMA InitSoundInv == ASSUME SoundAssumption, SoundInit PROVE SoundInv
<1>1. BdlSize \in Nat \ {0} /\ Beeps \in Seq(Nat) /\ <<>> \in Seq(Samples)
  BY JoinFacts DEF SoundAssumption
<1>2. Sounds(ring, 0, 0) = <<>>
  BY SoundsUnfold
<1>3. DriverTypes
  <2>1. 0 \in Places /\ <<>> \in Seq(Samples) /\ Len(<<>>) = 0 /\ "nobody" \in Callers
    BY <1>1, CallersAre DEF Places
  <2>2. ring \in [Places -> Seq(Samples)]
    BY <2>1 DEF SoundInit, Places
  <2>3. NoCall \in Calls /\ NoCall.done <= Len(NoCall.buf)
    BY <2>1 DEF NoCall, Calls
  <2> QED BY <2>1, <2>2, <2>3 DEF SoundInit, DriverTypes
<1>4. PlayerTypes
  <2>1. \A p \in Players : p # "nobody"
    BY DEF SoundAssumption
  <2>2. wav \in [Players -> Readers] /\ \A p \in Players : wav[p].state = "start"
    BY <1>1 DEF SoundInit, Readers
  <2>3. call.by = "nobody" /\ wave \in [Players -> Waves] /\ beeps = Beeps
    BY DEF SoundInit, NoCall
  <2> QED BY <1>1, <2>1, <2>2, <2>3 DEF PlayerTypes
<1>5. RingPositions
  BY <1>1 DEF SoundInit, RingPositions, NoCall, After
<1>6. RingKept
  <2>1. Pending = 0
    <3>1. run = FALSE /\ call.at = "idle" /\ write_idx = 0 /\ civ = 0
      BY DEF SoundInit, NoCall
    <3> QED BY <3>1 DEF Pending, Ahead
  <2>2. Join(<<>>, <<>>) = <<>>
    BY <1>1, JoinFacts
  <2> QED BY <1>2, <2>1, <2>2 DEF SoundInit, RingKept
<1> QED BY <1>3, <1>4, <1>5, <1>6 DEF SoundInv

(* A step that leaves the device alone, and the call or at least its place  *)
(* in a buffer.                                                            *)
LEMMA RingUntouched ==
  ASSUME SoundInv, UNCHANGED <<ring, write_idx, civ, lvi, run, halted, taken, played>>,
         call' = call \/ (call'.at \notin {"start", "fill"} /\ call.at # "start")
  PROVE  RingPositions' /\ RingKept'
<1>1. RingPositions'
  BY DEF SoundInv, RingPositions, After, Ahead
<1>2. Pending' = Pending
  BY DEF Pending, Ahead
<1> QED BY <1>1, <1>2 DEF SoundInv, RingKept

LEMMA ReadCivInv == ASSUME SoundAssumption, SoundInv, ReadCiv PROVE SoundInv'
<1>1. BdlSize \in Nat \ {0}
  BY RingSize
<1>2. DriverTypes'
  BY DEF SoundInv, ReadCiv, DriverTypes, Calls, device
<1>3. PlayerTypes'
  BY DEF SoundInv, ReadCiv, PlayerTypes, DriverTypes, Calls
<1>4. RingPositions'
  <2>1. civ \in Places /\ write_idx \in Places
    BY DEF SoundInv, DriverTypes
  <2>2. Ahead(civ, civ) = 0 /\ (civ # write_idx => Ahead(write_idx, civ) >= 1)
    BY <2>1, AheadFacts DEF Places
  <2>3. call'.at = "fill" /\ call'.civ = civ /\ call.at = "civ"
    BY DEF SoundInv, DriverTypes, Calls, ReadCiv
  <2>4. Ahead(civ, civ)' = Ahead(civ, civ) /\ Ahead(write_idx, civ)' = Ahead(write_idx, civ)
    BY DEF ReadCiv, device, Ahead
  <2>5. Ahead(write_idx, civ) \in Places
    BY <2>1, AheadFacts DEF Places
  <2>6. run' /\ call'.at = "fill" => Ahead(civ', call'.civ) < Ahead(write_idx', call'.civ)
    <3> SUFFICES ASSUME run PROVE Ahead(civ, civ) < Ahead(write_idx, civ)
      BY <2>3 DEF ReadCiv, device
    <3>1. civ # write_idx
      BY <2>3 DEF SoundInv, RingPositions
    <3>2. Ahead(write_idx, civ) \in Int
      BY <1>1, <2>5 DEF Places
    <3> QED BY <3>1, <3>2, <2>2
  <2> QED BY <2>3, <2>6 DEF SoundInv, RingPositions, ReadCiv, device, Ahead, After
<1>5. RingKept'
  <2>1. Pending' = Pending
    BY DEF SoundInv, DriverTypes, Calls, ReadCiv, device, Pending, Ahead
  <2> QED BY <2>1 DEF SoundInv, RingKept, ReadCiv, device
<1> QED BY <1>2, <1>3, <1>4, <1>5 DEF SoundInv


LEMMA StopFullInv == ASSUME SoundInv, StopFull PROVE SoundInv'
<1>1. call' \in Calls /\ call'.buf = call.buf /\ call'.done = call.done /\ call'.by = call.by /\ call'.at = "end"
      /\ call.at = "fill"
  BY DEF SoundInv, StopFull, DriverTypes, Calls
<1>2. DriverTypes'
  BY <1>1 DEF SoundInv, StopFull, DriverTypes, device
<1>3. PlayerTypes'
  BY <1>1 DEF SoundInv, StopFull, PlayerTypes
<1>4. RingPositions' /\ RingKept'
  BY <1>1, RingUntouched DEF StopFull, device
<1> QED BY <1>2, <1>3, <1>4 DEF SoundInv

LEMMA EndBeepInv == ASSUME SoundAssumption, SoundInv, EndBeep PROVE SoundInv'
<1>1. call' \in Calls /\ call'.done <= Len(call'.buf) /\ call'.by = "nobody" /\ call'.at = "idle" /\ call.at = "end"
  <2>1. 0 \in Places /\ <<>> \in Seq(Samples) /\ Len(<<>>) = 0 /\ "nobody" \in Callers
    BY RingSize, JoinFacts, CallersAre DEF Places
  <2>2. NoCall \in Calls /\ NoCall.done <= Len(NoCall.buf) /\ NoCall.by = "nobody" /\ NoCall.at = "idle"
    BY <2>1 DEF NoCall, Calls
  <2> QED BY <2>2 DEF EndBeep
<1>2. DriverTypes'
  BY <1>1 DEF SoundInv, EndBeep, DriverTypes, device
<1>3. PlayerTypes'
  BY <1>1 DEF SoundInv, EndBeep, PlayerTypes, SoundAssumption
<1>4. RingPositions' /\ RingKept'
  BY <1>1, RingUntouched DEF EndBeep, device
<1> QED BY <1>2, <1>3, <1>4 DEF SoundInv

(* A call begins with what it is to write.                                 *)
LEMMA BeginFacts ==
  ASSUME SoundAssumption, NEW who \in Callers,
         NEW s \in Seq(Samples), call' = [by |-> who, buf |-> s, done |-> 0, at |-> "civ", civ |-> 0]
  PROVE  call' \in Calls /\ call'.done <= Len(call'.buf) /\ call'.by = who /\ call'.at = "civ"
<1>1. 0 \in Places
  BY RingSize DEF Places
<1>2. Len(s) \in Nat
  OBVIOUS
<1> QED BY <1>1, <1>2 DEF Calls

LEMMA BeepInv == ASSUME SoundAssumption, SoundInv, ac97_beep PROVE SoundInv'
<1> DEFINE n == Least(BeepFrames, Head(beeps))
           left == Head(beeps) - n
           s == [i \in 1 .. 2 * n |-> <<"beep", Len(beeps), left>>]
<1>1. beeps \in Seq(Nat) /\ beeps # <<>> /\ Head(beeps) \in Nat /\ Tail(beeps) \in Seq(Nat) /\ Len(beeps) \in Nat
  BY DEF SoundInv, PlayerTypes, ac97_beep
<1>2. n \in Nat /\ left \in Nat
  <2>0. Chunk \in Nat
    BY DEF SoundAssumption
  <2>1. BeepFrames \in Nat
    BY <2>0 DEF BeepFrames
  <2> QED BY <1>1, <2>1 DEF Least
<1>3. Begin("beep", s) /\ beeps' = IF left = 0 THEN Tail(beeps) ELSE <<left>> \o Tail(beeps)
  BY DEF ac97_beep
<1> HIDE DEF n, left
<1>4. s \in Seq(Samples)
  <2>1. <<"beep", Len(beeps), left>> \in Samples
    BY <1>1, <1>2 DEF Samples
  <2> DEFINE m == 2 * n
             b == <<"beep", Len(beeps), left>>
  <2>2. m \in Nat
    BY <1>2
  <2> HIDE DEF m, b
  <2>3. [i \in 1 .. m |-> b] \in Seq(Samples)
    BY <2>1, <2>2 DEF b
  <2> QED BY <2>3 DEF m, b
<1> HIDE DEF s
<1>5. call' \in Calls /\ call'.done <= Len(call'.buf) /\ call'.by = "beep" /\ call'.at = "civ" /\ call.at = "idle"
  BY <1>3, <1>4, BeginFacts, CallersAre DEF ac97_beep, Begin
<1>6. DriverTypes'
  BY <1>5 DEF SoundInv, ac97_beep, DriverTypes, device
<1>7. PlayerTypes'
  <2>1. beeps' \in Seq(Nat)
    BY <1>1, <1>2, <1>3
  <2> QED BY <1>5, <2>1 DEF SoundInv, ac97_beep, PlayerTypes, SoundAssumption
<1>8. RingPositions' /\ RingKept'
  BY <1>5, RingUntouched DEF ac97_beep, device
<1> QED BY <1>6, <1>7, <1>8 DEF SoundInv

LEMMA OpenWaveInv == ASSUME SoundAssumption, SoundInv, NEW p \in Players, OpenWave(p) PROVE SoundInv'
<1>1. DriverTypes'
  BY DEF SoundInv, OpenWave, DriverTypes, device
<1>2. RingPositions' /\ RingKept'
  BY RingUntouched DEF OpenWave, device
<1>3. PlayerTypes'
  <2>1. wave \in [Players -> Waves] /\ wav \in [Players -> Readers] /\ wav[p].state = "start"
    BY DEF SoundInv, PlayerTypes, OpenWave
  <2>3. CASE Playable(wave[p]) /\ present = "ready"
    <3>1. Stated(wave[p]) \in Int /\ wave[p].samples \in Nat
      BY <2>1, <2>3, PlayableFacts
    <3>2. wav' = [wav EXCEPT ![p] = [state |-> "read", left |-> Stated(wave[p]), at |-> 0, buf |-> <<>>, out |-> 0]]
      BY <2>3 DEF OpenWave
    <3>3. wav' \in [Players -> Readers] /\ wav'[p].at = 0 /\ \A q \in Players : q # p => wav'[q] = wav[q]
      BY <2>1, <3>1, <3>2 DEF Readers
    <3> QED BY <2>1, <2>3, <3>1, <3>3 DEF SoundInv, OpenWave, PlayerTypes
  <2>4. CASE ~ (Playable(wave[p]) /\ present = "ready")
    <3>1. wav' = [wav EXCEPT ![p].state = "refused"]
      BY <2>4 DEF OpenWave
    <3>2. wav' \in [Players -> Readers] /\ wav'[p].at = wav[p].at /\ wav'[p].state = "refused"
          /\ \A q \in Players : q # p => wav'[q] = wav[q]
      BY <2>1, <3>1 DEF Readers
    <3> QED BY <2>1, <3>2 DEF SoundInv, OpenWave, PlayerTypes
  <2> QED BY <2>3, <2>4
<1> QED BY <1>1, <1>2, <1>3 DEF SoundInv

LEMMA ReadWaveInv == ASSUME SoundAssumption, SoundInv, NEW p \in Players, ReadWave(p) PROVE SoundInv'
<1>1. DriverTypes'
  BY DEF SoundInv, ReadWave, DriverTypes, device
<1>2. RingPositions' /\ RingKept'
  BY RingUntouched DEF ReadWave, device
<1>3. PlayerTypes'
  <2> DEFINE w == wave[p]
             c == Channels(w)
             want == Least(IoFrames * c, wav[p].left)
             got == Least(want, w.samples - wav[p].at)
             frames == got \div c
             s == Stereo(p, wav[p].at, frames)
  <2>1. wave \in [Players -> Waves] /\ wav \in [Players -> Readers] /\ wav[p].state = "read"
    BY DEF SoundInv, PlayerTypes, ReadWave
  <2>2. Playable(w) /\ wav[p].at <= w.samples
    BY <2>1 DEF SoundInv, PlayerTypes
  <2>3. c \in 1..2 /\ w.samples \in Nat /\ wav[p].left \in Int /\ wav[p].at \in Int /\ IoFrames \in Nat
    BY <2>1, <2>2, PlayableFacts DEF Readers, SoundAssumption
  <2> HIDE DEF c
  <2>4. CASE wav[p].left <= 0 \/ frames = 0
    <3>1. wav' = [wav EXCEPT ![p].state = "done"]
      BY <2>4 DEF ReadWave, c
    <3>2. wav' \in [Players -> Readers] /\ wav'[p].at = wav[p].at /\ wav'[p].state = "done"
          /\ \A q \in Players : q # p => wav'[q] = wav[q]
      BY <2>1, <3>1 DEF Readers
    <3> QED BY <2>1, <3>2 DEF SoundInv, ReadWave, PlayerTypes
  <2>5. CASE ~ (wav[p].left <= 0 \/ frames = 0)
    <3>1. wav' = [wav EXCEPT ![p] = [state |-> "write", left |-> wav[p].left - got, at |-> wav[p].at + got,
                                     buf |-> s, out |-> 0]]
      BY <2>5 DEF ReadWave, c
    <3>2. got \in Nat /\ wav[p].at + got <= w.samples
      <4>1. IoFrames * c \in Nat
        BY <2>3
      <4> QED BY <2>2, <2>3, <2>5, <4>1 DEF Least
    <3>3. frames \in Nat
      BY <2>3, <3>2
    <3>4. s \in Seq(Samples)
      BY <2>3, <3>3, StereoIsSeq
    <3> HIDE DEF got, s
    <3>5. wav' \in [Players -> Readers] /\ wav'[p].at <= w.samples /\ \A q \in Players : q # p => wav'[q] = wav[q]
      BY <2>1, <2>3, <3>1, <3>2, <3>4, SMTT(60) DEF Readers
    <3> QED BY <2>1, <2>2, <3>5 DEF SoundInv, ReadWave, PlayerTypes
  <2> QED BY <2>4, <2>5
<1> QED BY <1>1, <1>2, <1>3 DEF SoundInv

LEMMA WriteWaveInv == ASSUME SoundAssumption, SoundInv, NEW p \in Players, WriteWave(p) PROVE SoundInv'
<1> DEFINE s == SubSeq(wav[p].buf, wav[p].out + 1, Len(wav[p].buf))
<1>1. s \in Seq(Samples)
  <2>1. wav[p].buf \in Seq(Samples) /\ wav[p].out + 1 \in Nat \ {0}
    BY DEF SoundInv, PlayerTypes, Readers
  <2>2. Len(wav[p].buf) \in Int
    BY <2>1
  <2> QED BY <2>1, <2>2, PieceIsSeq
<1>2. Begin(p, s) /\ wav[p].state = "write" /\ call.at = "idle"
  BY DEF WriteWave
<1> HIDE DEF s
<1>3. call' \in Calls /\ call'.done <= Len(call'.buf) /\ call'.by = p /\ call'.at = "civ"
  BY <1>1, <1>2, BeginFacts, CallersAre DEF Begin
<1>4. DriverTypes'
  BY <1>3 DEF SoundInv, WriteWave, DriverTypes, device
<1>5. PlayerTypes'
  BY <1>2, <1>3 DEF SoundInv, WriteWave, PlayerTypes
<1>6. RingPositions' /\ RingKept'
  BY <1>2, <1>3, RingUntouched DEF WriteWave, device
<1> QED BY <1>4, <1>5, <1>6 DEF SoundInv

LEMMA EndWriteInv == ASSUME SoundAssumption, SoundInv, NEW p \in Players, EndWrite(p) PROVE SoundInv'
<1>1. call' \in Calls /\ call'.done <= Len(call'.buf) /\ call'.by = "nobody" /\ call'.at = "idle" /\ call.at = "end"
  <2>1. 0 \in Places /\ <<>> \in Seq(Samples) /\ Len(<<>>) = 0 /\ "nobody" \in Callers
    BY RingSize, JoinFacts, CallersAre DEF Places
  <2>2. NoCall \in Calls /\ NoCall.done <= Len(NoCall.buf) /\ NoCall.by = "nobody" /\ NoCall.at = "idle"
    BY <2>1 DEF NoCall, Calls
  <2> QED BY <2>2 DEF EndWrite
<1>2. DriverTypes'
  BY <1>1 DEF SoundInv, EndWrite, DriverTypes, device
<1>3. PlayerTypes'
  <2>0. wave \in [Players -> Waves] /\ wav \in [Players -> Readers] /\ call.by = p /\ call.done \in Nat
    BY DEF SoundInv, PlayerTypes, DriverTypes, Calls, EndWrite
  <2>1. wave \in [Players -> Waves] /\ wav \in [Players -> Readers] /\ Progress(p) \in Nat /\ call.by = p
    BY <2>0 DEF Readers, Progress
  <2>2. wav' \in [Players -> Readers] /\ wav'[p].at = wav[p].at /\ \A q \in Players : q # p => wav'[q] = wav[q]
    <3> HIDE DEF Progress
    <3> QED BY <2>1, ZenonT(60) DEF EndWrite, Readers
  <2> QED BY <1>1, <2>1, <2>2 DEF SoundInv, EndWrite, PlayerTypes, SoundAssumption
<1>4. RingPositions' /\ RingKept'
  BY <1>1, RingUntouched DEF EndWrite, device
<1> QED BY <1>2, <1>3, <1>4 DEF SoundInv


-----------------------------------------------------------------------------
(* The steps of the driver and the controller.                             *)
LEMMA SoundsTyped ==
  ASSUME SoundAssumption, NEW S, NEW r \in [Places -> Seq(S)], NEW c \in Places, NEW n \in 0 .. BdlSize
  PROVE  Sounds(r, c, n) \in Seq(S)
<1>1. CASE n = 0
  <2>1. c \in Int
    BY RingSize DEF Places
  <2>2. Sounds(r, c, 0) = <<>>
    BY <2>1, SoundsUnfold
  <2> QED BY <1>1, <2>2, JoinFacts, ZenonT(60)
<1>2. CASE n # 0
  <2>1. n \in 1 .. BdlSize /\ r[c] \in Seq(S)
    BY <1>2, RingSize
  <2>2. Sounds(r, c, n) = Join(r[c], Sounds(r, After(c), n - 1)) /\ Sounds(r, After(c), n - 1) \in Seq(S)
    BY <2>1, SoundsPlayed DEF Places
  <2> QED BY <2>1, <2>2, JoinFacts
<1> QED BY <1>1, <1>2

LEMMA FillInv == ASSUME SoundAssumption, SoundInv, Fill PROVE SoundInv'
<1> DEFINE n == Least(Chunk, Len(call.buf) - call.done)
           piece == SubSeq(call.buf, call.done + 1, call.done + n)
           w == write_idx
<1>1. /\ call.at = "fill" /\ ~ Full(call.civ) /\ ring' = [ring EXCEPT ![w] = piece] /\ taken' = taken \o piece
      /\ lvi' = w /\ w' = w /\ run' = run /\ played' = played
      /\ IF run /\ halted THEN civ' = Slot(civ + 1) /\ halted' = FALSE ELSE civ' = civ /\ halted' = halted
      /\ call' = [call EXCEPT !.at = "start", !.done = call.done + n]
  BY DEF Fill
<1>2. /\ ring \in [Places -> Seq(Samples)] /\ taken \in Seq(Samples) /\ played \in Seq(Samples)
      /\ w \in Places /\ civ \in Places /\ lvi \in Places /\ run \in BOOLEAN /\ halted \in BOOLEAN
      /\ call \in Calls /\ call.buf \in Seq(Samples) /\ call.done \in Nat /\ call.done <= Len(call.buf)
      /\ Len(call.buf) \in Nat /\ call.civ \in Places
  BY DEF SoundInv, DriverTypes, Calls
<1>3. n \in Nat /\ call.done + n <= Len(call.buf)
  <2>1. Chunk \in Nat
    BY DEF SoundAssumption
  <2> QED BY <1>2, <2>1 DEF Least
<1>4. piece \in Seq(Samples)
  <2>1. call.done + 1 \in Nat \ {0} /\ call.done + n \in Int
    BY <1>2, <1>3, SMTT(60)
  <2> HIDE DEF n
  <2> QED BY <1>2, <1>3, <2>1, PieceIsSeq
<1> HIDE DEF n, piece
<1>5. call' \in Calls /\ call'.done <= Len(call'.buf) /\ call'.at = "start" /\ call'.by = call.by
  <2>1. call.done + n \in Nat
    BY <1>2, <1>3
  <2> QED BY <1>1, <1>2, <1>3, <2>1 DEF Calls
<1>6. Slot(civ + 1) = After(civ) /\ After(civ) \in Places
  BY <1>2, SlotFacts DEF Places
<1>7. DriverTypes'
  <2>1. ring' \in [Places -> Seq(Samples)]
    BY <1>1, <1>2, <1>4
  <2>2. taken' \in Seq(Samples)
    BY <1>1, <1>2, <1>4
  <2>3. civ' \in Places /\ halted' \in BOOLEAN
    BY <1>1, <1>2, <1>6
  <2> QED BY <1>1, <1>2, <1>5, <2>1, <2>2, <2>3 DEF DriverTypes
<1>8. PlayerTypes'
  BY <1>5 DEF SoundInv, Fill, PlayerTypes
<1>9. After(w) # call.civ /\ After(w) \in Places
  <2>1. Slot(w - call.civ + BdlSize) = Ahead(w, call.civ) /\ Ahead(w, call.civ) \in Places
    BY <1>2, SlotFacts DEF Places
  <2>2. Ahead(w, call.civ) # BdlSize - 1
    BY <1>1, <2>1 DEF Full
  <2>3. Ahead(w, call.civ) + 1 = BdlSize <=> call.civ = After(w)
    BY <1>2, AheadFacts DEF Places
  <2>4. Ahead(w, call.civ) + 1 # BdlSize
    BY <2>1, <2>2, RingSize DEF Places
  <2> QED BY <1>2, <2>3, <2>4, SlotFacts DEF Places
<1>10. After(w) # w
  <2>1. ASSUME After(w) = w PROVE FALSE
    <3>1. BdlSize = 1
      BY <1>2, <2>1, RingSize DEF After, Places
    <3> QED BY <1>2, <1>9, <3>1 DEF Places
  <2> QED BY <2>1
<1>11. civ' \in Places /\ civ' # After(w) /\ ~ (run' /\ halted') /\ (~ run' => halted' /\ civ' = 0 /\ w = 0)
       /\ Sounds(ring, civ, Pending) = Sounds(ring, civ', Ahead(w, civ'))
  <2>1. CASE ~ run
    <3>1. civ' = civ /\ halted' = halted /\ civ = 0 /\ w = 0 /\ halted /\ ~ run'
      BY <1>1, <2>1 DEF SoundInv, RingPositions
    <3>2. Pending = Ahead(w, civ)
      BY <1>1, <2>1 DEF Pending
    <3> QED BY <1>2, <1>10, <3>1, <3>2
  <2>2. CASE run /\ halted
    <3>1. civ' = After(civ) /\ ~ halted' /\ run'
      BY <1>1, <1>6, <2>2
    <3>2. civ = lvi /\ w = After(lvi)
      BY <1>1, <2>2 DEF SoundInv, RingPositions
    <3>3. Ahead(w, w) = 0
      BY <1>2, AheadFacts DEF Places
    <3>4. Pending = 0
      BY <2>2 DEF Pending
    <3>5. civ \in Int /\ w \in Int
      BY <1>2, RingSize DEF Places
    <3>6. Sounds(ring, civ, 0) = <<>> /\ Sounds(ring, w, 0) = <<>>
      BY <3>5, SoundsUnfold
    <3> QED BY <1>2, <1>10, <3>1, <3>2, <3>3, <3>4, <3>6
  <2>3. CASE run /\ ~ halted
    <3>1. civ' = civ /\ ~ halted' /\ run'
      BY <1>1, <2>3
    <3>2. Pending = Ahead(w, civ)
      BY <1>1, <2>3 DEF Pending
    <3>3. Ahead(civ, call.civ) < Ahead(w, call.civ)
      BY <1>1, <2>3 DEF SoundInv, RingPositions
    <3>4. Ahead(After(w), call.civ) = Ahead(w, call.civ) + 1 /\ Ahead(w, call.civ) \in Places
      BY <1>2, <1>9, AheadFacts, ZenonT(60) DEF Places
    <3>5. civ # After(w)
      BY <3>3, <3>4, RingSize DEF Places
    <3> QED BY <1>2, <3>1, <3>2, <3>5
  <2> QED BY <1>2, <2>1, <2>2, <2>3
<1>12. RingPositions'
  <2>1. After(w)' = After(w')
    BY DEF After
  <2> QED BY <1>1, <1>5, <1>11, <2>1 DEF RingPositions
<1>13. RingKept'
  <2> DEFINE q == Sounds(ring, civ', Ahead(w, civ'))
  <2>1. Pending' = Ahead(w, civ') + 1
    BY <1>1, <1>5, <1>11 DEF Pending, Ahead
  <2>2. Sounds([ring EXCEPT ![w] = piece], civ', Ahead(w, civ') + 1) = Join(q, piece)
    <3> DEFINE cc == civ'
    <3>1. cc \in 0 .. BdlSize - 1 /\ w \in 0 .. BdlSize - 1 /\ ring \in [0 .. BdlSize - 1 -> Seq(Samples)]
      BY <1>2, <1>11 DEF Places
    <3> HIDE DEF cc
    <3>2. Sounds([ring EXCEPT ![w] = piece], cc, Ahead(w, cc) + 1) = Join(Sounds(ring, cc, Ahead(w, cc)), piece)
      BY <1>4, <3>1, SoundsFilled, ZenonT(60)
    <3> QED BY <3>2 DEF cc
  <2>3. q \in Seq(Samples)
    <3>1. Ahead(w, civ') \in 0 .. BdlSize - 1
      BY <1>2, <1>11, AheadFacts DEF Places
    <3>2. Ahead(w, civ') \in 0 .. BdlSize
      BY <3>1, RingSize
    <3> QED BY <1>2, <1>11, <3>2, SoundsTyped
  <2>4. Join(played, q) = taken
    BY <1>11 DEF SoundInv, RingKept
  <2> HIDE DEF q
  <2>5. Join(played, Join(q, piece)) = Join(taken, piece)
    BY <1>2, <1>4, <2>3, <2>4, JoinFacts
  <2>6. Sounds(ring', civ', Pending') = Join(q, piece)
    BY <1>1, <2>1, <2>2
  <2>7. taken' = Join(taken, piece)
    BY <1>1 DEF Join
  <2> QED BY <1>1, <2>5, <2>6, <2>7 DEF RingKept
<1> QED BY <1>7, <1>8, <1>12, <1>13 DEF SoundInv

LEMMA StartAndGoOnInv == ASSUME SoundAssumption, SoundInv, StartAndGoOn PROVE SoundInv'
<1> DEFINE w == write_idx
<1>1. /\ call.at = "start" /\ ring' = ring /\ taken' = taken /\ lvi' = lvi /\ played' = played /\ civ' = civ
      /\ w' = Slot(w + 1)
      /\ IF Start THEN run' = TRUE /\ halted' = FALSE ELSE run' = run /\ halted' = halted
  BY DEF StartAndGoOn
<1>2. /\ ring \in [Places -> Seq(Samples)] /\ taken \in Seq(Samples) /\ played \in Seq(Samples)
      /\ w \in Places /\ civ \in Places /\ lvi \in Places /\ run \in BOOLEAN /\ halted \in BOOLEAN
      /\ call \in Calls /\ call.done <= Len(call.buf)
  BY DEF SoundInv, DriverTypes
<1>3. call' \in Calls /\ call'.done <= Len(call'.buf) /\ call'.at \in {"civ", "end"} /\ call'.by = call.by
  BY <1>2 DEF StartAndGoOn, Calls
<1>4. w' = After(w) /\ w' \in Places
  BY <1>1, <1>2, SlotFacts DEF Places
<1>5. DriverTypes'
  BY <1>1, <1>2, <1>3, <1>4 DEF DriverTypes
<1>6. PlayerTypes'
  BY <1>3 DEF SoundInv, StartAndGoOn, PlayerTypes
<1>7. run' /\ lvi = w /\ civ # w' /\ (halted' <=> run /\ halted) /\ (halted' => civ = lvi)
  BY <1>1, <1>2, <1>4 DEF SoundInv, RingPositions, Start
<1>8. RingPositions'
  <2>1. After(lvi)' = After(lvi')
    BY DEF After
  <2> QED BY <1>1, <1>3, <1>4, <1>7, <2>1 DEF RingPositions
<1>9. Pending' = Pending
  <2>1. Ahead(After(w), civ) = Ahead(w, civ) + 1
    BY <1>2, <1>4, <1>7, AheadFacts DEF Places
  <2>2. Pending = IF run /\ halted THEN 0 ELSE Ahead(w, civ) + 1
    BY <1>1 DEF Pending
  <2>3. Pending' = IF halted' THEN 0 ELSE Ahead(w', civ)
    BY <1>1, <1>3, <1>7 DEF Pending, Ahead
  <2> QED BY <1>4, <1>7, <2>1, <2>2, <2>3
<1>10. RingKept'
  BY <1>1, <1>9 DEF SoundInv, RingKept
<1> QED BY <1>5, <1>6, <1>8, <1>10 DEF SoundInv

LEMMA PlayInv == ASSUME SoundAssumption, SoundInv, Play PROVE SoundInv'
<1> DEFINE w == write_idx
<1>1. /\ run /\ ~ halted /\ ring' = ring /\ taken' = taken /\ lvi' = lvi /\ w' = w /\ run' = run /\ call' = call
      /\ played' = Join(played, ring[civ])
      /\ IF civ = lvi THEN halted' = TRUE /\ civ' = civ ELSE civ' = Slot(civ + 1) /\ halted' = halted
  BY DEF Play, Join
<1>2. /\ ring \in [Places -> Seq(Samples)] /\ taken \in Seq(Samples) /\ played \in Seq(Samples)
      /\ w \in Places /\ civ \in Places /\ lvi \in Places /\ run \in BOOLEAN /\ halted \in BOOLEAN
      /\ call \in Calls /\ call.civ \in Places
  BY DEF SoundInv, DriverTypes, Calls
<1>3. Slot(civ + 1) = After(civ) /\ After(civ) \in Places /\ After(lvi) \in Places /\ ring[civ] \in Seq(Samples)
  BY <1>2, SlotFacts DEF Places
<1>4. DriverTypes'
  <2>1. played' \in Seq(Samples)
    BY <1>1, <1>2, <1>3, JoinFacts
  <2> QED BY <1>1, <1>2, <1>3, <2>1 DEF SoundInv, DriverTypes
<1>5. PlayerTypes'
  BY DEF SoundInv, Play, PlayerTypes
<1>6. /\ IF call.at = "start" THEN lvi = w ELSE w = After(lvi)
      /\ call.at # "start" => civ # w
      /\ call.at = "start" => civ # After(w)
      /\ call.at = "fill" => Ahead(civ, call.civ) < Ahead(w, call.civ)
  BY <1>1 DEF SoundInv, RingPositions
<1>7. civ # lvi => After(civ) # After(lvi)
  BY <1>2, AheadFacts DEF Places
<1>8. call.at = "fill" => Ahead(civ', call.civ) < Ahead(w, call.civ)
  <2> SUFFICES ASSUME call.at = "fill", civ # lvi
               PROVE  Ahead(After(civ), call.civ) < Ahead(w, call.civ)
    BY <1>1, <1>3, <1>6
  <2> DEFINE a == Ahead(civ, call.civ)
             b == Ahead(lvi, call.civ)
             d == Ahead(w, call.civ)
             e == Ahead(After(civ), call.civ)
  <2>0. w = After(lvi) /\ a < d /\ call.civ \in 0 .. BdlSize - 1
    BY <1>2, <1>6 DEF Places
  <2>1. a \in 0 .. BdlSize - 1 /\ b \in 0 .. BdlSize - 1 /\ d \in 0 .. BdlSize - 1 /\ a # b
    <3>0. civ \in 0 .. BdlSize - 1 /\ lvi \in 0 .. BdlSize - 1
      BY <1>2 DEF Places
    <3>1. a \in 0 .. BdlSize - 1
      BY <3>0, <2>0, AheadFacts
    <3>2. b \in 0 .. BdlSize - 1
      BY <1>2, <2>0, AheadFacts DEF Places
    <3>3. d \in 0 .. BdlSize - 1
      BY <1>2, <2>0, AheadFacts DEF Places
    <3>4. a # b
      <4> DEFINE cc == call.civ
      <4>1. cc \in 0 .. BdlSize - 1
        BY <2>0
      <4> HIDE DEF cc
      <4>2. Ahead(civ, cc) = Ahead(lvi, cc) => civ = lvi
        BY <3>0, <4>1, AheadFacts
      <4> QED BY <4>2 DEF cc
    <3> HIDE DEF a, b, d
    <3> QED BY <3>1, <3>2, <3>3, <3>4
  <2>2. w = After(lvi) /\ a < d /\ (call.civ # w => d = b + 1) /\ (call.civ = w => d = 0)
    <3>1. call.civ # After(lvi) => Ahead(After(lvi), call.civ) = b + 1
      BY <1>2, <2>0, AheadFacts DEF Places
    <3>2. Ahead(call.civ, call.civ) = 0
      BY <2>0, AheadFacts
    <3> QED BY <2>0, <3>1, <3>2
  <2>3. call.civ # After(civ) => e = a + 1
    BY <1>2, AheadFacts DEF Places
  <2>4. call.civ = After(civ) => e = 0
    BY <1>2, <1>3, AheadFacts DEF Places
  <2> HIDE DEF a, b, d, e
  <2>5. d = b + 1
    BY <2>1, <2>2, RingSize
  <2>6. e < d
    BY <2>1, <2>2, <2>3, <2>4, <2>5, RingSize
  <2> QED BY <2>6 DEF e, d
<1>9. RingPositions'
  <2>1. After(lvi)' = After(lvi') /\ After(w)' = After(w') /\ Ahead(civ, call.civ)' = Ahead(civ', call'.civ)
        /\ Ahead(w, call.civ)' = Ahead(w', call'.civ)
    BY DEF After, Ahead
  <2> QED BY <1>1, <1>3, <1>6, <1>7, <1>8, <2>1 DEF RingPositions
<1>10. Pending \in 1 .. BdlSize /\ Sounds(ring, civ', Pending') = Sounds(ring, After(civ), Pending - 1)
  <2> DEFINE a == Ahead(w, civ)
  <2>1. a \in 0 .. BdlSize - 1 /\ (civ # w => a >= 1) /\ (civ # w => Ahead(w, After(civ)) = a - 1)
    BY <1>2, AheadFacts, ZenonT(60) DEF Places
  <2>2. Pending = IF call.at = "start" THEN a + 1 ELSE a
    BY <1>1 DEF Pending
  <2>3. CASE civ = lvi
    <3>1. Ahead(civ, civ) = 0 /\ (civ # After(civ) => Ahead(After(civ), civ) = 1)
      BY <1>2, AheadFacts DEF Places
    <3>2. Pending = 1
      BY <1>6, <2>2, <2>3, <3>1
    <3>3. Pending' = 0
      BY <1>1, <2>3 DEF Pending
    <3>4. civ' \in Int /\ After(civ) \in Int
      BY <1>1, <1>2, <1>3, <2>3, RingSize DEF Places
    <3>5. Sounds(ring, civ', 0) = <<>> /\ Sounds(ring, After(civ), 0) = <<>>
      BY <3>4, SoundsUnfold
    <3> QED BY <3>2, <3>3, <3>5, RingSize
  <2>4. CASE civ # lvi
    <3>1. civ # w
      BY <1>6, <2>4
    <3>2. civ' = After(civ) /\ ~ halted'
      BY <1>1, <1>3, <2>4
    <3>3. Pending' = IF call.at = "start" THEN Ahead(w, After(civ)) + 1 ELSE Ahead(w, After(civ))
      BY <1>1, <3>2 DEF Pending, Ahead
    <3> HIDE DEF a
    <3>4. Pending' = Pending - 1 /\ Pending \in 1 .. BdlSize
      BY <2>1, <2>2, <3>1, <3>3, RingSize
    <3> QED BY <3>2, <3>4
  <2> QED BY <2>3, <2>4
<1>11. RingKept'
  <2> DEFINE q == Sounds(ring, After(civ), Pending - 1)
  <2>1. Sounds(ring, civ, Pending) = Join(ring[civ], q) /\ q \in Seq(Samples)
    BY <1>2, <1>10, SoundsPlayed, ZenonT(60) DEF Places
  <2>2. Join(played, Sounds(ring, civ, Pending)) = taken
    BY DEF SoundInv, RingKept
  <2>3. Sounds(ring', civ', Pending') = q
    BY <1>1, <1>10
  <2> HIDE DEF q
  <2>4. Join(Join(played, ring[civ]), q) = taken
    BY <1>2, <1>3, <2>1, <2>2, JoinFacts
  <2> QED BY <1>1, <2>3, <2>4 DEF RingKept
<1> QED BY <1>4, <1>5, <1>9, <1>11 DEF SoundInv


(* Steps that concern the sound device not at all.                         *)
LEMMA OtherSoundInv ==
  ASSUME SoundInv,
         UNCHANGED <<ring, write_idx, civ, lvi, run, halted, call, beeps, wav, wave, taken, played>>
  PROVE  SoundInv'
<1>1. DriverTypes' /\ PlayerTypes'
  BY DEF SoundInv, DriverTypes, PlayerTypes
<1>2. RingPositions' /\ RingKept'
  BY RingUntouched
<1> QED BY <1>1, <1>2 DEF SoundInv

LEMMA NextSoundInv == ASSUME SoundAssumption, SoundInv, [SoundNext]_soundVars PROVE SoundInv'
<1>1. ASSUME NEW found, ac97_init(found) PROVE SoundInv'
  BY <1>1, OtherSoundInv DEF ac97_init, device
<1>2. CASE ac97_irq_handler
  BY <1>2, OtherSoundInv DEF ac97_irq_handler, device
<1>3. CASE EndOfSlice
  BY <1>3, OtherSoundInv DEF EndOfSlice, device
<1>4. CASE UNCHANGED soundVars
  BY <1>4, OtherSoundInv DEF soundVars
<1>5. CASE ReadCiv
  BY <1>5, ReadCivInv
<1>6. CASE StopFull
  BY <1>6, StopFullInv
<1>7. CASE Fill
  BY <1>7, FillInv
<1>8. CASE StartAndGoOn
  BY <1>8, StartAndGoOnInv
<1>9. CASE Play
  BY <1>9, PlayInv
<1>10. CASE ac97_beep
  BY <1>10, BeepInv
<1>11. CASE EndBeep
  BY <1>11, EndBeepInv
<1>12. ASSUME NEW p \in Players, OpenWave(p) \/ ReadWave(p) \/ WriteWave(p) \/ EndWrite(p) PROVE SoundInv'
  BY <1>12, OpenWaveInv, ReadWaveInv, WriteWaveInv, EndWriteInv
<1> QED BY <1>1, <1>2, <1>3, <1>4, <1>5, <1>6, <1>7, <1>8, <1>9, <1>10, <1>11, <1>12 DEF SoundNext

(* Waiting counts the buffers between two places; the invariant counts them *)
(* from the controller's.                                                  *)
LEMMA WaitingIsPending ==
  ASSUME SoundAssumption, SoundInv
  PROVE  Waiting = Sounds(ring, civ, Pending)
<1> DEFINE w == write_idx
           from == IF run /\ halted THEN civ + 1 ELSE civ
           to == IF call.at = "start" THEN w ELSE w - 1
           x == to - from + 1 + BdlSize
<1>1. w \in 0 .. BdlSize - 1 /\ civ \in 0 .. BdlSize - 1 /\ lvi \in 0 .. BdlSize - 1 /\ BdlSize \in Nat \ {0}
      /\ run \in BOOLEAN /\ halted \in BOOLEAN
  BY RingSize DEF SoundInv, DriverTypes, Places
<1>2. Waiting = Sounds(ring, from, Slot(x))
  BY DEF Waiting
<1>3. /\ ~ run => halted /\ civ = 0 /\ w = 0
      /\ run => IF call.at = "start" THEN lvi = w ELSE w = After(lvi)
      /\ run /\ halted => civ = lvi
      /\ call.at = "start" => civ # After(w)
  BY DEF SoundInv, RingPositions
<1>4. CASE run /\ halted
  <2>1. x = BdlSize \/ x = 0
    BY <1>1, <1>3, <1>4 DEF After
  <2>2. x \in 0 .. 2 * BdlSize - 1
    BY <1>1, <2>1
  <2>3. from \in Int /\ civ \in Int
    BY <1>1
  <2> HIDE DEF x, from
  <2>4. Slot(x) = IF x < BdlSize THEN x ELSE x - BdlSize
    BY <2>2, SlotOf
  <2>5. Slot(x) = 0
    BY <1>1, <2>1, <2>4
  <2>6. Sounds(ring, from, 0) = <<>> /\ Sounds(ring, civ, 0) = <<>>
    BY <2>3, SoundsUnfold
  <2>7. Pending = 0
    BY <1>4 DEF Pending
  <2> QED BY <1>2, <2>5, <2>6, <2>7
<1>5. CASE ~ (run /\ halted)
  <2>1. from = civ
    BY <1>5
  <2>2. Pending = IF call.at = "start" THEN Ahead(w, civ) + 1 ELSE Ahead(w, civ)
    BY <1>5 DEF Pending
  <2>3. CASE call.at = "start"
    <3>1. x = w - civ + 1 + BdlSize
      BY <1>1, <2>1, <2>3
    <3>2. civ # After(w)
      BY <1>3, <2>3
    <3>3. x \in 0 .. 2 * BdlSize - 1
      BY <1>1, <3>1, <3>2 DEF After
    <3> HIDE DEF x
    <3>4. Slot(x) = IF x < BdlSize THEN x ELSE x - BdlSize
      BY <3>3, SlotOf
    <3>5. Slot(x) = Ahead(w, civ) + 1
      BY <1>1, <3>1, <3>2, <3>4 DEF Ahead, After
    <3> QED BY <1>2, <2>1, <2>2, <2>3, <3>5
  <2>4. CASE call.at # "start"
    <3>1. x = w - civ + BdlSize
      BY <1>1, <2>1, <2>4
    <3>2. Slot(w - civ + BdlSize) = Ahead(w, civ)
      BY <1>1, SlotFacts
    <3> HIDE DEF x
    <3> QED BY <1>2, <2>1, <2>2, <2>4, <3>1, <3>2
  <2> QED BY <2>3, <2>4
<1> QED BY <1>4, <1>5

(* Every sample the driver took is played once and in order, or waits in   *)
(* the ring in its order: for any size of the ring and its buffers, any     *)
(* players and files, and the controller at any place while ac97_write     *)
(* works with the civ it read before.                                      *)
THEOREM SoundPlaysInOrder == ASSUME SoundAssumption PROVE SoundSpec => []SoundInOrder
<1>1. SoundInit => SoundInv
  BY InitSoundInv
<1>2. SoundInv /\ [SoundNext]_soundVars => SoundInv'
  BY NextSoundInv
<1>3. SoundInv => SoundInOrder
  BY WaitingIsPending DEF SoundInv, RingKept, SoundInOrder, Join
<1> QED BY <1>1, <1>2, <1>3, PTL DEF SoundSpec

-----------------------------------------------------------------------------
(* The mouse.  The bytes of a packet, and what the reader will have seen    *)
(* when it has read all there is.                                          *)
MBytes == [place : 0..3, sync : BOOLEAN, over : BOOLEAN, btn : BOOLEAN]
Header(over, btn) == MByte(0, TRUE, over, btn)
MotionX(sync) == MByte(1, sync, FALSE, FALSE)
MotionY(sync) == MByte(2, sync, FALSE, TRUE)
LastSeen == IF mRing = <<>> THEN seen ELSE mRing[Len(mRing)]

MouseTypes ==
    /\ mRing \in Seq(BOOLEAN) /\ pkt \in Seq(MBytes) /\ Len(pkt) <= 2
    /\ button \in BOOLEAN /\ seen \in BOOLEAN /\ small \in BOOLEAN /\ astray \in BOOLEAN /\ stale \in BOOLEAN

(* Before the mouse first moves only acknowledgements come, and a packet    *)
(* they make up gives no event.                                            *)
OnlyAcks ==
    /\ \E n \in Nat : mWire = [i \in 1 .. n |-> Ack]
    /\ ~ small /\ mRing = <<>> /\ seen = button /\ (pkt # <<>> => astray)
    /\ \A i \in 1 .. Len(pkt) : pkt[i] = Ack

(* Afterwards: how far the driver is with the last packet, whether it took  *)
(* its header for the head of a packet or not.                             *)
InPacket(over, x, y) ==
    LET h == Header(over, button)
    IN  \/ mWire = <<h, MotionX(x), MotionY(y)>> /\ (pkt # <<>> => astray)
        \/ mWire = <<MotionX(x), MotionY(y)>> /\ (pkt = <<h>> \/ (astray /\ Len(pkt) # 1))
        \/ mWire = <<MotionY(y)>>
             /\ (pkt = <<h, MotionX(x)>> \/ (astray /\ (pkt = <<>> \/ (Len(pkt) = 1 /\ x))))
        \/ /\ mWire = <<>> /\ (pkt # <<>> => astray) /\ (small => pkt = <<>>)
           /\ ~ astray /\ ~ stale => LastSeen = button

MouseInv ==
    /\ MouseTypes
    /\ OnlyAcks \/ \E over, x, y \in BOOLEAN : small = ~ (x \/ y) /\ InPacket(over, x, y)

LEMMA TupleFacts ==
  /\ \A a, b, c : <<a, b, c>> # <<>> /\ Head(<<a, b, c>>) = a /\ Tail(<<a, b, c>>) = <<b, c>>
  /\ \A a, b : <<a, b>> # <<>> /\ Head(<<a, b>>) = a /\ Tail(<<a, b>>) = <<b>> /\ Len(<<a, b>>) = 2
  /\ \A a : <<a>> # <<>> /\ Head(<<a>>) = a /\ Tail(<<a>>) = <<>> /\ Len(<<a>>) = 1
<1>1. \A a, b, c : <<a, b, c>> # <<>> /\ Head(<<a, b, c>>) = a /\ Tail(<<a, b, c>>) = <<b, c>>
  OBVIOUS
<1>2. \A a, b : <<a, b>> # <<>> /\ Head(<<a, b>>) = a /\ Tail(<<a, b>>) = <<b>> /\ Len(<<a, b>>) = 2
  OBVIOUS
<1>3. \A a : <<a>> # <<>> /\ Head(<<a>>) = a /\ Tail(<<a>>) = <<>> /\ Len(<<a>>) = 1
  OBVIOUS
<1> QED BY <1>1, <1>2, <1>3

LEMMA AppendFacts ==
  /\ \A a, b \in MBytes : Append(<<a>>, b) = <<a, b>>
  /\ \A b : Append(<<>>, b) = <<b>>
<1>1. ASSUME NEW a \in MBytes, NEW b \in MBytes PROVE Append(<<a>>, b) = <<a, b>>
  <2>1. <<a>> \in Seq(MBytes) /\ Len(<<a>>) = 1 /\ <<a>>[1] = a
    OBVIOUS
  <2>2. <<a, b>> \in Seq(MBytes) /\ Len(<<a, b>>) = 2 /\ <<a, b>>[1] = a /\ <<a, b>>[2] = b
    OBVIOUS
  <2> DEFINE s == <<a>>
             t == <<a, b>>
  <2> HIDE DEF s, t
  <2>3. Append(s, b) \in Seq(MBytes) /\ Len(Append(s, b)) = 2 /\ Append(s, b)[1] = a /\ Append(s, b)[2] = b
    BY <2>1, AppendProperties DEF s
  <2> DEFINE u == Append(s, b)
  <2>4. u = t
    <3>1. u \in Seq(MBytes) /\ Len(u) = 2 /\ u[1] = a /\ u[2] = b
      BY <2>3
    <3>2. t \in Seq(MBytes) /\ Len(t) = 2 /\ t[1] = a /\ t[2] = b
      BY <2>2 DEF t
    <3> HIDE DEF u
    <3>3. \A i \in 1 .. Len(u) : u[i] = t[i]
      BY <3>1, <3>2
    <3> QED BY <3>1, <3>2, <3>3, SeqEqual
  <2> QED BY <2>4 DEF s, t
<1>2. \A b : Append(<<>>, b) = <<b>>
  OBVIOUS
<1> QED BY <1>1, <1>2

(* How many bytes of a packet there are.                                   *)
LEMMA PacketParts ==
  ASSUME MouseTypes
  PROVE  /\ pkt \in Seq(MBytes) /\ Len(pkt) \in 0..2 /\ (Len(pkt) = 0 <=> pkt = <<>>)
         /\ pkt # <<>> => pkt[1] \in MBytes
         /\ \A b \in MBytes : /\ Append(pkt, b) \in Seq(MBytes) /\ Len(Append(pkt, b)) = Len(pkt) + 1
                              /\ \A i \in 1 .. Len(pkt) : Append(pkt, b)[i] = pkt[i]
                              /\ Append(pkt, b)[Len(pkt) + 1] = b
<1>1. pkt \in Seq(MBytes) /\ Len(pkt) <= 2
  BY DEF MouseTypes
<1>0. (Len(pkt) = 0 <=> pkt = <<>>) /\ Len(pkt) \in Nat
  BY <1>1, EmptySeq
<1>2. (Len(pkt) = 0 <=> pkt = <<>>) /\ Len(pkt) \in 0..2
  <2> DEFINE k == Len(pkt)
  <2>1. k \in Nat /\ k <= 2 /\ (k = 0 <=> pkt = <<>>)
    BY <1>0, <1>1
  <2> HIDE DEF k
  <2>2. k \in 0..2
    BY <2>1
  <2> QED BY <2>1, <2>2 DEF k
<1>3. pkt # <<>> => pkt[1] \in MBytes
  <2>1. pkt # <<>> => 1 \in 1 .. Len(pkt)
    BY <1>2
  <2> QED BY <1>1, <2>1
<1>4. \A b \in MBytes : /\ Append(pkt, b) \in Seq(MBytes) /\ Len(Append(pkt, b)) = Len(pkt) + 1
                        /\ \A i \in 1 .. Len(pkt) : Append(pkt, b)[i] = pkt[i]
                        /\ Append(pkt, b)[Len(pkt) + 1] = b
  BY <1>1, AppendProperties
<1> QED BY <1>1, <1>2, <1>3, <1>4

LEMMA ByteFacts ==
  /\ Ack \in MBytes /\ Ack.sync /\ Ack.over /\ Ack.place # 0
  /\ \A o, b \in BOOLEAN : /\ Header(o, b) \in MBytes /\ Header(o, b).sync /\ Header(o, b).over = o
                           /\ Header(o, b).btn = b /\ Header(o, b).place = 0
  /\ \A s \in BOOLEAN : /\ MotionX(s) \in MBytes /\ MotionX(s).sync = s /\ MotionX(s).place # 0
                        /\ MotionY(s) \in MBytes /\ MotionY(s).sync = s /\ MotionY(s).place # 0
  BY DEF Ack, Header, MotionX, MotionY, MByte, MBytes

(* A byte: taken for the head of a packet, added to one, or passed over.   *)
LEMMA ByteTaken ==
  ASSUME MouseTypes, mouse_irq, NEW b \in MBytes, Head(mWire) = b
  PROVE  /\ mWire' = Tail(mWire) /\ UNCHANGED <<button, seen, small>>
         /\ pkt = <<>> /\ ~ b.sync => UNCHANGED <<pkt, mRing, astray, stale>>
         /\ pkt = <<>> /\ b.sync => pkt' = <<b>> /\ astray' = (b.place # 0) /\ UNCHANGED <<mRing, stale>>
         /\ Len(pkt) = 1 => pkt' = Append(pkt, b) /\ UNCHANGED <<mRing, astray, stale>>
         /\ Len(pkt) = 2 => /\ pkt' = <<>> /\ astray' = astray
                            /\ IF pkt[1].over THEN stale' = TRUE /\ UNCHANGED mRing
                               ELSE mRing' = ev_push(mRing, pkt[1].btn) /\ stale' = (mRing' = mRing)
         /\ Len(pkt) \in 0..2 /\ (Len(pkt) = 0 <=> pkt = <<>>)
<1>1. pkt \in Seq(MBytes) /\ Len(pkt) \in 0..2 /\ (Len(pkt) = 0 <=> pkt = <<>>)
  BY PacketParts
<1>2. Len(Append(pkt, b)) = Len(pkt) + 1 /\ (pkt # <<>> => Append(pkt, b)[1] = pkt[1])
  <2>1. pkt # <<>> => 1 \in 1 .. Len(pkt)
    BY <1>1
  <2> QED BY <2>1, PacketParts
<1> DEFINE full == Append(pkt, b)
<1>3. /\ mWire' = Tail(mWire) /\ UNCHANGED <<button, seen, small>>
      /\ IF pkt = <<>> /\ ~ b.sync THEN UNCHANGED <<pkt, mRing, astray, stale>>
         ELSE /\ astray' = IF pkt = <<>> THEN b.place # 0 ELSE astray
              /\ IF Len(full) < 3 THEN pkt' = full /\ UNCHANGED <<mRing, stale>>
                 ELSE /\ pkt' = <<>>
                      /\ IF full[1].over THEN stale' = TRUE /\ UNCHANGED mRing
                         ELSE /\ mRing' = ev_push(mRing, full[1].btn)
                              /\ stale' = (mRing' = mRing)
  BY DEF mouse_irq, Sync
<1>4. pkt = <<>> => full = <<b>>
  BY AppendFacts
<1>5. Len(full) = Len(pkt) + 1 /\ (pkt # <<>> => full[1] = pkt[1])
  BY <1>2
<1> HIDE DEF full
<1>6. CASE pkt = <<>>
  BY <1>1, <1>3, <1>4, <1>5, <1>6
<1>7. CASE Len(pkt) = 1
  <2>1. full = Append(pkt, b)
    BY DEF full
  <2> QED BY <1>1, <1>3, <1>5, <1>7, <2>1
<1>8. CASE Len(pkt) = 2
  BY <1>1, <1>3, <1>5, <1>8
<1> QED BY <1>1, <1>3, <1>6, <1>7, <1>8

LEMMA IrqTypes ==
  ASSUME MouseTypes, mouse_irq, NEW b \in MBytes, Head(mWire) = b
  PROVE  MouseTypes'
<1>1. /\ UNCHANGED <<button, seen, small>>
      /\ pkt = <<>> /\ ~ b.sync => UNCHANGED <<pkt, mRing, astray, stale>>
      /\ pkt = <<>> /\ b.sync => pkt' = <<b>> /\ astray' = (b.place # 0) /\ UNCHANGED <<mRing, stale>>
      /\ Len(pkt) = 1 => pkt' = Append(pkt, b) /\ UNCHANGED <<mRing, astray, stale>>
      /\ Len(pkt) = 2 => /\ pkt' = <<>> /\ astray' = astray
                         /\ IF pkt[1].over THEN stale' = TRUE /\ UNCHANGED mRing
                            ELSE mRing' = ev_push(mRing, pkt[1].btn) /\ stale' = (mRing' = mRing)
      /\ Len(pkt) \in 0..2 /\ (Len(pkt) = 0 <=> pkt = <<>>)
  BY ByteTaken
<1>2. CASE pkt = <<>> /\ ~ b.sync
  BY <1>1, <1>2 DEF MouseTypes
<1>3. CASE pkt = <<>> /\ b.sync
  <2>1. <<b>> \in Seq(MBytes) /\ Len(<<b>>) <= 2 /\ (b.place # 0) \in BOOLEAN
    OBVIOUS
  <2> QED BY <1>1, <1>3, <2>1 DEF MouseTypes
<1>4. CASE Len(pkt) = 1
  <2>1. Append(pkt, b) \in Seq(MBytes) /\ Len(Append(pkt, b)) <= 2
    BY <1>4, PacketParts
  <2> QED BY <1>1, <1>4, <2>1 DEF MouseTypes
<1>5. CASE Len(pkt) = 2
  <2>1. pkt[1] \in MBytes
    BY <1>5, PacketParts
  <2>2. pkt[1].btn \in BOOLEAN
    BY <2>1 DEF MBytes
  <2>3. ev_push(mRing, pkt[1].btn) \in Seq(BOOLEAN)
    <3>1. mRing \in Seq(BOOLEAN)
      BY DEF MouseTypes
    <3>2. Append(mRing, pkt[1].btn) \in Seq(BOOLEAN)
      BY <2>2, <3>1, AppendProperties
    <3> QED BY <3>1, <3>2 DEF ev_push
  <2>4. mRing' \in Seq(BOOLEAN) /\ stale' \in BOOLEAN
    BY <1>1, <1>5, <2>3 DEF MouseTypes
  <2>5. pkt' \in Seq(MBytes) /\ Len(pkt') <= 2
    BY <1>1, <1>5
  <2> QED BY <1>1, <1>5, <2>4, <2>5 DEF MouseTypes
<1> QED BY <1>1, <1>2, <1>3, <1>4, <1>5

(* An acknowledgement.                                                     *)
LEMMA AckTaken == ASSUME MouseTypes, OnlyAcks, mouse_irq PROVE MouseTypes' /\ OnlyAcks'
<1>1. PICK n \in Nat : mWire = [i \in 1 .. n |-> Ack]
  BY DEF OnlyAcks
<1>2. n # 0
  BY <1>1 DEF mouse_irq
<1>3. Head(mWire) = Ack /\ Tail(mWire) = [i \in 1 .. n - 1 |-> Ack] /\ n - 1 \in Nat
  <2> DEFINE s == [i \in 1 .. n |-> Ack]
             t == [i \in 1 .. n - 1 |-> Ack]
  <2>1. s \in Seq({Ack}) /\ Len(s) = n /\ s # <<>> /\ s[1] = Ack
    BY <1>2
  <2>2. Tail(s) = t
    <3>1. Tail(s) \in Seq({Ack}) /\ Len(Tail(s)) = n - 1 /\ \A i \in 1 .. n - 1 : Tail(s)[i] = Ack
      BY <1>2
    <3>2. t \in Seq({Ack}) /\ Len(t) = n - 1 /\ \A i \in 1 .. n - 1 : t[i] = Ack
      BY <1>2
    <3> HIDE DEF s, t
    <3> QED BY <3>1, <3>2, SeqEqual
  <2> QED BY <1>1, <1>2, <2>1, <2>2
<1>4. Ack \in MBytes /\ Ack.sync /\ Ack.over /\ Ack.place # 0
  BY ByteFacts
<1>5. MouseTypes'
  BY <1>3, <1>4, IrqTypes
<1>6. /\ mWire' = Tail(mWire) /\ UNCHANGED <<button, seen, small>>
      /\ pkt = <<>> => pkt' = <<Ack>> /\ astray' = TRUE /\ UNCHANGED <<mRing, stale>>
      /\ Len(pkt) = 1 => pkt' = Append(pkt, Ack) /\ UNCHANGED <<mRing, astray, stale>>
      /\ Len(pkt) = 2 => /\ pkt' = <<>> /\ astray' = astray
                         /\ IF pkt[1].over THEN stale' = TRUE /\ UNCHANGED mRing
                            ELSE mRing' = ev_push(mRing, pkt[1].btn) /\ stale' = (mRing' = mRing)
      /\ Len(pkt) \in 0..2 /\ (Len(pkt) = 0 <=> pkt = <<>>)
  BY <1>3, <1>4, ByteTaken
<1>7. \E m \in Nat : mWire' = [i \in 1 .. m |-> Ack]
  BY <1>3, <1>6
<1>8. \A i \in 1 .. Len(pkt) : pkt[i] = Ack
  BY DEF OnlyAcks
<1>9. CASE pkt = <<>>
  <2>1. \A i \in 1 .. Len(pkt') : pkt'[i] = Ack
    <3>1. \A i \in 1 .. Len(<<Ack>>) : <<Ack>>[i] = Ack
      OBVIOUS
    <3> QED BY <1>6, <1>9, <3>1
  <2> QED BY <1>5, <1>6, <1>7, <1>9, <2>1 DEF OnlyAcks
<1>10. CASE Len(pkt) = 1
  <2>1. \A i \in 1 .. Len(pkt') : pkt'[i] = Ack
    <3>1. pkt' = Append(pkt, Ack) /\ Len(pkt') = 2 /\ pkt'[1] = pkt[1] /\ pkt'[2] = Ack /\ pkt[1] = Ack
      BY <1>4, <1>6, <1>8, <1>10, PacketParts
    <3> QED BY <3>1
  <2>2. pkt # <<>> /\ mRing' = mRing /\ astray' = astray
    BY <1>6, <1>10
  <2> QED BY <1>5, <1>6, <1>7, <2>1, <2>2 DEF OnlyAcks
<1>11. CASE Len(pkt) = 2
  <2>1. pkt[1] = Ack /\ pkt' = <<>>
    BY <1>6, <1>8, <1>11
  <2>2. mRing' = mRing
    BY <1>4, <1>6, <1>11, <2>1
  <2>3. \A i \in 1 .. Len(pkt') : pkt'[i] = Ack
    BY <2>1
  <2> QED BY <1>5, <1>6, <1>7, <1>11, <2>1, <2>2, <2>3 DEF OnlyAcks
<1> QED BY <1>6, <1>9, <1>10, <1>11

(* A byte of a packet.                                                     *)
LEMMA PacketTaken ==
  ASSUME MouseTypes, mouse_irq, NEW over \in BOOLEAN, NEW x \in BOOLEAN, NEW y \in BOOLEAN,
         small = ~ (x \/ y), InPacket(over, x, y)
  PROVE  MouseTypes' /\ small' = small /\ InPacket(over, x, y)'
<1> DEFINE h == Header(over, button)
           mx == MotionX(x)
           my == MotionY(y)
<1>1. /\ h \in MBytes /\ h.sync = TRUE /\ h.over = over /\ h.btn = button /\ h.place = 0
      /\ mx \in MBytes /\ mx.sync = x /\ mx.place # 0 /\ my \in MBytes /\ my.sync = y /\ my.place # 0
  <2>1. button \in BOOLEAN
    BY DEF MouseTypes
  <2> QED BY <2>1, ByteFacts
<1>2. mWire # <<>> /\ UNCHANGED <<button, seen, small>> /\ mWire' = Tail(mWire)
  BY DEF mouse_irq
<1>3. Header(over, button)' = h
  BY <1>2 DEF Header, MByte
<1>4. Len(pkt) \in 0..2 /\ (Len(pkt) = 0 <=> pkt = <<>>) /\ pkt \in Seq(MBytes)
  BY PacketParts
<1>5. \/ mWire = <<h, mx, my>> /\ (pkt # <<>> => astray)
      \/ mWire = <<mx, my>> /\ (pkt = <<h>> \/ (astray /\ Len(pkt) # 1))
      \/ mWire = <<my>> /\ (pkt = <<h, mx>> \/ (astray /\ (pkt = <<>> \/ (Len(pkt) = 1 /\ x))))
  BY <1>2 DEF InPacket
<1>6. astray \in BOOLEAN /\ stale \in BOOLEAN /\ mRing \in Seq(BOOLEAN) /\ button \in BOOLEAN
  BY DEF MouseTypes
<1> HIDE DEF h, mx, my
<1>7. CASE mWire = <<h, mx, my>> /\ (pkt # <<>> => astray)
  <2>1. Head(mWire) = h /\ mWire' = <<mx, my>>
    BY <1>2, <1>7, TupleFacts
  <2>2. MouseTypes'
    BY <1>1, <2>1, IrqTypes
  <2>3. /\ pkt = <<>> => pkt' = <<h>>
        /\ Len(pkt) = 1 => pkt' = Append(pkt, h) /\ astray' = astray
        /\ Len(pkt) = 2 => pkt' = <<>> /\ astray' = astray
    BY <1>1, <2>1, ByteTaken
  <2>4. CASE pkt = <<>>
    BY <1>2, <1>3, <2>1, <2>2, <2>3, <2>4 DEF InPacket, mx, my
  <2>5. CASE Len(pkt) = 1
    <3>1. Len(pkt') = 2
      BY <1>1, <2>3, <2>5, PacketParts
    <3> QED BY <1>2, <1>3, <1>4, <1>7, <2>1, <2>2, <2>3, <2>5, <3>1 DEF InPacket, mx, my
  <2>6. CASE Len(pkt) = 2
    <3>1. Len(pkt') = 0
      BY <2>3, <2>6
    <3> QED BY <1>2, <1>3, <1>4, <1>7, <2>1, <2>2, <2>3, <2>6, <3>1 DEF InPacket, mx, my
  <2> QED BY <1>4, <2>4, <2>5, <2>6
<1>8. CASE mWire = <<mx, my>> /\ (pkt = <<h>> \/ (astray /\ Len(pkt) # 1))
  <2>1. Head(mWire) = mx /\ mWire' = <<my>>
    BY <1>2, <1>8, TupleFacts
  <2>2. MouseTypes'
    BY <1>1, <2>1, IrqTypes
  <2>3. /\ pkt = <<>> /\ ~ x => pkt' = pkt /\ astray' = astray
        /\ pkt = <<>> /\ x => pkt' = <<mx>> /\ astray' = TRUE
        /\ Len(pkt) = 1 => pkt' = Append(pkt, mx) /\ astray' = astray
        /\ Len(pkt) = 2 => pkt' = <<>> /\ astray' = astray
    BY <1>1, <2>1, ByteTaken
  <2>4. CASE pkt = <<h>>
    <3>1. Len(pkt) = 1
      BY <2>4, TupleFacts
    <3>2. pkt' = <<h, mx>>
      BY <1>1, <2>3, <2>4, <3>1, AppendFacts
    <3> QED BY <1>2, <1>3, <2>1, <2>2, <3>2 DEF InPacket, mx, my
  <2>5. CASE astray /\ pkt = <<>>
    <3>1. astray' /\ (pkt' = <<>> \/ (Len(pkt') = 1 /\ x))
      BY <2>3, <2>5, TupleFacts
    <3> QED BY <1>2, <1>3, <2>1, <2>2, <3>1 DEF InPacket, mx, my
  <2>6. CASE astray /\ Len(pkt) = 2
    <3>1. astray' /\ pkt' = <<>>
      BY <2>3, <2>6
    <3> QED BY <1>2, <1>3, <2>1, <2>2, <3>1 DEF InPacket, mx, my
  <2> QED BY <1>4, <1>8, <2>4, <2>5, <2>6
<1>9. CASE mWire = <<my>> /\ (pkt = <<h, mx>> \/ (astray /\ (pkt = <<>> \/ (Len(pkt) = 1 /\ x))))
  <2>1. Head(mWire) = my /\ mWire' = <<>>
    BY <1>2, <1>9, TupleFacts
  <2>2. MouseTypes'
    BY <1>1, <2>1, IrqTypes
  <2>3. /\ pkt = <<>> /\ ~ y => pkt' = pkt /\ astray' = astray
        /\ pkt = <<>> /\ y => pkt' = <<my>> /\ astray' = TRUE
        /\ Len(pkt) = 1 => pkt' = Append(pkt, my) /\ astray' = astray
        /\ Len(pkt) = 2 => /\ pkt' = <<>>
                           /\ IF pkt[1].over THEN stale' = TRUE /\ UNCHANGED mRing
                              ELSE mRing' = ev_push(mRing, pkt[1].btn) /\ stale' = (mRing' = mRing)
    BY <1>1, <2>1, ByteTaken
  <2>4. CASE pkt = <<h, mx>>
    <3>1. Len(pkt) = 2 /\ pkt[1] = h
      BY <2>4
    <3>2. pkt' = <<>> /\ (~ stale' => mRing' = ev_push(mRing, button) /\ mRing' # mRing)
      BY <1>1, <2>3, <3>1
    <3>3. ~ stale' => LastSeen' = button'
      <4> SUFFICES ASSUME ~ stale' PROVE LastSeen' = button'
        OBVIOUS
      <4>1. mRing' = Append(mRing, button)
        BY <3>2 DEF ev_push
      <4>2. mRing' # <<>> /\ mRing'[Len(mRing')] = button
        BY <1>6, <4>1, AppendProperties
      <4> QED BY <1>2, <4>2 DEF LastSeen
    <3> QED BY <1>2, <2>1, <2>2, <3>2, <3>3 DEF InPacket
  <2>5. CASE astray /\ pkt = <<>>
    <3>1. astray' /\ (small => pkt' = <<>>)
      BY <2>3, <2>5
    <3> QED BY <1>2, <2>1, <2>2, <3>1 DEF InPacket
  <2>6. CASE astray /\ Len(pkt) = 1 /\ x
    <3>1. astray' /\ ~ small
      BY <2>3, <2>6
    <3> QED BY <1>2, <2>1, <2>2, <3>1 DEF InPacket
  <2> QED BY <1>9, <2>4, <2>5, <2>6
<1> QED BY <1>5, <1>7, <1>8, <1>9

LEMMA MouseIrqInv == ASSUME MouseInv, mouse_irq PROVE MouseInv'
<1>1. CASE OnlyAcks
  BY <1>1, AckTaken DEF MouseInv
<1>2. ASSUME NEW over \in BOOLEAN, NEW x \in BOOLEAN, NEW y \in BOOLEAN, small = ~ (x \/ y), InPacket(over, x, y)
      PROVE  MouseInv'
  <2>1. MouseTypes' /\ small' = small /\ InPacket(over, x, y)'
    BY <1>2, PacketTaken DEF MouseInv
  <2> QED BY <1>2, <2>1 DEF MouseInv
<1> QED BY <1>1, <1>2 DEF MouseInv

LEMMA MouseMovesInv ==
  ASSUME MouseInv, NEW press \in BOOLEAN, NEW over \in BOOLEAN, MouseMoves(press, over)
  PROVE  MouseInv'
<1>1. PICK x \in BOOLEAN, y \in BOOLEAN :
        /\ mWire' = << MByte(0, TRUE, over, press), MByte(1, x, FALSE, FALSE), MByte(2, y, FALSE, TRUE) >>
        /\ small' = ~ (x \/ y)
  BY DEF MouseMoves
<1>2. button' = press /\ UNCHANGED <<pkt, mRing, seen, astray, stale>> /\ mWire = <<>>
  BY DEF MouseMoves
<1>3. pkt # <<>> => astray
  <2>1. ASSUME NEW o \in BOOLEAN, NEW v \in BOOLEAN, NEW w \in BOOLEAN, InPacket(o, v, w), pkt # <<>>
        PROVE  astray
    BY <1>2, <2>1, TupleFacts DEF InPacket
  <2> QED BY <2>1 DEF MouseInv, OnlyAcks
<1>4. MouseTypes'
  BY <1>1, <1>2 DEF MouseInv, MouseTypes
<1>5. InPacket(over, x, y)'
  BY <1>1, <1>2, <1>3 DEF InPacket, Header, MotionX, MotionY
<1> QED BY <1>1, <1>4, <1>5 DEF MouseInv

LEMMA MouseReadInv ==
  ASSUME MouseInv, NEW room \in Nat \ {0}, mRing # <<>>, mouse0_read(room)
  PROVE  MouseInv'
<1> DEFINE l == Len(mRing)
           n == IF room < l THEN room ELSE l
<1>1. mRing \in Seq(BOOLEAN) /\ MouseTypes
  BY DEF MouseInv, MouseTypes
<1>2. l \in Nat /\ l # 0
  BY <1>1
<1>3. n \in 1 .. l
  BY <1>2
<1>4. seen' = IF n > 0 THEN mRing[n] ELSE seen
  BY DEF mouse0_read
<1>5. mRing' = SubSeq(mRing, n + 1, l) /\ UNCHANGED <<button, mWire, pkt, astray, stale, small>>
  BY DEF mouse0_read
<1> HIDE DEF l, n
<1>6. seen' = mRing[n]
  BY <1>3, <1>4
<1>7. mRing' \in Seq(BOOLEAN) /\ Len(mRing') = l - n /\ \A i \in 1 .. l - n : mRing'[i] = mRing[n + i]
  <2> DEFINE m == n + 1
  <2>1. m \in Int /\ l \in Int /\ (IF m <= l THEN l - m + 1 ELSE 0) = l - m + 1 /\ \A i \in m .. l : i \in 1 .. l
    BY <1>2, <1>3
  <2>2. \A i \in m .. l : mRing[i] \in BOOLEAN
    BY <1>1, <2>1 DEF l
  <2> HIDE DEF m
  <2>4. SubSeq(mRing, m, l) \in Seq(BOOLEAN) /\ Len(SubSeq(mRing, m, l)) = l - m + 1
        /\ \A i \in 1 .. l - m + 1 : SubSeq(mRing, m, l)[i] = mRing[m + i - 1]
    BY <2>1, <2>2, SubSeqProperties
  <2>5. mRing' \in Seq(BOOLEAN) /\ Len(mRing') = l - (n + 1) + 1
        /\ \A i \in 1 .. l - (n + 1) + 1 : mRing'[i] = mRing[n + 1 + i - 1]
    BY <1>5, <2>4 DEF m
  <2>3. l - (n + 1) + 1 = l - n /\ \A i \in 1 .. l - n : n + 1 + i - 1 = n + i
    BY <1>2, <1>3
  <2> QED BY <2>3, <2>5
<1>8. LastSeen' = LastSeen
  <2>1. LastSeen = mRing[l]
    BY DEF LastSeen, l
  <2>2. CASE n = l
    <3>1. mRing' = <<>>
      BY <1>2, <1>3, <1>7, <2>2, EmptySeq
    <3> QED BY <1>6, <2>1, <2>2, <3>1 DEF LastSeen
  <2>3. CASE n # l
    <3>1. l - n \in 1 .. l - n /\ n + (l - n) = l /\ l - n # 0
      BY <1>2, <1>3, <2>3
    <3>2. mRing'[l - n] = mRing[l]
      BY <1>7, <3>1
    <3>3. mRing' # <<>>
      BY <1>7, <3>1, EmptySeq
    <3> QED BY <1>7, <2>1, <3>2, <3>3 DEF LastSeen
  <2> QED BY <2>2, <2>3
<1>9. MouseTypes'
  <2>1. mRing[n] \in BOOLEAN
    BY <1>1, <1>3 DEF l
  <2> QED BY <1>1, <1>5, <1>6, <1>7, <2>1 DEF MouseTypes
<1>10. ~ OnlyAcks
  BY DEF OnlyAcks
<1>11. ASSUME NEW over \in BOOLEAN, NEW x \in BOOLEAN, NEW y \in BOOLEAN, small = ~ (x \/ y), InPacket(over, x, y)
       PROVE  MouseInv'
  <2>1. Header(over, button)' = Header(over, button)
    BY <1>5 DEF Header, MByte
  <2>2. InPacket(over, x, y)'
    BY <1>5, <1>8, <1>11, <2>1 DEF InPacket
  <2> QED BY <1>5, <1>9, <1>11, <2>2 DEF MouseInv
<1> QED BY <1>10, <1>11 DEF MouseInv

LEMMA InitMouseInv == ASSUME Ps2Assumption, Ps2Init PROVE MouseInv
<1>0. button = FALSE /\ pkt = <<>> /\ mRing = <<>> /\ seen = FALSE /\ astray = FALSE /\ stale = FALSE /\ small = FALSE
  BY DEF Ps2Init
<1>1. MouseTypes
  <2>1. <<>> \in Seq(BOOLEAN) /\ <<>> \in Seq(MBytes) /\ Len(<<>>) <= 2
    OBVIOUS
  <2> QED BY <1>0, <2>1 DEF MouseTypes
<1>2. \E n \in Nat : mWire = [i \in 1 .. n |-> Ack]
  <2>1. 0 .. MaxStray \subseteq Nat
    BY DEF Ps2Assumption
  <2> QED BY <2>1 DEF Ps2Init
<1>3. OnlyAcks
  <2>1. \A i \in 1 .. Len(pkt) : pkt[i] = Ack
    BY <1>0
  <2> QED BY <1>0, <1>2, <2>1 DEF OnlyAcks
<1> QED BY <1>1, <1>3 DEF MouseInv

LEMMA NextMouseInv == ASSUME Ps2Assumption, MouseInv, [Ps2Next]_ps2Vars PROVE MouseInv'
<1>1. ASSUME UNCHANGED mouseVars PROVE MouseInv'
  <2>1. MouseTypes' /\ (OnlyAcks => OnlyAcks')
    BY <1>1 DEF MouseInv, MouseTypes, OnlyAcks, mouseVars
  <2>2. Header(TRUE, button)' = Header(TRUE, button) /\ Header(FALSE, button)' = Header(FALSE, button)
        /\ LastSeen' = LastSeen
    BY <1>1 DEF Header, MByte, LastSeen, mouseVars
  <2>3. ASSUME NEW over \in BOOLEAN, NEW x \in BOOLEAN, NEW y \in BOOLEAN, InPacket(over, x, y)
        PROVE  InPacket(over, x, y)'
    BY <1>1, <2>2, <2>3 DEF InPacket, mouseVars
  <2> QED BY <1>1, <2>1, <2>3 DEF MouseInv, mouseVars
<1>2. CASE KeyboardNext
  BY <1>1, <1>2 DEF KeyboardNext
<1>3. CASE MouseNext
  <2>1. ASSUME NEW press \in BOOLEAN, NEW over \in BOOLEAN, MouseMoves(press, over) PROVE MouseInv'
    BY <2>1, MouseMovesInv
  <2>2. CASE mouse_irq
    BY <2>2, MouseIrqInv
  <2>3. ASSUME NEW room \in 1 .. MouseRing, mRing # <<>>, mouse0_read(room) PROVE MouseInv'
    <3>1. room \in Nat \ {0}
      BY DEF Ps2Assumption
    <3> QED BY <2>3, <3>1, MouseReadInv
  <2> QED BY <1>3, <2>1, <2>2, <2>3 DEF MouseNext
<1>4. CASE UNCHANGED ps2Vars
  BY <1>1, <1>4 DEF ps2Vars, mouseVars
<1> QED BY <1>2, <1>3, <1>4 DEF Ps2Next

(* A packet of a small motion puts the driver back in step, and the reader  *)
(* has the button as it is once it has read every event, whatever was left  *)
(* over from mouse_init and however often the ring was full: for any size   *)
(* of the ring.                                                            *)
THEOREM MouseButtonsFollow == ASSUME Ps2Assumption PROVE Ps2Spec => []ButtonsFollow
<1>1. Ps2Init => MouseInv
  BY InitMouseInv
<1>2. MouseInv /\ [Ps2Next]_ps2Vars => MouseInv'
  BY NextMouseInv
<1>3. MouseInv => ButtonsFollow
  <2> SUFFICES ASSUME MouseInv, mWire = <<>>
               PROVE  (small => pkt = <<>>) /\ (mRing = <<>> /\ ~ astray /\ ~ stale => seen = button)
    BY DEF ButtonsFollow
  <2>1. CASE OnlyAcks
    BY <2>1 DEF OnlyAcks
  <2>2. ASSUME NEW over \in BOOLEAN, NEW x \in BOOLEAN, NEW y \in BOOLEAN, InPacket(over, x, y)
        PROVE  (small => pkt = <<>>) /\ (mRing = <<>> /\ ~ astray /\ ~ stale => seen = button)
    BY <2>2, TupleFacts DEF InPacket, LastSeen
  <2> QED BY <2>1, <2>2 DEF MouseInv
<1> QED BY <1>1, <1>2, <1>3, PTL DEF Ps2Spec

=============================================================================
