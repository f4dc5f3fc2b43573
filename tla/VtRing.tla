------------------------------- MODULE VtRing -------------------------------
(* The byte rings of a terminal as values: ring_write and ring_read of        *)
(* devices/vt/vt.c, whose loops stop after n bytes or at a full or empty      *)
(* ring.                                                                      *)
EXTENDS Integers, Sequences

CONSTANTS Cap,    \* VT_INPUT_BUF_SIZE or VT_OUTPUT_BUF_SIZE
          Blank   \* what a byte is before the first write

Least(a, b) == IF a < b THEN a ELSE b

EmptyRing == [buf |-> [i \in 0 .. Cap - 1 |-> Blank], head |-> 0, tail |-> 0, count |-> 0]

(* The counters go back, the bytes stay. *)
Reset(r) == [r EXCEPT !.head = 0, !.tail = 0, !.count = 0]

FaultRoom(r) == Cap
Room(r) == Cap - r.count

(* How many bytes after the next one to be written lies index i. *)
FaultPlace(r, i) == (i - r.head) % Cap
Place(r, i) == (i - r.tail) % Cap

ring_write(r, s) ==
    LET w == Least(Len(s), Room(r))
    IN  [buf   |-> [i \in 0 .. Cap - 1 |->
                       LET k == Place(r, i) IN IF k < w THEN s[k + 1] ELSE r.buf[i]],
         head  |-> r.head,
         tail  |-> (r.tail + w) % Cap,
         count |-> r.count + w]

(* The bytes that wait, oldest first; ring_read copies the first of them. *)
Waiting(r) == [k \in 1 .. r.count |-> r.buf[(r.head + k - 1) % Cap]]

ring_read(r, n) ==
    LET k == Least(n, r.count)
    IN  [r EXCEPT !.head = (@ + k) % Cap, !.count = @ - k]
=============================================================================
