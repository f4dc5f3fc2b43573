------------------------------- MODULE MemLib --------------------------------
(* memcpy of the kernel (mem/lib/mem.c), byte for byte where it matters: it   *)
(* first copies up to the next aligned address of the destination, then whole *)
(* words, then the rest, but the words start again at the first byte and are  *)
(* counted before the alignment shortened n.                                  *)
EXTENDS Integers, Sequences

CONSTANTS Word,   \* bytes of the u64 it copies by, 8 in the code
          Junk    \* a byte that is nobody's: unwritten, or behind the source

ASSUME MemLibAssumption == Word \in Nat \ {0}

Least(a, b) == IF a < b THEN a ELSE b
Greatest(a, b) == IF a > b THEN a ELSE b

(* Bytes up to the first aligned address when the destination is d past one. *)
Lead(d, n) == Least(n, (Word - (d % Word)) % Word)

(* How many bytes of a destination d past an aligned address a copy of n     *)
(* bytes really writes: more or fewer than n unless d is aligned or n short. *)
Copied(d, n) == Greatest(Lead(d, n), ((n \div Word) * Word) + ((n - Lead(d, n)) % Word))

Exact(d, n) == Copied(d, n) = n

(* c with the bytes s laid over it from offset p on, cut at the end of c.    *)
Overlay(c, p, s) == [i \in DOMAIN c |-> IF i > p /\ i <= p + Len(s) THEN s[i - p] ELSE c[i]]

(* The bytes that land when s is copied to an address d past an aligned one. *)
Landed(d, s) == [i \in 1 .. Copied(d, Len(s)) |-> IF i <= Len(s) THEN s[i] ELSE Junk]

(* The aligned buffer c after s was copied to its offset p. *)
memcpy(c, p, s) == Overlay(c, p, Landed(p, s))

(* A file that was written from position at on, in memory that held b: it    *)
(* ends no earlier than the write, also where the copy stores too little.    *)
AfterWrite(file, at, s, b) ==
    memcpy([i \in 1 .. Greatest(Len(file), at + Len(s)) |-> IF i <= Len(file) THEN file[i] ELSE b], at, s)

(* Bytes of that copy that fall behind the end of c. *)
Beyond(c, p, s) == Greatest(0, p + Copied(p, Len(s)) - Len(c))
=============================================================================
