---------------------------- MODULE FileContents ----------------------------
(* What a file system in memory promises of its files: a file is a finite     *)
(* sequence of bytes, a descriptor has a position inside it, a write replaces *)
(* or extends, a read returns the bytes at the position and moves past them.  *)
EXTENDS Integers, Sequences

CONSTANTS Nodes, Files, Byte, MaxSize

VARIABLES content,  \* the bytes of each node
          at,       \* per file: <<node, position>>, or <<>> when it is closed
          got       \* what a read just returned

Later(a, b) == IF a > b THEN a ELSE b

(* c with the bytes s laid over it from offset p on *)
Overlay(c, p, s) ==
    [i \in 1 .. Later(Len(c), p + Len(s)) |->
        IF i > p /\ i <= p + Len(s) THEN s[i - p] ELSE c[i]]

IsOpen(f) == at[f] # <<>>

AbsInit == at = [f \in Files |-> <<>>] /\ got = <<>>

AbsOpen(f) == \E n \in Nodes :
    /\ ~IsOpen(f)
    /\ at' = [at EXCEPT ![f] = <<n, 0>>]
    /\ got' = <<>>
    /\ UNCHANGED content

AbsClose(f) ==
    /\ IsOpen(f)
    /\ at' = [at EXCEPT ![f] = <<>>]
    /\ got' = <<>>
    /\ UNCHANGED content

AbsWrite(f) == \E k \in 0 .. MaxSize : \E s \in [1 .. k -> Byte] :
    /\ IsOpen(f)
    /\ LET n == at[f][1]
           p == at[f][2]
       IN /\ content' = [content EXCEPT ![n] = Overlay(content[n], p, s)]
          /\ at' = [at EXCEPT ![f] = <<n, p + k>>]
    /\ got' = <<>>

AbsRead(f) == \E k \in 0 .. MaxSize :
    /\ IsOpen(f)
    /\ LET n == at[f][1]
           p == at[f][2]
       IN /\ p + k <= Len(content[n])
          /\ got' = SubSeq(content[n], p + 1, p + k)
          /\ at' = [at EXCEPT ![f] = <<n, p + k>>]
    /\ UNCHANGED content

AbsSeek(f) == \E p \in 0 .. MaxSize :
    /\ IsOpen(f)
    /\ p <= Len(content[at[f][1]])
    /\ at' = [at EXCEPT ![f] = <<at[f][1], p>>]
    /\ got' = <<>>
    /\ UNCHANGED content

AbsNext == \E f \in Files :
    AbsOpen(f) \/ AbsClose(f) \/ AbsWrite(f) \/ AbsRead(f) \/ AbsSeek(f)

AbsSpec == AbsInit /\ [][AbsNext]_<<content, at, got>>
=============================================================================
