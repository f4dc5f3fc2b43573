------------------------------ MODULE Namespace ------------------------------
(* What the naming operations promise: a set of existing paths, closed under  *)
(* taking the parent.  A name is made under an existing parent only, and one  *)
(* removal takes a path away with everything below it, and nothing else.      *)
EXTENDS Integers, Sequences, SequencesExt

CONSTANT Paths

VARIABLE exists

Below(p) == {q \in Paths : IsPrefix(p, q)}

(* was and is are the paths before and after a step. *)
MadePath(was, is, p) ==
    /\ p \notin was
    /\ Len(p) = 1 \/ Front(p) \in was
    /\ is = was \cup {p}

RemovedPath(was, is, p) ==
    /\ p \in was
    /\ is = was \ Below(p)

NamesInit == \A p \in exists : Len(p) > 1 => Front(p) \in exists

NamesNext == \E was \in {exists}, is \in {exists'} :
    /\ was # is
    /\ \E p \in was \cup is : MadePath(was, is, p) \/ RemovedPath(was, is, p)

NamesSpec == NamesInit /\ [][NamesNext]_exists
=============================================================================
