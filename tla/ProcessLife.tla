---------------------------- MODULE ProcessLife -----------------------------
(***************************************************************************)
(* What fork, execve, waitpid and exit promise to programs, without any    *)
(* task table, saved context or scheduler: a process lives and dies once,  *)
(* a process that waits does nothing until the one it waits for has        *)
(* exited, and an exit releases everybody who waits for it.                *)
(* Multitask.tla is how the kernel keeps the promise.                      *)
(***************************************************************************)
EXTENDS Naturals

CONSTANT Pids

VARIABLES life,    (* none, alive or dead, for every pid                   *)
          awaits   (* the pid a process waits for, 0 when it is not        *)

lvars == <<life, awaits>>

LInit ==
  /\ \E p \in Pids : life = [q \in Pids |-> IF q = p THEN "alive" ELSE "none"]
  /\ awaits = [q \in Pids |-> 0]

Active(p) == life[p] = "alive" /\ awaits[p] = 0

(* A process is born (or, without memory, still-born).                     *)
Born(c) ==
  /\ life[c] = "none"
  /\ \E p \in Pids : Active(p)
  /\ \E l \in {"alive", "dead"} : life' = [life EXCEPT ![c] = l]
  /\ UNCHANGED awaits

(* execve: a program is started and its caller waits for it.               *)
Run(p, c) ==
  /\ Active(p)
  /\ life[c] = "none"
  /\ life' = [life EXCEPT ![c] = "alive"]
  /\ awaits' = [awaits EXCEPT ![p] = c]

(* waitpid on a living process.                                            *)
Await(p, c) ==
  /\ Active(p)
  /\ life[c] = "alive"
  /\ awaits' = [awaits EXCEPT ![p] = c]
  /\ UNCHANGED life

Exit(c) ==
  /\ Active(c)
  /\ life' = [life EXCEPT ![c] = "dead"]
  /\ awaits' = [p \in Pids |-> IF awaits[p] = c THEN 0 ELSE awaits[p]]

LNext ==
  \E p \in Pids :
    \/ Born(p)
    \/ Exit(p)
    \/ \E c \in Pids : Run(p, c) \/ Await(p, c)

LSpec == LInit /\ [][LNext]_lvars
=============================================================================
