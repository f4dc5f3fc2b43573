--------------------------- MODULE FrameAllocator ---------------------------
(***************************************************************************)
(* What the physical page-frame allocator promises to the rest of the      *)
(* kernel: a caller is handed a run of frames that nobody else holds, gets *)
(* "no memory" only when no run of that length is free, and gives a run    *)
(* back as a whole.  Physmem.tla is the allocator the kernel really has.   *)
(***************************************************************************)
EXTENDS Naturals

CONSTANTS Frames,   (* the frames that may ever be handed out             *)
          Counts,   (* the lengths callers ask for                        *)
          NoMem     (* the value returned when there is no run            *)

VARIABLES free,     (* frames available for allocation                    *)
          held,     (* runs held by callers, as <<start, count>> pairs    *)
          ret       (* the last request: <<length, what was returned>>    *)

avars == <<free, held, ret>>

Frames_of(r) == r[1] .. (r[1] + r[2] - 1)

(* Init is left to the refinement: any set of free frames, nothing held.   *)
AInit ==
  /\ free \subseteq Frames
  /\ held = {}
  /\ ret = <<0, NoMem>>

(* Any free run will do: which one is not promised.                        *)
AAlloc(n) ==
  \E s \in Frames :
    /\ n > 0
    /\ Frames_of(<<s, n>>) \subseteq free
    /\ free' = free \ Frames_of(<<s, n>>)
    /\ held' = held \cup {<<s, n>>}
    /\ ret' = <<n, s>>

(* Refusal is allowed only when it is justified.                           *)
ARefuse(n) ==
  /\ n = 0 \/ \A s \in Frames : ~ (Frames_of(<<s, n>>) \subseteq free)
  /\ ret' = <<n, NoMem>>
  /\ UNCHANGED <<free, held>>

AFree(r) ==
  /\ r \in held
  /\ held' = held \ {r}
  /\ free' = free \cup Frames_of(r)
  /\ UNCHANGED ret

ANext ==
  \/ \E n \in Counts : AAlloc(n) \/ ARefuse(n)
  \/ \E r \in held : AFree(r)

ASpec == AInit /\ [][ANext]_avars
=============================================================================
