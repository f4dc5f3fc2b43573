-------------------------------- MODULE Sound -------------------------------
(***************************************************************************)
(* Sound (drivers/sound/ac97/ac97.c, layer.c, devices/audio/audio0.c, the  *)
(* beeps of bootup_sound.h, and the player user/bin/wav): the ring of      *)
(* buffers the AC97 controller plays while the kernel fills it.            *)
(*                                                                         *)
(* The controller is external: it plays the buffer at civ, stops after the *)
(* buffer at lvi (halted), goes on when lvi moves, and starts when the run *)
(* bit is first set.  It works between any two accesses of the driver; a   *)
(* write is one system call, so nothing else enters the driver meanwhile.  *)
(* Sound is counted in samples; a sample knows where it comes from.        *)
(***************************************************************************)
EXTENDS Integers, Sequences, SequencesExt, FiniteSets

CONSTANTS
    BdlSize,    \* AC97_BDL_SIZE
    Chunk,      \* samples of a buffer (AC97_BDL_BUF_BYTES / 2)
    IoFrames,   \* frames wav reads at a time
    Beeps,      \* lengths of the beeps of bootup_sound, in frames
    Players,    \* programs that play a file
    Waves       \* the files there may be: [chunks, samples]

Chunks == [id : STRING, channels : Nat, bits : Nat, pcm : BOOLEAN, size : Nat]
SoundAssumption ==
    /\ {"nobody", "beep"} \cap Players = {}
    /\ BdlSize \in Nat \ {0} /\ {Chunk, IoFrames} \subseteq Nat /\ Beeps \in Seq(Nat)
    /\ \A w \in Waves : w.samples \in Nat /\ w.chunks \in Seq(Chunks)

VARIABLES
    present,    \* what ac97_init found: "unknown", "none", "ready"
    irq,        \* the handler is registered
    ring,       \* ring[i]: the samples of buffer i
    write_idx, civ, lvi, run, halted, status,
    ticks,      \* the interrupt cut the time slice of the running process
    call,       \* the ac97_write under way
    beeps,      \* beeps still to make
    wav,        \* wav[p]: the player: state, format, samples left to read, buffer
    wave,       \* wave[p]: its file
    taken,      \* history: samples the driver took, in order
    played       \* history: samples played, in order

device == <<ring, civ, lvi, run, halted, status>>
soundVars == <<present, irq, ring, write_idx, civ, lvi, run, halted, status, ticks, call,
               beeps, wav, wave, taken, played>>

Least(a, b) == IF a < b THEN a ELSE b
Slot(i) == i % BdlSize

-----------------------------------------------------------------------------
(* ac97_init: the handler is registered before anything can still fail.     *)
NoCall == [by |-> "nobody", buf |-> <<>>, done |-> 0, at |-> "idle", civ |-> 0]

ac97_init(found) ==
    /\ present = "unknown"
    /\ found \in {"no controller", "no codec", "no memory", "ready"}
    /\ present' = IF found = "ready" THEN "ready" ELSE "none"
    /\ irq' = (found # "no controller")
    /\ UNCHANGED <<device, write_idx, ticks, call, beeps, wav, wave, taken, played>>

-----------------------------------------------------------------------------
(* ac97_write, one buffer at a time.                                        *)
Begin(by, samples) == call' = [by |-> by, buf |-> samples, done |-> 0, at |-> "civ", civ |-> 0]

ReadCiv ==
    /\ call.at = "civ"
    /\ call' = [call EXCEPT !.at = "fill", !.civ = civ]
    /\ UNCHANGED <<present, irq, device, write_idx, ticks, beeps, wav, wave, taken, played>>

FaultFull(seen) == FALSE

(* One buffer always stays free: a full ring looks like an empty one.       *)
Full(seen) == Slot(write_idx - seen + BdlSize) = BdlSize - 1

StopFull ==
    /\ call.at = "fill" /\ Full(call.civ)
    /\ call' = [call EXCEPT !.at = "end"]
    /\ UNCHANGED <<present, irq, device, write_idx, ticks, beeps, wav, wave, taken, played>>

(* The buffer is filled and becomes the last valid one; a controller that   *)
(* stopped goes on with the one after the last it played.                   *)
Fill ==
    LET n == Least(Chunk, Len(call.buf) - call.done)
        piece == SubSeq(call.buf, call.done + 1, call.done + n)
    IN /\ call.at = "fill" /\ ~Full(call.civ)
       /\ ring' = [ring EXCEPT ![write_idx] = piece]
       /\ taken' = taken \o piece
       /\ lvi' = write_idx
       /\ IF run /\ halted THEN civ' = Slot(civ + 1) /\ halted' = FALSE ELSE UNCHANGED <<civ, halted>>
       /\ call' = [call EXCEPT !.at = "start", !.done = @ + n]
       /\ UNCHANGED <<present, irq, write_idx, run, status, ticks, beeps, wav, wave, played>>

(* The run bit is set when the controller has stopped.                      *)
Start == halted /\ ~run

StartAndGoOn ==
    /\ call.at = "start"
    /\ IF Start THEN run' = TRUE /\ halted' = FALSE ELSE UNCHANGED <<run, halted>>
    /\ write_idx' = Slot(write_idx + 1)
    /\ call' = [call EXCEPT !.at = IF call.done < Len(call.buf) THEN "civ" ELSE "end"]
    /\ UNCHANGED <<present, irq, ring, civ, lvi, status, ticks, beeps, wav, wave, taken, played>>

(* External: the controller plays its buffer to the end.                    *)
Play ==
    /\ run /\ ~halted
    /\ played' = played \o ring[civ]
    /\ status' = TRUE
    /\ IF civ = lvi THEN halted' = TRUE /\ UNCHANGED civ ELSE civ' = Slot(civ + 1) /\ UNCHANGED halted
    /\ UNCHANGED <<present, irq, ring, write_idx, lvi, run, ticks, call, beeps, wav, wave, taken>>

(* ac97_irq_handler, in user mode: it ends the time slice.                  *)
ac97_irq_handler ==
    /\ irq /\ status /\ call.at = "idle"
    /\ status' = FALSE /\ ticks' = TRUE
    /\ UNCHANGED <<present, irq, ring, write_idx, civ, lvi, run, halted, call, beeps, wav, wave, taken, played>>

(* The timer gives the processor away and the next slice begins.            *)
EndOfSlice ==
    /\ ticks /\ call.at = "idle"
    /\ ticks' = FALSE
    /\ UNCHANGED <<present, irq, device, write_idx, call, beeps, wav, wave, taken, played>>

-----------------------------------------------------------------------------
(* bootup_sound: each beep makes its buffers one by one and does not look   *)
(* whether the driver took them.                                            *)
BeepFrames == Chunk \div 2
ac97_beep ==
    /\ present = "ready" /\ call.at = "idle" /\ beeps # <<>>
    /\ LET n == Least(BeepFrames, Head(beeps))
           left == Head(beeps) - n
       IN /\ Begin("beep", [i \in 1 .. 2 * n |-> <<"beep", Len(beeps), left>>])
          /\ beeps' = IF left = 0 THEN Tail(beeps) ELSE <<left>> \o Tail(beeps)
    /\ UNCHANGED <<present, irq, device, write_idx, ticks, wav, wave, taken, played>>

EndBeep ==
    /\ call.at = "end" /\ call.by = "beep"
    /\ call' = NoCall
    /\ UNCHANGED <<present, irq, device, write_idx, ticks, beeps, wav, wave, taken, played>>

-----------------------------------------------------------------------------
(* wav.  The chunks of a file: "fmt" with a format, "data" with the length  *)
(* it states, or another.                                                   *)
FirstData(w) == CHOOSE i \in DOMAIN w.chunks : w.chunks[i].id = "data" /\ \A j \in 1 .. i - 1 : w.chunks[j].id # "data"
HasData(w) == \E i \in DOMAIN w.chunks : w.chunks[i].id = "data"
FormatsOf(w) == {i \in 1 .. FirstData(w) : w.chunks[i].id = "fmt"}
Playable(w) ==
    /\ HasData(w) /\ FormatsOf(w) # {}
    /\ \A i \in FormatsOf(w) : w.chunks[i].pcm
    /\ LET f == w.chunks[CHOOSE i \in FormatsOf(w) : \A j \in FormatsOf(w) : j <= i]
       IN f.bits = 16 /\ f.channels \in 1..2
Channels(w) == w.chunks[CHOOSE i \in FormatsOf(w) : \A j \in FormatsOf(w) : j <= i].channels
Stated(w) == w.chunks[FirstData(w)].size

OpenWave(p) ==
    /\ wav[p].state = "start" /\ present # "unknown" /\ beeps = <<>> /\ call.at = "idle"
    /\ wav' = [wav EXCEPT ![p] =
        IF Playable(wave[p]) /\ present = "ready"
        THEN [state |-> "read", left |-> Stated(wave[p]), at |-> 0, buf |-> <<>>, out |-> 0]
        ELSE [@ EXCEPT !.state = "refused"]]
    /\ UNCHANGED <<present, irq, device, write_idx, ticks, call, beeps, wave, taken, played>>

Sample(p, i) == <<p, i>>
FaultStereo(p, from, frames) == [i \in 1 .. 2 * frames |-> Sample(p, from + i)]

(* A mono sample is played on both sides.                                   *)
Stereo(p, from, frames) ==
    IF Channels(wave[p]) = 1 THEN [i \in 1 .. 2 * frames |-> Sample(p, from + (i + 1) \div 2)]
    ELSE [i \in 1 .. 2 * frames |-> Sample(p, from + i)]

(* Samples that do not make a frame at the end are left out.                *)
ReadWave(p) ==
    LET w == wave[p]
        c == Channels(w)
        want == Least(IoFrames * c, wav[p].left)
        got == Least(want, w.samples - wav[p].at)
        frames == got \div c
    IN /\ wav[p].state = "read" /\ call.at = "idle"
       /\ wav' = [wav EXCEPT ![p] =
            IF wav[p].left <= 0 \/ frames = 0 THEN [@ EXCEPT !.state = "done"]
            ELSE [state |-> "write", left |-> @.left - got, at |-> @.at + got,
                  buf |-> Stereo(p, @.at, frames), out |-> 0]]
       /\ UNCHANGED <<present, irq, device, write_idx, ticks, call, beeps, wave, taken, played>>

(* write, again and again for what a full ring did not take.                *)
WriteWave(p) ==
    /\ wav[p].state = "write" /\ call.at = "idle" /\ ~ticks
    /\ Begin(p, SubSeq(wav[p].buf, wav[p].out + 1, Len(wav[p].buf)))
    /\ UNCHANGED <<present, irq, device, write_idx, ticks, beeps, wav, wave, taken, played>>

FaultProgress(p) == Len(wav[p].buf)
Progress(p) == wav[p].out + call.done

EndWrite(p) ==
    /\ call.at = "end" /\ call.by = p
    /\ wav' = [wav EXCEPT ![p].out = Progress(p),
                          ![p].state = IF Progress(p) < Len(wav[p].buf) THEN "write" ELSE "read"]
    /\ call' = NoCall
    /\ UNCHANGED <<present, irq, device, write_idx, ticks, beeps, wave, taken, played>>

SoundInit ==
    /\ present = "unknown" /\ irq = FALSE
    /\ ring = [i \in 0 .. BdlSize - 1 |-> <<>>]
    /\ write_idx = 0 /\ civ = 0 /\ lvi = 0 /\ run = FALSE /\ halted = TRUE
    /\ status = FALSE /\ ticks = FALSE
    /\ call = NoCall
    /\ beeps = Beeps
    /\ wave \in [Players -> Waves]
    /\ wav = [p \in Players |-> [state |-> "start", left |-> 0, at |-> 0, buf |-> <<>>, out |-> 0]]
    /\ taken = <<>> /\ played = <<>>

SoundNext ==
    \/ \E found \in {"no controller", "no codec", "no memory", "ready"} : ac97_init(found)
    \/ ReadCiv \/ StopFull \/ Fill \/ StartAndGoOn
    \/ Play \/ ac97_irq_handler \/ EndOfSlice
    \/ ac97_beep \/ EndBeep
    \/ \E p \in Players : OpenWave(p) \/ ReadWave(p) \/ WriteWave(p) \/ EndWrite(p)

SoundSpec == SoundInit /\ [][SoundNext]_soundVars

-----------------------------------------------------------------------------
(* The samples of n buffers of ring r, from one of them on.                *)
Sounds(r, from, n) ==
    LET upto[k \in 0..n] == IF k = 0 THEN <<>> ELSE upto[k - 1] \o r[Slot(from + k - 1)]
    IN  upto[n]

(* What waits in the ring: from the buffer the controller plays, or the one *)
(* after it when it has played its last, to the last valid one.             *)
Waiting ==
    LET from == IF run /\ halted THEN civ + 1 ELSE civ
        to == IF call.at = "start" THEN write_idx ELSE write_idx - 1
    IN Sounds(ring, from, Slot(to - from + 1 + BdlSize))

(* Everything the driver took is played once and in order: no buffer is     *)
(* filled again before it was played, and none is skipped or played twice   *)
(* when the controller stops, goes on, or passes the end of the ring        *)
(* (ac97_write against the controller).                                     *)
SoundInOrder == played \o Waiting = taken

(* A player that is done has handed over every frame of its file, each      *)
(* mono sample on both sides, as far as the file and the length it states   *)
(* go, however often the ring was full (wav's main).                        *)
WaveWhole ==
    \A p \in Players : wav[p].state = "done" =>
        LET w == wave[p]
            frames == Least(Stated(w), w.samples) \div Channels(w)
            Own(s) == s[1] = p
            at(i) == IF Channels(w) = 1 THEN (i + 1) \div 2 ELSE i
        IN SelectSeq(taken, Own) = [i \in 1 .. 2 * frames |-> Sample(p, at(i))]

=============================================================================
