---------------------------- MODULE SharedFiles ----------------------------
(***************************************************************************)
(* The plain files through which programs and the desktop talk             *)
(* (user/libs/libdesktop, claim_slot of user/libs/wm, user/apps/desktop/cmd *)
(* and refresh_win_bufs): commands to open and close windows, window       *)
(* contents with a dirty mark, and the registry programs claim a window    *)
(* place in.                                                               *)
(*                                                                         *)
(* Each side opens, reads or writes, and closes: the timer may give the    *)
(* processor away between a read and the write that follows from it.       *)
(* Opening never cuts a file (module Tmpfs), so a shorter write leaves the *)
(* tail, and writing copies by the memcpy of MemLib.  The command file is  *)
(* its bytes: a line is the place it was sent as, once for each character, *)
(* and a newline.                                                          *)
(***************************************************************************)
EXTENDS Integers, Sequences, SequencesExt, FiniteSets

CONSTANTS
    Apps,       \* programs
    CmdMax,     \* bytes of the command file anybody reads (4095)
    RegMax,     \* whole entries in the bytes claim_slot reads (255)
    Word,       \* of MemLib
    Lens,       \* bytes of a command with its newline
    MaxSent,    \* bound: bytes of commands sent
    MaxDraws    \* bound: window contents a program draws

FilesAssumption == /\ {CmdMax, RegMax, MaxSent, MaxDraws} \subseteq Nat
                   /\ Word \in Nat \ {0} /\ Lens \subseteq Nat \ {0}

VARIABLES
    cmd,      \* DT_CMD
    wbuf,     \* wbuf[a]: the contents a wrote last, and DT_DIRTY
    dirty,
    reg,      \* WM_REG
    app,      \* app[a]: what a is in the middle of, and what it read for it
    desk,     \* the same for the desktop, and the contents it shows
    sent, done,    \* history: the bytes of the commands sent, those obeyed
    raced, torn,   \* history: a stale write, a line whose end was not stored
    slot,     \* slot[a]: the place a claimed
    claimRaced,
    uses      \* bound: the files of this behaviour; the others do not share anything with them

filesVars == <<cmd, wbuf, dirty, reg, app, desk, sent, done, raced, torn, slot, claimRaced, uses>>

Blank == 0      \* a newline the desktop wrote over a command it took
End   == -1     \* the newline of a line
Nul   == -2     \* the end of a string
Stale == -3     \* a byte that was in the memory
Unset == -1
Mem == INSTANCE MemLib WITH Junk <- Stale

Prefix(s, n) == SubSeq(s, 1, IF Len(s) < n THEN Len(s) ELSE n)

(* Writing s from the front of a file: what is longer stays.                *)
Over(file, s) == s \o SubSeq(file, Len(s) + 1, Len(file))

Using(files) == uses = files /\ UNCHANGED uses
Idle == [op |-> "none", seen |-> <<>>]
Begin(a, op, seen) == app[a] = Idle /\ app' = [app EXCEPT ![a] = [op |-> op, seen |-> seen]]
Finish(a, op) == app[a].op = op /\ app' = [app EXCEPT ![a] = Idle]

-----------------------------------------------------------------------------
(* _cmd_append: read what is there, write it back, then the line behind it, *)
(* which leaves what was in the memory (b) where memcpy stores nothing.      *)
ReadCommandFile(a) ==
    /\ Using("windows")
    /\ Len(sent) < MaxSent
    /\ Begin(a, "append", Prefix(cmd, CmdMax))
    /\ UNCHANGED <<cmd, wbuf, dirty, reg, desk, sent, done, raced, torn, slot, claimRaced>>

Line(n) == [i \in 1..n |-> IF i < n THEN Len(sent) + 1 ELSE End]

AppendCommand(a) ==
    /\ Using("windows")
    /\ Finish(a, "append")
    /\ \E n \in Lens, b \in {Nul, Stale} :
          LET at == Len(app[a].seen)
          IN  /\ sent' = sent \o Line(n)
              /\ cmd' = Mem!AfterWrite(Over(cmd, app[a].seen), at, Line(n), b)
              /\ torn' = (torn \/ Mem!Copied(at, n) < n)
    /\ raced' = (raced \/ app[a].seen # Prefix(cmd, CmdMax))
    /\ UNCHANGED <<wbuf, dirty, reg, desk, done, slot, claimRaced>>

(* cmd_process: what was read is blanked, then obeyed.  A string ends at the *)
(* first Nul.                                                               *)
StringIn(buf) ==
    LET n == CHOOSE m \in 0..Len(buf) : /\ \A i \in 1..m : buf[i] # Nul
                                        /\ m < Len(buf) => buf[m + 1] = Nul
    IN  SubSeq(buf, 1, n)

ReadCommands ==
    /\ Using("windows")
    /\ desk.at = "commands"
    /\ desk' = [desk EXCEPT !.seen = Prefix(cmd, CmdMax),
                            !.at = IF StringIn(Prefix(cmd, CmdMax)) = <<>> THEN "dirty" ELSE "clear"]
    /\ UNCHANGED <<cmd, wbuf, dirty, reg, app, sent, done, raced, torn, slot, claimRaced>>

FaultCleared(n) == [i \in 1..n-1 |-> Blank]
Cleared(n) == [i \in 1..n |-> Blank]

(* What is obeyed of a text, walked from its first line: all but blank lines. *)
CommandsIn(text) ==
    LET upto[i \in 0..Len(text)] ==
            IF i = 0 THEN <<>>
            ELSE IF text[i] = Blank THEN upto[i-1] ELSE Append(upto[i-1], text[i])
    IN  upto[Len(text)]

ClearCommands ==
    /\ Using("windows")
    /\ desk.at = "clear"
    /\ cmd' = Over(cmd, Cleared(Len(desk.seen)))
    /\ done' = done \o CommandsIn(StringIn(desk.seen))
    /\ raced' = (raced \/ desk.seen # Prefix(cmd, CmdMax))
    /\ desk' = [desk EXCEPT !.seen = <<>>, !.at = "dirty",
                            !.full = CommandsIn(StringIn(desk.seen)) # <<>>]
    /\ UNCHANGED <<wbuf, dirty, reg, app, sent, torn, slot, claimRaced>>

-----------------------------------------------------------------------------
(* _winbuf_write: the contents, then the mark.                              *)
FaultWinbufOrder == <<"mark", "draw">>
WinbufOrder == <<"draw", "mark">>

Draw(a) ==
    /\ Using("windows")
    /\ IF WinbufOrder[1] = "draw" THEN Begin(a, "second", <<>>) ELSE Finish(a, "second")
    /\ wbuf[a] < MaxDraws
    /\ wbuf' = [wbuf EXCEPT ![a] = @ + 1]
    /\ UNCHANGED <<cmd, dirty, reg, desk, sent, done, raced, torn, slot, claimRaced>>

MarkDirty(a) ==
    /\ Using("windows")
    /\ IF WinbufOrder[1] = "mark" THEN wbuf[a] < MaxDraws /\ Begin(a, "second", <<>>) ELSE Finish(a, "second")
    /\ dirty' = TRUE
    /\ UNCHANGED <<cmd, wbuf, reg, desk, sent, done, raced, torn, slot, claimRaced>>

(* cmd_check_dirty: the mark is read, then wiped; the contents of every     *)
(* window are read later in the frame (refresh_win_bufs).                   *)
CheckDirty ==
    /\ Using("windows")
    /\ desk.at = "dirty"
    /\ desk' = [desk EXCEPT !.at = IF dirty THEN "wipe" ELSE IF desk.full THEN "refresh" ELSE "commands"]
    /\ UNCHANGED <<cmd, wbuf, dirty, reg, app, sent, done, raced, torn, slot, claimRaced>>

WipeDirty ==
    /\ Using("windows")
    /\ desk.at = "wipe"
    /\ dirty' = FALSE
    /\ desk' = [desk EXCEPT !.at = "refresh"]
    /\ UNCHANGED <<cmd, wbuf, reg, app, sent, done, raced, torn, slot, claimRaced>>

refresh_win_bufs ==
    /\ Using("windows")
    /\ desk.at = "refresh"
    /\ desk' = [desk EXCEPT !.at = "commands", !.full = FALSE, !.shown = wbuf]
    /\ UNCHANGED <<cmd, wbuf, dirty, reg, app, sent, done, raced, torn, slot, claimRaced>>

-----------------------------------------------------------------------------
(* claim_slot: the number of lines is the slot, then a line is added to what *)
(* was read, which the buffer has no room for when the registry is longer.  *)
ReadRegistry(a) ==
    /\ Using("registry")
    /\ slot[a] = Unset
    /\ Begin(a, "claim", Prefix(reg, RegMax))
    /\ UNCHANGED <<cmd, wbuf, dirty, reg, desk, sent, done, raced, torn, slot, claimRaced>>

FaultClaimed(seen, a) == seen
Claimed(seen, a) == Append(seen, a)

claim_slot(a) ==
    /\ Using("registry")
    /\ Finish(a, "claim")
    /\ reg' = Over(reg, Claimed(app[a].seen, a))
    /\ slot' = [slot EXCEPT ![a] = Len(app[a].seen)]
    /\ claimRaced' = (claimRaced \/ app[a].seen # Prefix(reg, RegMax))
    /\ UNCHANGED <<cmd, wbuf, dirty, desk, sent, done, raced, torn>>

(* A program ends, and another one starts: nothing leaves the registry.     *)
Restarts(a) ==
    /\ Using("registry")
    /\ slot[a] # Unset
    /\ slot' = [slot EXCEPT ![a] = Unset]
    /\ UNCHANGED <<cmd, wbuf, dirty, reg, app, desk, sent, done, raced, torn, claimRaced>>

FilesInit ==
    /\ cmd = <<>> /\ reg = <<>>
    /\ wbuf = [a \in Apps |-> 0] /\ dirty = FALSE
    /\ app = [a \in Apps |-> Idle]
    /\ desk = [at |-> "commands", seen |-> <<>>, full |-> FALSE, shown |-> [a \in Apps |-> 0]]
    /\ sent = <<>> /\ done = <<>> /\ raced = FALSE /\ torn = FALSE
    /\ slot = [a \in Apps |-> Unset] /\ claimRaced = FALSE
    /\ uses \in {"windows", "registry"}

FilesNext ==
    \/ \E a \in Apps : \/ ReadCommandFile(a) \/ AppendCommand(a)
                       \/ Draw(a) \/ MarkDirty(a)
                       \/ ReadRegistry(a) \/ claim_slot(a) \/ Restarts(a)
    \/ ReadCommands \/ ClearCommands \/ CheckDirty \/ WipeDirty \/ refresh_win_bufs

FilesSpec == FilesInit /\ [][FilesNext]_filesVars

-----------------------------------------------------------------------------
(* The desktop obeys every command once and in the order they were sent:    *)
(* done and what waits in the file are all of them.  Three exceptions, all  *)
(* in the code: a write that follows from a read somebody wrote after       *)
(* (raced), a line that memcpy cut because the file did not end at a whole  *)
(* word (torn), and a file that has reached the size anybody reads, after   *)
(* which no command ever gets through.                                      *)
CommandsOnce ==
    ~raced /\ ~torn /\ Len(cmd) <= CmdMax => done \o CommandsIn(StringIn(cmd)) = sent

(* Once a program has marked its drawing and the desktop has seen the mark, *)
(* the desktop shows the latest contents: no drawing is missed, however the *)
(* marks and their wiping interleave.                                       *)
BuffersShown ==
    \A a \in Apps : ~dirty /\ desk.at \in {"commands", "clear", "dirty"} /\ app[a].op # "second" =>
        desk.shown[a] = wbuf[a]

(* Programs that claim a window place one after the other have different    *)
(* ones, as long as the registry fits what claim_slot reads of it: after    *)
(* that every program gets the same.  (claim_slot interrupted between its   *)
(* read and its write gives two programs one place: claimRaced.)            *)
SlotsDistinct ==
    ~claimRaced /\ Len(reg) <= RegMax =>
        \A a, b \in Apps : a # b /\ slot[a] # Unset => slot[a] # slot[b]

(* What programs tell the desktop through its files gets there.             *)
Relayed == CommandsOnce /\ BuffersShown

=============================================================================
