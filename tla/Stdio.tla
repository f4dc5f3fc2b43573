-------------------------------- MODULE Stdio --------------------------------
(***************************************************************************)
(* The streams of the C library (user/libc/src/stdio.c) over the           *)
(* descriptors of the kernel, and cat (user/bin/cat), which copies with    *)
(* descriptors alone.  A stream has no buffer: every call is a system      *)
(* call, and what it knows of the file is two flags.                       *)
(*                                                                         *)
(* A file is a sequence of characters, and starts at an aligned address;   *)
(* a write reaches it through the kernel's memcpy (MemLib).  A path in     *)
(* Sizeless is a file of /proc: it can be read and not written, and its    *)
(* node says that it has size 0, which is where scall_lseek cuts every     *)
(* position.                                                               *)
(***************************************************************************)
EXTENDS Format

CONSTANTS Paths, Sizeless,  \* the paths, and those whose node has no size
          Initial,          \* the files there are, and their contents
          Streams,          \* the FILEs a program may have open
          Asked,            \* what one call asks for
          Given,            \* the texts it writes
          PrintSize,        \* the buffer of vfprintf
          Word,             \* characters that memcpy copies at once
          Calls,            \* the conversions a program asks for
          MaxCalls          \* bound: calls

VARIABLES disk,     \* path -> its characters
          streams,  \* stream -> "closed", or its file, position and flags
          cat,      \* what cat is doing
          called,   \* the last conversion
          calls     \* calls made

stdioVars == <<disk, streams, cat, called, calls>>

Mem == INSTANCE MemLib WITH Junk <- "junk"

Closed  == [open |-> FALSE]
Opened  == {f \in Streams : streams[f].open}
Nothing == [fn |-> "none"]
Idle    == [at |-> "idle"]

StdioInit ==
    /\ disk = Initial /\ streams = [f \in Streams |-> Closed]
    /\ cat = Idle /\ called = Nothing /\ calls = 0

Call == calls < MaxCalls /\ calls' = calls + 1 /\ called' = Nothing

Least(a, b) == IF a < b THEN a ELSE b

-----------------------------------------------------------------------------
(* System calls                                                            *)

Size(path) == IF path \in Sizeless THEN 0 ELSE Len(disk[path])

\* read: what there is from the position on.
ReadAt(path, pos, n) == SubSeq(disk[path], pos + 1, Least(pos + n, Len(disk[path])))

\* tmpfs_write: the text over what stands there and behind it, as memcpy puts
\* it: at a position that is not aligned it may leave out the end of a text.
WrittenAt(path, pos, text) == Mem!AfterWrite(disk[path], pos, text, "junk")
Whole(pos, text) == Mem!Copied(pos, Len(text)) >= Len(text)

\* A change of a file ends what is known of it to the other streams of it:
\* the history of a stream is kept for an unchanged file only.
Changed(path, text) ==
    /\ disk' = [disk EXCEPT ![path] = text]
    /\ streams' = [g \in Streams |-> IF g \in Opened /\ streams[g].path = path
                                     THEN [streams[g] EXCEPT !.same = FALSE] ELSE streams[g]]

\* lseek: a position behind the size is the size.
Sought(f, pos) == Least(pos, Size(streams[f].path))

\* Somebody else writes while cat copies.
Disturbed == IF cat.at = "idle" THEN cat ELSE [cat EXCEPT !.alone = FALSE]

-----------------------------------------------------------------------------
(* Streams                                                                 *)

\* fopen reads the mode; nothing of it makes a file shorter or goes to its end.
Modes == [r |-> {"read"}, rplus |-> {"read", "write"}, w |-> {"write"}, wplus |-> {"read", "write"},
          a |-> {"write"}]
Creates == {"w", "wplus", "a"}

fopen == \E f \in Streams, path \in Paths, mode \in DOMAIN Modes :
    /\ Call /\ f \notin Opened
    /\ path \in DOMAIN disk \/ mode \in Creates
    /\ path \in Sizeless => mode = "r"
    /\ disk' = IF path \in DOMAIN disk THEN disk
               ELSE [p \in DOMAIN disk \cup {path} |-> IF p = path THEN <<>> ELSE disk[p]]
    /\ streams' = [streams EXCEPT ![f] =
           [open |-> TRUE, path |-> path, pos |-> 0, flags |-> Modes[mode],
            eof |-> FALSE, err |-> FALSE,
            from |-> 0, got |-> <<>>, same |-> TRUE]]
    /\ cat' = IF path \in DOMAIN disk THEN cat ELSE Disturbed

fclose == \E f \in Opened :
    /\ Call
    /\ streams' = [streams EXCEPT ![f] = Closed]
    /\ UNCHANGED <<disk, cat>>

\* bug: a read that gets all it asked for is taken as the last one
FaultShort(text, n) == Len(text) <= n

Short(text, n) == Len(text) < n

\* What a reading call does with the characters it gets; it is refused at the
\* end, after an error, and on a stream that only writes.
Reading(f, n) ==
    LET s == streams[f]
        text == ReadAt(s.path, s.pos, n)
    IN /\ ~s.eof /\ ~s.err
       /\ streams' = IF "read" \notin s.flags THEN [streams EXCEPT ![f].err = TRUE]
                     ELSE [streams EXCEPT ![f].pos = @ + Len(text), ![f].got = @ \o text,
                                          ![f].eof = Short(text, n)]
       /\ UNCHANGED <<disk, cat>>

\* fread of so many characters; fgetc asks for one.
fread == \E f \in Opened, n \in Asked :
    Call /\ Reading(f, n)

\* One character after the other, up to a newline or a full buffer.
LineEnd(path, pos, n) ==
    LET ends == {i \in 1 .. n : pos + i > Len(disk[path])} \cup
                {i \in 1 .. n : pos + i <= Len(disk[path]) /\ disk[path][pos + i] = "nl"} \cup {n}
    IN CHOOSE i \in ends : \A j \in ends : i <= j

\* bug: the character that fills the buffer is read and not kept
FaultFgets ==
    \E f \in Opened, n \in Asked :
        LET s == streams[f]
            k == LineEnd(s.path, s.pos, n)
            text == ReadAt(s.path, s.pos, k)
        IN /\ Call /\ ~s.eof /\ ~s.err /\ "read" \in s.flags
           /\ streams' = [streams EXCEPT ![f].pos = @ + Len(text),
                                         ![f].got = @ \o SubSeq(text, 1, Least(Len(text), n - 1)),
                                         ![f].eof = Len(text) < k]
           /\ UNCHANGED <<disk, cat>>

fgets == \E f \in Opened, n \in Asked :
    LET k == LineEnd(streams[f].path, streams[f].pos, n - 1)
    IN Call /\ Reading(f, k)

\* write at the stream's position.  The kernel does not look at how the file
\* was opened; it may have no memory, and a file of /proc takes nothing.  What
\* was not written whole is not the stream's history.
Failed(f) == streams' = [streams EXCEPT ![f].err = TRUE] /\ UNCHANGED <<disk, cat>>
Writing(f, text) ==
    LET s == streams[f]
    IN \/ /\ s.path \notin Sizeless
          /\ disk' = [disk EXCEPT ![s.path] = WrittenAt(s.path, s.pos, text)]
          /\ streams' = [g \in Streams |->
                CASE g = f -> [s EXCEPT !.pos = @ + Len(text), !.got = @ \o text,
                                        !.same = @ /\ Whole(s.pos, text)]
                  [] g # f /\ g \in Opened /\ streams[g].path = s.path ->
                       [streams[g] EXCEPT !.same = FALSE]
                  [] OTHER -> streams[g]]
          /\ cat' = Disturbed
       \/ Failed(f)

\* A stream that only reads gets its error from fwrite, and not from fputs or
\* fputc.
fwrite == \E f \in Opened, text \in Given :
    Call /\ IF "write" \in streams[f].flags THEN Writing(f, text) ELSE Failed(f)

fputs == \E f \in Opened, text \in Given :
    Call /\ IF "write" \in streams[f].flags THEN Writing(f, text) ELSE UNCHANGED <<disk, streams, cat>>

\* vfprintf has a buffer; what does not fit is not written.  It looks at no
\* flag: it writes to a stream that only reads as well.
fprintf == \E f \in Opened, text \in Given :
    Call /\ Writing(f, Fits(vsnprintf(<<"%", "s">>, <<text>>), PrintSize))

\* fseek to a position, from the start or from the end; the end is no longer
\* reached.  The history starts again.
Moved(f, pos) == [streams[f] EXCEPT !.pos = pos, !.from = pos, !.got = <<>>, !.eof = FALSE,
                                    !.same = TRUE]
fseek == \E f \in Opened, off \in Asked \cup {0}, whence \in {"set", "end"} :
    /\ Call
    /\ streams' = [streams EXCEPT ![f] =
           Moved(f, Sought(f, IF whence = "set" THEN off ELSE Size(streams[f].path)))]
    /\ UNCHANGED <<disk, cat>>

rewind == \E f \in Opened :
    /\ Call
    /\ streams' = [streams EXCEPT ![f] = [Moved(f, 0) EXCEPT !.err = FALSE]]
    /\ UNCHANGED <<disk, cat>>

\* bug: ftell asks from the end
FaultTold(f) == Size(streams[f].path)

\* lseek by nothing: where the stream is, and no further than the size.
Told(f) == Sought(f, streams[f].pos)
ftell == \E f \in Opened :
    /\ Call
    /\ streams' = [streams EXCEPT ![f].pos = Told(f)]
    /\ UNCHANGED <<disk, cat>>

\* ungetc goes back by one, whatever the character.
ungetc == \E f \in Opened :
    LET s == streams[f]
        cur == Sought(f, s.pos)
    IN /\ Call
       /\ streams' = [streams EXCEPT ![f] =
              IF cur = 0 THEN [s EXCEPT !.pos = 0, !.same = @ /\ s.pos = 0]
              ELSE [s EXCEPT !.pos = cur - 1, !.eof = FALSE,
                             !.got = IF @ = <<>> THEN @ ELSE Front(@),
                             !.from = IF s.got = <<>> THEN cur - 1 ELSE @]]
       /\ UNCHANGED <<disk, cat>>

-----------------------------------------------------------------------------
(* cat                                                                     *)

\* The sources of a command line, and the destination; it is made if there is
\* none, and stays as long as it is.
CatStarts == \E srcs \in SeqOf(Paths, 2), to \in Paths \ Sizeless :
    /\ Call /\ cat.at = "idle" /\ srcs # <<>> /\ to \notin Range(srcs)
    /\ disk' = IF to \in DOMAIN disk THEN disk
               ELSE [p \in DOMAIN disk \cup {to} |-> IF p = to THEN <<>> ELSE disk[p]]
    /\ cat' = [at |-> "next", todo |-> srcs, to |-> to, out |-> 0, src |-> to, pos |-> 0,
               done |-> <<>>, alone |-> TRUE, whole |-> TRUE,
               want |-> FoldLeft(LAMBDA t, p : IF p \in DOMAIN disk THEN t \o disk[p] ELSE t,
                                 <<>>, srcs)]
    /\ UNCHANGED streams

\* bug: the destination is opened again for every source
FaultSource(c) == [c EXCEPT !.at = "copy", !.src = Head(c.todo), !.pos = 0, !.todo = Tail(@), !.out = 0]

Source(c) == [c EXCEPT !.at = "copy", !.src = Head(c.todo), !.pos = 0, !.todo = Tail(@)]

\* open of the next source, or of none any more; a source there is not is
\* passed over.
CatOpens ==
    /\ cat.at = "next"
    /\ cat' = CASE cat.todo = <<>> -> Idle
                [] cat.todo # <<>> /\ Head(cat.todo) \in DOMAIN disk -> Source(cat)
                [] OTHER -> [cat EXCEPT !.todo = Tail(@)]
    /\ UNCHANGED <<disk, streams, called, calls>>

\* cat_fd: a read, and a write of all it gave; the source is at its end when
\* nothing is read.
CatCopies == \E n \in Asked :
    LET text == ReadAt(cat.src, cat.pos, n)
    IN /\ cat.at = "copy"
       /\ IF text = <<>>
          THEN cat' = [cat EXCEPT !.at = "next"] /\ UNCHANGED <<disk, streams>>
          ELSE /\ cat' = [cat EXCEPT !.pos = @ + Len(text), !.out = @ + Len(text), !.done = @ \o text,
                                     !.whole = @ /\ Whole(cat.out, text)]
               /\ Changed(cat.to, WrittenAt(cat.to, cat.out, text))
       /\ UNCHANGED <<called, calls>>

-----------------------------------------------------------------------------
(* Conversions, asked for before anything else                             *)

FormatOf(c) ==
    <<"%">> \o (IF c.zero THEN <<"0">> ELSE <<>>)
            \o (IF c.width > 0 THEN uitoa(c.width, 10) ELSE <<>>) \o <<c.conv>>
Formats(cs) == FoldLeft(LAMBDA fmt, c : fmt \o FormatOf(c), <<>>, cs)
Arguments(cs) == [i \in DOMAIN cs |-> cs[i].arg]

Convert ==
    /\ calls = 0 /\ called.fn = "none"
    /\ \E c \in Calls : called' =
         CASE c.fn = "printf" -> c @@ [out |-> vsnprintf(Formats(c.specs), Arguments(c.specs))]
           [] c.fn = "serial" -> c @@ [out |-> serial_printf(Formats(c.specs), Arguments(c.specs))]
           [] c.fn = "number" -> c @@ [out |-> str_from_int(c.v, c.min)]
           [] c.fn = "base"   -> c @@ [out |-> uitoa(c.v, c.base)]
           [] c.fn = "strtok" -> c @@ [left |-> <<c.text>>, out |-> <<>>]
           [] c.fn = "qsort"  -> c @@ [out |-> qsort(c.s)]
    /\ UNCHANGED <<disk, streams, cat, calls>>

\* The next word of a text that is being split.
NextWord ==
    /\ called.fn = "strtok" /\ called.left # <<>>
    /\ LET r == strtok(called.left, called.delim)
       IN called' = [called EXCEPT !.left = r.left,
                                   !.out = @ \o r.word]
    /\ UNCHANGED <<disk, streams, cat, calls>>

StdioNext == \/ fopen \/ fclose \/ fread \/ fgets \/ fwrite \/ fputs \/ fprintf \/ fseek \/ rewind \/ ftell
             \/ ungetc \/ CatStarts \/ CatOpens \/ CatCopies \/ Convert \/ NextWord

StdioSpec == StdioInit /\ [][StdioNext]_stdioVars

-----------------------------------------------------------------------------
(* What must hold                                                          *)

\* As long as nobody else changes the file, and memcpy has left out nothing of
\* what it wrote, what a stream has read or written since it was last moved
\* stands in the file from there on, no character twice and none missing, and
\* the kernel's position is behind it.
StreamFollows ==
    \A f \in Opened : LET s == streams[f] IN
        s.same /\ s.path \notin Sizeless =>
            /\ s.pos = s.from + Len(s.got)
            /\ s.got = SubSeq(disk[s.path], s.from + 1, s.pos)

\* A stream that says it is at its end has given the file to its end.  (In a
\* file without a size ftell and ungetc go back to the start.)
EofIsEnd ==
    \A f \in Opened : LET s == streams[f] IN
        s.eof /\ s.same /\ s.path \notin Sizeless => s.pos >= Len(disk[s.path])

\* While nobody else writes, what cat has copied is the sources it has met, in
\* the order of the command line, and all of them at the end; it stands at the
\* beginning of its destination, whatever was there before, if memcpy has left
\* out nothing of it.
CatWrites ==
    cat.at # "idle" /\ cat.alone =>
        /\ cat.whole => IsPrefix(cat.done, disk[cat.to])
        /\ IsPrefix(cat.done, cat.want)
        /\ cat.at = "next" /\ cat.todo = <<>> => cat.done = cat.want

\* What C says of a conversion the library knows: flags, width, padding.
InC(c) ==
    LET digits == CASE c.conv \in {"d", "u"} -> uitoa(IF c.arg < 0 THEN -c.arg ELSE c.arg, 10)
                    [] c.conv = "x" -> uitoa(c.arg, 16)
                    [] c.conv = "s" -> c.arg
                    [] c.conv = "c" -> <<c.arg>>
        sign == IF c.conv = "d" /\ c.arg < 0 THEN <<"-">> ELSE <<>>
        n    == c.width - Len(digits) - Len(sign)
        fill == [i \in 1 .. (IF n > 0 THEN n ELSE 0) |-> IF c.zero THEN "0" ELSE " "]
    IN IF c.zero THEN sign \o fill \o digits ELSE fill \o sign \o digits

\* The conversions that stdio.c has: no width for texts or negative numbers, no width with
\* a zero in it.
Has(c) == /\ c.conv \in {"s", "c"} => c.width = 0
          /\ c.conv = "d" /\ c.arg < 0 => c.width = 0
          /\ c.width < 10

InCAll(cs) == FoldLeft(LAMBDA t, c : t \o InC(c), <<>>, cs)

\* The words of a text between the delimiters.
WordsOf(text, delim) ==
    LET w == FoldLeft(LAMBDA ws, c : IF c \in delim THEN Append(ws, <<>>)
                                     ELSE [ws EXCEPT ![Len(ws)] = Append(@, c)],
                      <<<<>>>>, text)
    IN SelectSeq(w, LAMBDA x : x # <<>>)

\* printf writes what C says, one conversion leaving nothing to the next, the
\* serial line's printf as well but for widths; numbers are read back as they
\* were; strtok gives the words in order; qsort sorts, equal ones in order.
ConversionsExact ==
    CASE called.fn = "printf" -> (\A i \in DOMAIN called.specs : Has(called.specs[i]))
                                 => called.out = InCAll(called.specs)
      [] called.fn = "serial" ->
            called.out = InCAll([i \in DOMAIN called.specs |->
                                   [called.specs[i] EXCEPT !.width = 0, !.zero = FALSE]])
      [] called.fn = "number" -> called.v # called.min => str_to_int(called.out) = called.v
      [] called.fn = "base"   -> strtol(called.out, called.base) = called.v
      [] called.fn = "strtok" -> called.left = <<>> => called.out = WordsOf(called.text, called.delim)
      [] called.fn = "qsort"  ->
            /\ \A i, j \in DOMAIN called.out : i < j =>
                  \/ called.out[i][1] < called.out[j][1]
                  \/ called.out[i][1] = called.out[j][1] /\ called.out[i][2] < called.out[j][2]
            /\ Len(called.out) = Len(called.s) /\ Range(called.out) = Range(called.s)
      [] OTHER -> TRUE

\* Streams and cat neither lose, repeat nor misplace a character.
StreamsSound == StreamFollows /\ EofIsEnd /\ CatWrites

=============================================================================
