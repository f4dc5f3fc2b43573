------------------------------ MODULE Terminal ------------------------------
(***************************************************************************)
(* The terminal window (user/apps/terminal): the buffer of its text, the   *)
(* line being typed, and the commands it runs.                             *)
(*                                                                         *)
(* The text is a ring of TbufRows rows; a character is a token.  Keys and  *)
(* commands come in any order; a command is a program of its own that      *)
(* writes to its standard output, which scall_write (kernel/user/          *)
(* syscalls.c) sends to the terminal device that has the focus, whatever   *)
(* program writes.  The terminal makes such a device for itself, but the   *)
(* files it would read it through have no node in /dev: devfs registers    *)
(* the modules there are at boot (module Boot).                            *)
(***************************************************************************)
EXTENDS Integers, Sequences, SequencesExt, FiniteSets

CONSTANTS TbufRows, VRows, VCols,  \* rows kept, rows and columns of the window
          Buffer,                  \* BUFFER: the line and the path
          Letters,                 \* the keys that are characters
          ExecWord,                \* the word of the built-in command
          Bin,                     \* the commands with a file in /bin
          Outputs,                 \* what a program writes at a time
          MaxKeys,                 \* bound: keys pressed
          MaxWrites                \* bound: writes of programs

VARIABLES t,        \* the text: rows, the cursor's row and column, the first row seen
          shown,    \* the rows last drawn
          ibuf,     \* the line being typed
          phase,    \* "idle", or "forked", "running" while a command runs
          focus,    \* the terminal device that has the focus
          device,   \* what has been written to each terminal device
          ran,      \* what commands of this terminal have written
          keys,     \* keys pressed
          emitted   \* every character put into the text, in order

termVars == <<t, shown, ibuf, phase, focus, device, ran, keys, emitted>>

Prompt  == <<"$">>
Path    == 5                       \* "/bin/"
Suffix  == 4                       \* ".elf"
Devices == {"own", "other"}

Less(a, b) == IF a < b THEN a ELSE b

-----------------------------------------------------------------------------
(* The text                                                                *)

ensure_visible(s) ==
    IF s.row >= s.vtop + VRows THEN [s EXCEPT !.vtop = s.row - VRows + 1] ELSE s

\* The last row of a full ring takes everything up by one.
next_row(s) ==
    LET full == s.row + 1 >= TbufRows
        row  == IF full THEN TbufRows - 1 ELSE s.row + 1
    IN ensure_visible(
         [rows |-> [i \in 0 .. (TbufRows - 1) |->
                       IF i = row THEN <<>>
                       ELSE IF full THEN s.rows[i + 1] ELSE s.rows[i]],
          row  |-> row, col |-> 0,
          vtop |-> IF full /\ s.vtop > 0 THEN s.vtop - 1 ELSE s.vtop])

\* bug: a row is taken as full one column late
FaultPutc(s, c) ==
    CASE c = "nl"  -> next_row(s)
      [] c = "cr"  -> s
      [] c = "bs"  -> IF s.col = 0 THEN s
                      ELSE [s EXCEPT !.col = @ - 1, !.rows[s.row] = SubSeq(@, 1, s.col - 1)]
      [] OTHER     -> LET r == IF s.col > VCols THEN next_row(s) ELSE s
                      IN [r EXCEPT !.col = @ + 1,
                                   !.rows[r.row] = Append(SubSeq(@, 1, r.col), c)]

buf_putc(s, c) ==
    CASE c = "nl"  -> next_row(s)
      [] c = "cr"  -> s
      [] c = "bs"  -> IF s.col = 0 THEN s
                      ELSE [s EXCEPT !.col = @ - 1, !.rows[s.row] = SubSeq(@, 1, s.col - 1)]
      [] OTHER     -> LET r == IF s.col >= VCols THEN next_row(s) ELSE s
                      IN [r EXCEPT !.col = @ + 1,
                                   !.rows[r.row] = Append(SubSeq(@, 1, r.col), c)]

buf_puts(s, text) == FoldLeft(buf_putc, s, text)

redraw(s) == [i \in 1 .. Less(s.row - s.vtop + 1, VRows) |-> s.rows[s.vtop + i - 1]]

\* A handler puts a text and draws.
Put(text) ==
    /\ t' = buf_puts(t, text)
    /\ shown' = redraw(t')
    /\ emitted' = emitted \o text

-----------------------------------------------------------------------------
(* main                                                                    *)

TermInit ==
    LET hello == <<"h", "nl">> \o Prompt
        blank == [rows |-> [i \in 0 .. (TbufRows - 1) |-> <<>>], row |-> 0, col |-> 0, vtop |-> 0]
    IN /\ t = buf_puts(blank, hello) /\ shown = redraw(t) /\ emitted = hello
       /\ ibuf = <<>> /\ phase = "idle" /\ keys = 0
       /\ focus = "own"                             \* VT_CREATE, VT_FOCUS
       /\ device = [d \in Devices |-> <<>>] /\ ran = <<>>

Pressed == phase = "idle" /\ keys < MaxKeys /\ keys' = keys + 1

Character == \E c \in Letters \cup {" "} :
    /\ Pressed /\ Len(ibuf) < Buffer - 1
    /\ ibuf' = Append(ibuf, c)
    /\ Put(<<c>>)
    /\ UNCHANGED <<phase, focus, device, ran>>

\* bug: the character goes from the screen, not from the line
FaultBackspace ==
    /\ Pressed /\ ibuf # <<>>
    /\ ibuf' = ibuf
    /\ Put(<<"bs">>)
    /\ UNCHANGED <<phase, focus, device, ran>>

Backspace ==
    /\ Pressed /\ ibuf # <<>>
    /\ ibuf' = Front(ibuf)
    /\ Put(<<"bs">>)
    /\ UNCHANGED <<phase, focus, device, ran>>

\* parse_args: the words between the spaces.
Words(line) ==
    LET w == FoldLeft(LAMBDA ws, c : IF c = " " THEN Append(ws, <<>>)
                                     ELSE [ws EXCEPT ![Len(ws)] = Append(@, c)],
                      <<<<>>>>, line)
    IN SelectSeq(w, LAMBDA x : x # <<>>)

\* What run_cmd does with the words: it says something, or starts a program.
TooLong(word) == Path + Len(word) + Suffix + 1 > Buffer
Answer(words) ==
    CASE words = <<>> -> <<>>
      [] words # <<>> /\ words[1] = ExecWord -> IF Len(words) = 1 THEN <<"?", "nl">> ELSE <<>>
      [] words # <<>> /\ words[1] # ExecWord /\ TooLong(words[1]) -> words[1] \o <<"~", "nl">>
      [] words # <<>> /\ words[1] # ExecWord /\ ~TooLong(words[1]) /\ words[1] \notin Bin ->
            words[1] \o <<"!", "nl">>
      [] OTHER -> <<>>
Starts(words) ==
    /\ words # <<>>
    /\ IF words[1] = ExecWord THEN Len(words) > 1
       ELSE ~TooLong(words[1]) /\ words[1] \in Bin

\* Enter on a line that starts no program: the answer and a new prompt.
EnterLine ==
    /\ Pressed /\ ~Starts(Words(ibuf))
    /\ ibuf' = <<>>
    /\ Put(<<"nl">> \o Answer(Words(ibuf)) \o Prompt)
    /\ UNCHANGED <<phase, focus, device, ran>>

\* fork; nothing is drawn before the program has ended.
EnterCommand == \E forked \in BOOLEAN :
    /\ Pressed /\ Starts(Words(ibuf))
    /\ IF forked
       THEN /\ t' = buf_putc(t, "nl") /\ emitted' = Append(emitted, "nl")
            /\ phase' = "forked"
            /\ UNCHANGED <<shown, ibuf>>
       ELSE /\ Put(<<"nl">> \o (IF Words(ibuf)[1] = ExecWord THEN <<>> ELSE <<"f", "nl">>) \o Prompt)
            /\ ibuf' = <<>>
            /\ UNCHANGED phase
    /\ UNCHANGED <<focus, device, ran>>

\* execve opens the file of an exec, or it does not.
Execve ==
    /\ phase = "forked" /\ phase' = "running"
    /\ UNCHANGED <<t, shown, ibuf, focus, device, ran, keys, emitted>>

Written == Len(device["own"]) + Len(device["other"])

\* scall_write of the command, or of any other program.
CommandWrites == \E text \in Outputs :
    /\ phase = "running" /\ Written < MaxWrites
    /\ device' = [device EXCEPT ![focus] = @ \o text]
    /\ ran' = ran \o text
    /\ UNCHANGED <<t, shown, ibuf, phase, focus, keys, emitted>>

OthersWrite == \E text \in Outputs :
    /\ Written < MaxWrites
    /\ device' = [device EXCEPT ![focus] = @ \o text]
    /\ UNCHANGED <<t, shown, ibuf, phase, focus, ran, keys, emitted>>

\* Another terminal window is opened.
OtherFocus ==
    /\ focus = "own" /\ focus' = "other"
    /\ UNCHANGED <<t, shown, ibuf, phase, device, ran, keys, emitted>>

\* open() of /dev/vt/<id>/output found no node: g_vt_out is -1.
g_vt_out == -1
drain_vt_output == IF g_vt_out < 0 THEN <<>> ELSE device["own"]

Returned == drain_vt_output \o Prompt

\* waitpid returns: what there is to read is read, then the prompt.
CommandEnds ==
    /\ phase \in {"forked", "running"} /\ phase' = "idle"
    /\ ibuf' = <<>>
    /\ Put(Returned)
    /\ UNCHANGED <<focus, device, ran, keys>>

TermNext == \/ Character \/ Backspace \/ EnterLine \/ EnterCommand \/ Execve
            \/ CommandWrites \/ OthersWrite \/ OtherFocus \/ CommandEnds

TermSpec == TermInit /\ [][TermNext]_termVars

-----------------------------------------------------------------------------
(* What must hold                                                          *)

\* The rows of a text of any length.
RowsOf(text) ==
    FoldLeft(LAMBDA rows, c :
               LET n == Len(rows)
                   last == rows[n]
               IN CASE c = "nl" -> Append(rows, <<>>)
                    [] c = "cr" -> rows
                    [] c = "bs" -> [rows EXCEPT ![n] = IF last = <<>> THEN last ELSE Front(last)]
                    [] OTHER    -> IF Len(last) < VCols THEN [rows EXCEPT ![n] = Append(last, c)]
                                   ELSE Append(rows, <<c>>),
             <<<<>>>>, text)

\* However keys, wraps, backspaces and commands have moved the ring and the
\* window, an idle terminal has drawn the last rows of everything put into it.
LastRowsShown ==
    phase = "idle" =>
        LET rows == RowsOf(emitted)
            n    == Len(rows)
        IN shown = SubSeq(rows, IF n > VRows THEN n - VRows + 1 ELSE 1, n)

\* As long as the line fits in the row of its prompt, the row shows the line
\* that Enter will run, and no output stands between the two.
LineShown ==
    phase = "idle" =>
        LET row == t.rows[t.row]
        IN row # <<>> /\ row[1] = "$" => row = Prompt \o ibuf

\* What a command has written stands in the text of its terminal when the
\* next prompt does (terminal.c, vt_setup: "so write(1,...) in child processes
\* goes into g_vt_out").  It does not: see the run.
OutputShown ==
    phase = "idle" =>
        \A c \in Range(ran) : \E i \in DOMAIN emitted : emitted[i] = c

\* An idle terminal shows its last rows and the line being typed.
TerminalShows == LastRowsShown /\ LineShown

=============================================================================
