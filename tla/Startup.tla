------------------------------ MODULE Startup ------------------------------
(***************************************************************************)
(* The first program (user/apps/system): it parses /emr/.emxrc and runs    *)
(* what the file says, one entry after the other.  The programs it starts  *)
(* that start or decide something themselves are the login window          *)
(* (user/apps/login) and the shell (user/apps/shell).                      *)
(*                                                                         *)
(* A line of the file is a sequence of tokens.  A job is a child made by   *)
(* fork: it calls execve, which here starts the program as a process of    *)
(* its own and returns when that one has ended (syscalls.c, scall_execve); *)
(* then the child exits and whoever waits for it goes on.                  *)
(***************************************************************************)
EXTENDS Integers, Sequences, SequencesExt, FiniteSets

CONSTANTS Scripts,            \* the files: sequences of lines of tokens (<<>>: no file)
          MaxLines,           \* what the 2 KiB buffer holds, in lines
          MaxVars, MaxExecs,  \* EMXRC_MAX_VARS, EMXRC_MAX_EXECS
          IfMax,              \* the size of if_stack
          Direct,             \* tokens that start with / or .
          Packages,           \* those that end in .emx
          Programs,           \* the paths execve can open
          Commands,           \* lines typed to the shell
          MaxCommands,        \* bound: how many of them
          MaxTries, BoxMax,   \* MAX_TRIES, EXUI_INPUTBOX_MAX
          BufSize, Word,      \* BUF_SIZE; of MemLib
          Letters, Name, Pass, \* keys, LOGIN_USER and LOGIN_PASS
          MaxKeys             \* bound: keys pressed at the login window

VARIABLES script,             \* the lines of the file
          rc,                 \* emxrc_t: the variables and the entries
          pc, branch,         \* the entry emxrc_run is at, and if_stack
          jobs,               \* the jobs so far, in the order of their start
          waits,              \* whom init and the shell wait for (0: nobody)
          todo, typed,        \* what the shell has left to start; lines typed
          login,              \* the login window
          tried               \* what init has tried to start: (entry, path)

startVars == <<script, rc, pc, branch, jobs, waits, todo, typed, login, tried>>

Mem == INSTANCE MemLib WITH Junk <- "junk"
NoToken == "none"
Login == "/login"
Shell == "/shell"

-----------------------------------------------------------------------------
(* emxrc_parse                                                             *)

tok(line, k) == IF k <= Len(line) THEN line[k] ELSE NoToken

Entry == [kind |-> "exec", var |-> "", path |-> "", fmt |-> "inherit", bg |-> FALSE]

\* "var name = ( [ep :] path": the token after the bracket, if there is one.
VarOf(line) ==
    LET ep == tok(line, 5) = "ep"
        p  == tok(line, IF ep THEN 7 ELSE 5)
    IN [name |-> tok(line, 2), fmt |-> IF ep THEN "ep" ELSE "elf",
        path |-> IF p = NoToken THEN "" ELSE p]

\* The flags from the k-th token on and what follows them; -f takes the
\* format as a token of its own.
Flags(line) ==
    LET from[k \in 2 .. (Len(line) + 3)] ==
            CASE tok(line, k) = "-bg" -> [from[k + 1] EXCEPT !.bg = TRUE]
              [] tok(line, k) = "-f"  ->
                    LET r == from[k + 2]
                    IN [r EXCEPT !.fmt = IF r.fmt # "inherit" THEN r.fmt
                                         ELSE IF tok(line, k + 1) = "ep" THEN "ep" ELSE "elf"]
              [] tok(line, k) = "-x"  -> from[k + 1]
              [] OTHER -> [bg |-> FALSE, fmt |-> "inherit", next |-> tok(line, k)]
    IN from[2]

ExecOf(line) ==
    LET f == Flags(line)
        e == [Entry EXCEPT !.bg = f.bg, !.fmt = f.fmt]
    IN IF f.next \in Direct
       THEN [e EXCEPT !.path = f.next,
                      !.fmt = IF @ # "inherit" THEN @
                              ELSE IF f.next \in Packages THEN "ep" ELSE "elf"]
       ELSE [e EXCEPT !.var = f.next]

\* One line: a new variable, a new entry, or nothing.  else and endif are
\* taken whatever the number of entries: behind a full array they are cleared
\* and counted where exec_count lies, so that one entry is left (what else the
\* write hits lies behind rc).
Ends(r, e) == IF Len(r.execs) < MaxExecs THEN [r EXCEPT !.execs = Append(@, e)]
              ELSE [r EXCEPT !.execs = SubSeq(@, 1, 1)]
Parsed(r, line) ==
    LET kw   == tok(line, 1)
        room == Len(r.execs) < MaxExecs
        Add(e) == [r EXCEPT !.execs = Append(@, e)]
    IN CASE kw = "var" /\ Len(r.vars) < MaxVars /\ tok(line, 2) # NoToken ->
              [r EXCEPT !.vars = Append(@, VarOf(line))]
         [] kw \in {"print", "elog", "wait"} /\ room -> Add([Entry EXCEPT !.kind = kw])
         [] kw = "exec" /\ room /\ Flags(line).next # NoToken -> Add(ExecOf(line))
         [] kw = "if" /\ room -> Add([Entry EXCEPT !.kind = "if", !.var = tok(line, 2)])
         [] kw \in {"else", "endif"} -> Ends(r, [Entry EXCEPT !.kind = kw])
         [] OTHER -> r

emxrc_parse == FoldLeft(Parsed, [vars |-> <<>>, execs |-> <<>>],
                        SubSeq(script, 1, IF Len(script) < MaxLines THEN Len(script) ELSE MaxLines))

Known(name) == \E i \in DOMAIN rc.vars : rc.vars[i].name = name

\* A direct path, or that of the first variable of the name; there may be none.
PathOf(e) ==
    IF e.path # "" THEN e.path
    ELSE IF Known(e.var)
    THEN rc.vars[CHOOSE i \in DOMAIN rc.vars :
                    /\ rc.vars[i].name = e.var
                    /\ \A j \in 1 .. (i - 1) : rc.vars[j].name # e.var].path
    ELSE NoToken

-----------------------------------------------------------------------------
(* emxrc_run                                                               *)

Closed == [open |-> FALSE, field |-> 0, user |-> <<>>, pass |-> <<>>,
           attempts |-> <<>>, keys |-> 0, result |-> -1, log |-> <<>>]

StartInit ==
    /\ script \in Scripts
    /\ rc = emxrc_parse
    /\ pc = 1 /\ branch = <<>>
    /\ jobs = <<>> /\ waits = [init |-> 0, shell |-> 0]
    /\ todo = <<>> /\ typed = 0
    /\ login = Closed
    /\ tried = <<>>

\* Without a file init executes the login window in its own place, by the same
\* execve that starts a program and comes back when it has ended.
Default ==
    /\ script = <<>> /\ pc = 1
    /\ pc' = 2
    /\ tried' = << <<0, Login>> >>
    /\ jobs' = << [path |-> Login, by |-> "init", state |-> "forked"] >>
    /\ waits' = [waits EXCEPT !.init = 1]
    /\ UNCHANGED <<script, rc, branch, todo, typed, login>>

Running == pc <= Len(rc.execs) /\ waits.init = 0
Skipped == branch # <<>> /\ branch[Len(branch)]
Job(path, by) == [path |-> path, by |-> by, state |-> "forked"]

\* Texts and pauses come before the look at the branch: they are never skipped.
Say ==
    /\ Running /\ rc.execs[pc].kind \in {"print", "elog", "wait"}
    /\ pc' = pc + 1
    /\ UNCHANGED <<script, rc, branch, jobs, waits, todo, typed, login, tried>>

\* bug: an else leaves the branch as it is
FaultFlipped(stack) == stack

Flipped(stack) == IF stack = <<>> THEN stack
                  ELSE [stack EXCEPT ![Len(stack)] = ~@]

\* An if behind the end of if_stack: what is read back there is anything (and
\* what the write hits on the stack of the program is not modelled).
Condition ==
    /\ Running /\ rc.execs[pc].kind \in {"if", "else", "endif"}
    /\ \E mark \in IF Len(branch) < IfMax THEN {~Known(rc.execs[pc].var)} ELSE BOOLEAN :
          branch' = CASE rc.execs[pc].kind = "if"   -> Append(branch, mark)
                      [] rc.execs[pc].kind = "else" -> Flipped(branch)
                      [] OTHER -> IF branch = <<>> THEN branch ELSE Front(branch)
    /\ pc' = pc + 1
    /\ UNCHANGED <<script, rc, jobs, waits, todo, typed, login, tried>>

\* An entry of a branch not taken, or one without a path.
PassBy ==
    /\ Running /\ rc.execs[pc].kind = "exec"
    /\ Skipped \/ PathOf(rc.execs[pc]) = NoToken
    /\ pc' = pc + 1
    /\ UNCHANGED <<script, rc, branch, jobs, waits, todo, typed, login, tried>>

\* bug: init waits for what runs in the background and not for the rest
FaultAwaited(bg, id) == IF bg THEN id ELSE 0

Awaited(bg, id) == IF bg THEN 0 ELSE id

\* fork may find no memory; waitpid of -1 returns at once.
Start == \E forked \in BOOLEAN :
    /\ Running /\ rc.execs[pc].kind = "exec"
    /\ ~Skipped /\ PathOf(rc.execs[pc]) # NoToken
    /\ tried' = Append(tried, <<pc, PathOf(rc.execs[pc])>>)
    /\ pc' = pc + 1
    /\ IF forked
       THEN /\ jobs' = Append(jobs, Job(PathOf(rc.execs[pc]), "init"))
            /\ waits' = [waits EXCEPT !.init = Awaited(rc.execs[pc].bg, Len(jobs) + 1)]
       ELSE UNCHANGED <<jobs, waits>>
    /\ UNCHANGED <<script, rc, branch, todo, typed, login>>

-----------------------------------------------------------------------------
(* The jobs                                                                *)

\* The child exits, and with it the wait for it.
Ended(j) == [jobs EXCEPT ![j].state = "done"]
Woken(j) == [a \in DOMAIN waits |-> IF waits[a] = j THEN 0 ELSE waits[a]]

\* execve cannot open the file: the child exits with 1 or 127.
ExecFails == \E j \in DOMAIN jobs :
    /\ jobs[j].state = "forked" /\ jobs[j].path \notin Programs
    /\ jobs' = Ended(j) /\ waits' = Woken(j)
    /\ UNCHANGED <<script, rc, pc, branch, todo, typed, login, tried>>

Exec == \E j \in DOMAIN jobs :
    /\ jobs[j].state = "forked" /\ jobs[j].path \in Programs
    /\ jobs[j].path = Login => ~login.open
    /\ jobs' = [jobs EXCEPT ![j].state = "running"]
    /\ login' = IF jobs[j].path = Login
                THEN [Closed EXCEPT !.open = TRUE, !.log = login.log] ELSE login
    /\ UNCHANGED <<script, rc, pc, branch, waits, todo, typed, tried>>

\* A program ends when it likes; the login window and the shell do not.
Exit == \E j \in DOMAIN jobs :
    /\ jobs[j].state = "running" /\ jobs[j].path \notin {Login, Shell}
    /\ jobs' = Ended(j) /\ waits' = Woken(j)
    /\ UNCHANGED <<script, rc, pc, branch, todo, typed, login, tried>>

-----------------------------------------------------------------------------
(* The login window                                                        *)

Typed(text, key) ==
    IF key = "back" THEN (IF text = <<>> THEN text ELSE Front(text))
    ELSE IF Len(text) < BoxMax - 1 THEN Append(text, key) ELSE text

Key == \E key \in Letters \cup {"back"} :
    /\ login.open /\ login.keys < MaxKeys
    /\ login' = [login EXCEPT !.keys = @ + 1,
                   !.user = IF login.field = 0 THEN Typed(@, key) ELSE @,
                   !.pass = IF login.field = 1 THEN Typed(@, key) ELSE @]
    /\ UNCHANGED <<script, rc, pc, branch, jobs, waits, todo, typed, tried>>

Tab ==
    /\ login.open /\ login.keys < MaxKeys
    /\ login' = [login EXCEPT !.field = 1 - @, !.keys = @ + 1]
    /\ UNCHANGED <<script, rc, pc, branch, jobs, waits, todo, typed, tried>>

Attempt == <<login.user, login.pass>>
Right(a) == a = <<Name, Pass>>

\* The window closes and the program ends.
LoginEnds(result, log, attempts) ==
    \E j \in DOMAIN jobs :
        /\ jobs[j].path = Login /\ jobs[j].state = "running"
        /\ jobs' = Ended(j) /\ waits' = Woken(j)
        /\ login' = [login EXCEPT !.open = FALSE, !.result = result,
                                  !.log = log, !.attempts = attempts]

\* What is kept of an attempt: a name or password of BUF_SIZE letters has no
\* end, so it is printed with the row behind it.
Kept(attempts) ==
    LET row(i) == IF i <= MaxTries THEN attempts[i][1] ELSE attempts[i - MaxTries][2]
    IN [i \in 1 .. (2 * MaxTries) |-> SubSeq(row(i), 1, Mem!Least(Len(row(i)), BufSize))]
Printed(attempts, i) ==
    LET rows == Kept(attempts)
        from[k \in 1 .. (2 * MaxTries + 1)] ==
            IF k > 2 * MaxTries THEN <<>>
            ELSE IF Len(rows[k]) < BufSize THEN rows[k] ELSE rows[k] \o from[k + 1]
    IN from[i]

\* The file is written from its start, line after line by memcpy: what is
\* longer stays behind the new lines.
Banner == <<"f", "f", "nl">>
LogLine(user, pass) == <<"u">> \o user \o <<"p">> \o pass \o <<"nl">>
LogLines(attempts) ==
    <<Banner>> \o [i \in 1 .. MaxTries |-> LogLine(Printed(attempts, i), Printed(attempts, MaxTries + i))]
Before(lines, i) == FoldLeft(LAMBDA n, l : n + Len(l), 0, SubSeq(lines, 1, i - 1))
Overwritten(old, lines) ==
    FoldLeft(LAMBDA file, i : Mem!AfterWrite(file, Before(lines, i), lines[i], "junk"),
             old, [i \in DOMAIN lines |-> i])

Recorded(attempts) == Append(attempts, Attempt)

\* Enter goes from the name to the password, and from there to the answer.
\* After a wrong one the name stays.
Enter ==
    /\ login.open
    /\ IF login.field = 0
       THEN login' = [login EXCEPT !.field = 1] /\ UNCHANGED <<jobs, waits>>
       ELSE IF Right(Attempt)
       THEN LoginEnds(0, login.log, login.attempts)
       ELSE IF Len(login.attempts) + 1 >= MaxTries
       THEN LoginEnds(2, Overwritten(login.log, LogLines(Recorded(login.attempts))),
                      Recorded(login.attempts))
       ELSE /\ login' = [login EXCEPT !.attempts = Recorded(@), !.pass = <<>>, !.field = 0]
            /\ UNCHANGED <<jobs, waits>>
    /\ UNCHANGED <<script, rc, pc, branch, todo, typed, tried>>

-----------------------------------------------------------------------------
(* The shell                                                               *)

ShellRuns == \E j \in DOMAIN jobs : jobs[j].path = Shell /\ jobs[j].state = "running"

\* builtin_exec runs its paths one after the other, builtin_gui four fixed
\* ones; any other word is a program of /bin that execve starts directly.
Gui == << <<"/desktop", TRUE>>, <<Login, FALSE>>, <<"/sysinfo", TRUE>>, <<"/terminal", FALSE>> >>
Jobs(cmd) ==
    CASE cmd[1] = "exec" ->
            LET bg == Len(cmd) > 1 /\ cmd[2] = "-bg"
                from == IF bg THEN 3 ELSE 2
            IN [i \in 1 .. (Len(cmd) - from + 1) |-> <<cmd[from + i - 1], bg>>]
      [] cmd[1] = "gui" -> Gui
      [] OTHER -> << <<cmd[1], FALSE>> >>

ReadLine == \E cmd \in Commands :
    /\ ShellRuns /\ todo = <<>> /\ waits.shell = 0 /\ typed < MaxCommands
    /\ todo' = Jobs(cmd)
    /\ typed' = typed + 1
    /\ UNCHANGED <<script, rc, pc, branch, jobs, waits, login, tried>>

\* A fork that fails ends the command.
ShellStart == \E forked \in BOOLEAN :
    /\ ShellRuns /\ todo # <<>> /\ waits.shell = 0
    /\ IF forked
       THEN /\ jobs' = Append(jobs, Job(todo[1][1], "shell"))
            /\ waits' = [waits EXCEPT !.shell = IF todo[1][2] THEN 0 ELSE Len(jobs) + 1]
            /\ todo' = Tail(todo)
       ELSE todo' = <<>> /\ UNCHANGED <<jobs, waits>>
    /\ UNCHANGED <<script, rc, pc, branch, typed, login, tried>>

StartNext == \/ Default \/ Say \/ Condition \/ PassBy \/ Start \/ ExecFails \/ Exec \/ Exit
             \/ Key \/ Tab \/ Enter \/ ReadLine \/ ShellStart

StartSpec == StartInit /\ [][StartNext]_startVars

-----------------------------------------------------------------------------
(* What must hold                                                          *)

\* The if that encloses the i-th entry: the last one before it with no endif
\* of its own in between (0: none).
Balance(i, j) == Cardinality({k \in i .. j : rc.execs[k].kind = "endif"})
                 - Cardinality({k \in i .. j : rc.execs[k].kind = "if"})
Opened(i) == {j \in 1 .. (i - 1) : rc.execs[j].kind = "if" /\
                 \A k \in j .. (i - 1) : Balance(j, k) < 0}
Enclosing(i) ==
    LET open == Opened(i)
    IN IF open = {} THEN 0 ELSE CHOOSE j \in open : \A k \in open : k <= j

\* It is taken when its variable exists, each else of its own turning it over.
TakenAt(i) ==
    LET j == Enclosing(i)
        elses == {k \in (j + 1) .. (i - 1) : rc.execs[k].kind = "else" /\ Enclosing(k) = j}
    IN j = 0 \/ (Known(rc.execs[j].var) <=> Cardinality(elses) % 2 = 0)

Meant == SelectSeq([i \in 1 .. Len(rc.execs) |-> i],
                   LAMBDA i : rc.execs[i].kind = "exec" /\ TakenAt(i)
                              /\ PathOf(rc.execs[i]) # NoToken)

\* Init starts what the file asks for, in the order of the file and nothing
\* else, and it goes past an entry that is not in the background only when
\* the program has ended, however the jobs, the shell and the login interleave.
\* (A file whose ifs nest deeper than if_stack is left out; without a file it
\* starts the login window only.)
RunsInOrder ==
    /\ (\A i \in 1 .. (pc - 1) : script # <<>> => Cardinality(Opened(i + 1)) <= IfMax) =>
          [i \in DOMAIN tried |-> tried[i][1]] =
              IF script = <<>> THEN SubSeq(<<0>>, 1, pc - 1)
              ELSE SelectSeq(Meant, LAMBDA i : i < pc)
    /\ \A j \in DOMAIN jobs :
          /\ jobs[j].by = "init" /\ jobs[j].state # "done" /\ waits.init # j
          => \E i \in DOMAIN tried : /\ tried[i][2] = jobs[j].path
                                     /\ tried[i][1] # 0 /\ rc.execs[tried[i][1]].bg

\* A login that gave up has seen MaxTries attempts, none of them right, and the
\* log has the name and the password of each in its place, unless they fill
\* their buffers or memcpy has lost the end of the line.
LogListsTries ==
    login.result = 2 =>
        /\ Len(login.attempts) = MaxTries
        /\ \A i \in DOMAIN login.attempts : ~Right(login.attempts[i])
        /\ login.attempts[MaxTries] = Attempt
        /\ (\A a \in Range(login.attempts) : Len(a[1]) < BufSize /\ Len(a[2]) < BufSize) =>
              LET lines == <<Banner>> \o [i \in 1 .. MaxTries |-> LogLine(login.attempts[i][1], login.attempts[i][2])]
              IN \A i \in DOMAIN lines :
                    LET at == Before(lines, i)
                    IN Mem!Copied(at, Len(lines[i])) >= Len(lines[i])
                       => SubSeq(login.log, at + 1, at + Len(lines[i])) = lines[i]

\* Init goes by its file, and a login that gave up by its log.
StartupSound == RunsInOrder /\ LogListsTries

=============================================================================
