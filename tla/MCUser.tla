------------------------------- MODULE MCUser -------------------------------
(* Boot, the desktop, and what programs are made of, side by side.  What     *)
(* they share is in the module of the one that keeps it, so one run gives    *)
(* each behaviour to one of them (part); the others are Off, and the desktop *)
(* and its files, whose bounds are in the cfg, stay as they start: two       *)
(* programs, two windows, two places; a command file and a registry that     *)
(* one read does not take whole, and words of two bytes for memcpy, so that  *)
(* lines of two and three bytes are written at both kinds of positions.      *)
EXTENDS Desktop, SharedFiles, TLC

VARIABLES part,
    script, rc, pc, branch, jobs, waits, todo, typed, login, tried,
    t, shown, ibuf, phase, vtFocus, device, ran, keys, emitted,
    disk, streams, cat, called, calls,
    procs, secs, room, nodes, files, cwd, ps, psUses,
    given, answers, stage, tree, transform, users, owner, loaded, modules, kprocs, created, terminals

startVars == <<script, rc, pc, branch, jobs, waits, todo, typed, login, tried>>
termVars == <<t, shown, ibuf, phase, vtFocus, device, ran, keys, emitted>>
stdioVars == <<disk, streams, cat, called, calls>>
procVars == <<procs, secs, room, nodes, files, cwd, ps, psUses>>
bootVars == <<given, answers, stage, tree, transform, users, owner, loaded, modules, kprocs, created, terminals>>

Symmetric == Permutations(Apps)
Off == 0
-----------------------------------------------------------------------------
ASSUME UserAssumption == FilesAssumption /\ DesktopAssumption

(* The file of the image, one with an else that is taken, and one with       *)
(* nested branches, packages, unknown names and programs that are not there. *)
V(n, p) == <<"var", n, "=", "(", p, ")">>
Scripts == {
  << V("gui", "1"), V("d", "/desktop"), V("l", "/login"), V("s", "/shell"),
     <<"print", "(", "hello", ")">>, <<"if", "gui">>, <<"exec", "-bg", "d">>, <<"exec", "l">>,
     <<"exec", "-bg", "/welcome">>, <<"else">>, <<"exec", "s">>, <<"endif">> >>,
  << V("s", "/shell"), <<"if", "gui">>, <<"exec", "/a">>, <<"else">>, <<"wait", "1">>, <<"exec", "s">>,
     <<"exec", "-f", "ep", "/b">>, <<"endif">> >>,
  << <<"var", "p", "=", "(", "ep", ":", "/a", ")">>, V("p", "/b"), <<"if", "p">>, <<"if", "q">>,
     <<"exec", "/none">>, <<"else">>, <<"exec", "p">>, <<"endif">>, <<"exec", "nobody">>,
     <<"exec", "-x", "-bg", "/b">>, <<"else">>, <<"if", "p">>, <<"exec", "/a">>, <<"endif">>,
     <<"exec">>, <<"endif">>, <<"endif">>, <<"exec", "/b">> >> }
(* No file; more ifs than if_stack holds; and more entries than there is room *)
(* for, with an else behind them.                                            *)
Extremes == { <<>>,
  << V("p", "/a"), <<"if", "p">>, <<"if", "p">>, <<"if", "q">>, <<"exec", "p">>, <<"endif">>,
     <<"exec", "/b">>, <<"endif">>, <<"endif">> >>,
  << <<"exec", "/a">> >> \o [i \in 1 .. 13 |-> <<"print">>] \o << <<"else">>, <<"exec", "-bg", "/b">>, <<"exec", "/a">> >> }
Typed == {<<"exec", "-bg", "/a", "/none">>, <<"exec", "/a", "/b">>, <<"gui">>, <<"exec">>, <<"/a">>}
Init1 == INSTANCE Startup WITH Scripts <- Scripts \cup Extremes, MaxLines <- 18, MaxVars <- 4, MaxExecs <- 14, IfMax <- 2, BufSize <- 2,
           Direct <- {"/a", "/b", "/none", "/welcome"}, Packages <- {"/b"},
           Programs <- {"/a", "/b", "/welcome", "/desktop", "/login", "/shell", "/terminal"},
           Commands <- Typed, MaxCommands <- 2, MaxTries <- 2, BoxMax <- 3, Letters <- {"e"},
           Name <- <<"e">>, Pass <- <<"e">>, MaxKeys <- 3
StartOff == /\ script = Off /\ rc = Off /\ pc = Off /\ branch = Off /\ jobs = Off /\ waits = Off
            /\ todo = Off /\ typed = Off /\ login = Off /\ tried = Off

(* Three rows kept, two shown; lines that wrap after four columns.           *)
Term == INSTANCE Terminal WITH TbufRows <- 3, VRows <- 2, VCols <- 4, Buffer <- 12,
          Letters <- {"l", "e"}, ExecWord <- <<"e">>, Bin <- {<<"l">>, <<"l", "l">>},
          Outputs <- {<<"o">>, <<"p", "nl">>}, MaxKeys <- 6, MaxWrites <- 1, focus <- vtFocus
TermOff == /\ t = Off /\ shown = Off /\ ibuf = Off /\ phase = Off /\ vtFocus = Off /\ device = Off
           /\ ran = Off /\ keys = Off /\ emitted = Off

(* A text, a file of /proc, and a path where nothing is; conversions with    *)
(* every flag, width and sign, alone and in pairs.                           *)
Spec1 == [zero : BOOLEAN, width : {0, 1, 3}, conv : {"d"}, arg : {0, 7, 12, -5}]
         \cup [zero : BOOLEAN, width : {0, 2}, conv : {"u", "x"}, arg : {0, 31}]
         \cup [zero : {FALSE}, width : {0, 3}, conv : {"s"}, arg : {<<>>, <<"a", "b">>}]
         \cup [zero : {FALSE}, width : {0}, conv : {"c"}, arg : {"z"}]
SerialSpec == {c \in Spec1 : c.conv # "x"}
Calls ==
    [fn : {"printf"}, specs : {<<c>> : c \in Spec1 \cup {[zero |-> FALSE, width |-> 10, conv |-> "u", arg |-> 7]}}
                              \cup (Spec1 \X Spec1)]
    \cup [fn : {"serial"}, specs : {<<c>> : c \in SerialSpec} \cup (SerialSpec \X SerialSpec)]
    \cup [fn : {"number"}, v : -16 .. 15, min : {-16}]
    \cup {[fn |-> "base", v |-> v, base |-> b] : v \in 0 .. 40, b \in {2, 8, 10, 16}}
    \cup [fn : {"strtok"}, text : BoundedSeq({"a", " ", ":"}, 4), delim : {{" "}, {" ", ":"}}]
    \cup {[fn |-> "qsort", s |-> [i \in DOMAIN k |-> <<k[i], i>>]] : k \in BoundedSeq(0 .. 2, 4)}
Libc == INSTANCE Stdio WITH Paths <- {"t", "p", "n"}, Sizeless <- {"p"},
          Initial <- [t |-> <<"a", "nl", "b">>, p |-> <<"x", "nl">>], Streams <- {"f", "g"},
          Asked <- {1, 3}, Given <- {<<"c", "d", "e">>}, PrintSize <- 3, Calls <- Calls, MaxCalls <- 3
StdioOff == disk = Off /\ streams = Off /\ cat = Off /\ called = Off /\ calls = Off

(* Pids of two digits in base two; heaps that run out at every point.        *)
Proc == INSTANCE ProcFs WITH Programs <- {"sh"}, MaxProcs <- [files |-> 1, folders |-> 2, ps |-> 2],
          MaxSecs <- 1, Base <- 2, Disks <- 1,
          Rooms <- [files |-> {12}, folders |-> {5}, ps |-> {9, 20, 45}], Plenty <- 100, DirMax <- 6,
          Fds <- {0, 1}, Reads <- {7}, uses <- psUses
ProcOff == /\ procs = Off /\ secs = Off /\ room = Off /\ nodes = Off /\ files = Off /\ cwd = Off
           /\ ps = Off /\ psUses = Off

(* Archives of up to three entries: directories after their files, a file    *)
(* twice, a broken header, the home directories missing.                     *)
D(n) == [kind |-> "dir", name |-> n, data |-> ""]
F(n, d) == [kind |-> "file", name |-> n, data |-> d]
Bad == [kind |-> "bad", name |-> <<>>, data |-> ""]
Entries == {F(<<"emr", "users">>, "u1"), F(<<"emr", "users">>, "u2"), D(<<"emr", "config">>),
            F(<<"emr", "config", "users.ini">>, "ini"), F(<<"emr", "config", "users.ini">>, ""),
            D(<<"home">>), F(<<"emr", "system", "system.elf">>, "elf"), Bad, D(<<"user_id">>)}
Archives == UNION {[1..n -> Entries] : n \in 1..3}
            \cup {<<F(<<"emr", "users">>, "u1"), F(<<"emr", "system", "system.elf">>, "elf"),
                    D(<<"home">>), D(<<"emr", "config">>)>>}
HomeArchives == {<<>>, <<Bad>>, <<F(<<"user_id", "doc">>, "x"), D(<<"user_id">>)>>,
                 <<D(<<"user_id">>), F(<<"user_id", "doc">>, "x"), F(<<"user_id", "doc">>, "")>>}
User(n, u, h) == [name |-> n, uid |-> u, home |-> h]
UserLines == [u1 |-> <<User("root", 0, <<"root">>), User("pc", 1000, <<"home", "pc">>)>>,
              u2 |-> <<User("", 0, <<>>), User("ann", 2, <<"home", "ann">>), User("guest", 3, <<"home", "guest">>)>>]
IniSections == [ini |-> <<[user |-> "adm", permissions |-> "administrator"], [user |-> "ann", permissions |-> "guest"]>>]
DeviceModules == <<[name |-> "null", mount |-> <<"dev", "null">>],
                   [name |-> "kbd", mount |-> <<"dev", "input", "keyboard0">>],
                   [name |-> "vt", mount |-> <<"dev", "vt", "control">>]>>
Start == INSTANCE Boot WITH Archives <- Archives, HomeArchives <- HomeArchives, MaxStaged <- 8,
           UserLines <- UserLines, IniSections <- IniSections, MaxUsers <- 2,
           DeviceModules <- DeviceModules, MaxModules <- 4, MaxTerminals <- 1, procs <- created
BootOff == /\ given = Off /\ answers = Off /\ stage = Off /\ tree = Off /\ transform = Off /\ users = Off
           /\ owner = Off /\ loaded = Off /\ modules = Off /\ kprocs = Off /\ created = Off /\ terminals = Off
-----------------------------------------------------------------------------
UserInit ==
    /\ part \in {"desktop", "files", "startup", "terminal", "stdio", "proc", "boot"}
    /\ DeskInit /\ FilesInit /\ (part = "files" \/ uses = "windows")
    /\ IF part = "startup" THEN Init1!StartInit ELSE StartOff
    /\ IF part = "terminal" THEN Term!TermInit ELSE TermOff
    /\ IF part = "stdio" THEN Libc!StdioInit ELSE StdioOff
    /\ IF part = "proc" THEN Proc!ProcInit ELSE ProcOff
    /\ IF part = "boot" THEN Start!BootInit ELSE BootOff

UserNext ==
    /\ part' = part
    /\ \/ /\ part = "desktop"
          /\ UNCHANGED <<filesVars, startVars, termVars, stdioVars, procVars, bootVars>>
          /\ DeskNext
       \/ /\ part = "files"
          /\ UNCHANGED <<deskVars, startVars, termVars, stdioVars, procVars, bootVars>>
          /\ FilesNext
       \/ /\ part = "startup"
          /\ UNCHANGED <<deskVars, filesVars, termVars, stdioVars, procVars, bootVars>>
          /\ Init1!StartNext
       \/ /\ part = "terminal"
          /\ UNCHANGED <<deskVars, filesVars, startVars, stdioVars, procVars, bootVars>>
          /\ Term!TermNext
       \/ /\ part = "stdio"
          /\ UNCHANGED <<deskVars, filesVars, startVars, termVars, procVars, bootVars>>
          /\ Libc!StdioNext
       \/ /\ part = "proc"
          /\ UNCHANGED <<deskVars, filesVars, startVars, termVars, stdioVars, bootVars>>
          /\ Proc!ProcNext
       \/ /\ part = "boot"
          /\ UNCHANGED <<deskVars, filesVars, startVars, termVars, stdioVars, procVars>>
          /\ Start!BootNext

UserSpec == UserInit /\ [][UserNext]_<<part, deskVars, filesVars, startVars, termVars,
                                       stdioVars, procVars, bootVars>>

(* Once a frame gave up more places than it can clear, the desktop's         *)
(* properties and steps look at neither the framebuffer nor what the cursor  *)
(* stands on: states that differ there only are one.                         *)
UserView ==
    <<part, wins, order, focus, drag, lastBtn, band, marks, frame, pressed, crowded, several,
      IF part = "desktop" /\ crowded THEN Off ELSE <<screen, cursor>>,
      filesVars, startVars, termVars, stdioVars, procVars, bootVars>>
-----------------------------------------------------------------------------
(* Init starts what its file asks for, in order, and login's log lists the tries *)
(* (emxrc.c, login.c).                                                       *)
StartupSound == part = "startup" => Init1!StartupSound

(* The terminal window shows the last rows of what it was given to show, and *)
(* the line as typed (terminal.c:85-170).                                    *)
TerminalShows == part = "terminal" => Term!TerminalShows

(* A stream's position, end mark and content follow the file under it, and cat *)
(* writes what it read (stdio.c, cat.c).                                     *)
StreamsSound == part = "stdio" => Libc!StreamsSound

(* Numbers printed, parsed and sorted are what C says, for the flags the code *)
(* knows (stdio.c, stdlib.c, string.c, serial.c).                            *)
ConversionsExact == part = "stdio" => Libc!ConversionsExact

(* What a descriptor of /proc gives is of one moment, what a listing named can *)
(* be looked up, and ps prints each process that was there throughout once, in *)
(* list order (procfs.c, ps.c, dirent.c).                                    *)
ProcSound == part = "proc" => Proc!ProcSound

(* Every file of an archive that lists its directories parents first is in the *)
(* tree with its data, whatever the order of the files (cpio.c:206), and the *)
(* nodes of /dev are the devices that answered, each under the first module of *)
(* its path (module.c, vfs_init.c:76).                                       *)
BootSound == part = "boot" => Start!BootSound

(* What a command writes to standard output appears in the window that ran it *)
(* (terminal.c:313-314).                                                     *)
OutputShown == part = "terminal" => Term!OutputShown
===============================================================================
