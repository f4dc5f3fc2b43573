------------------------------- MODULE ProcFs -------------------------------
(***************************************************************************)
(* /proc and /sys (kernel/file_systems/vfs/procfs, .../sysfs), the listing *)
(* of directories, the working directory, and ps (user/bin/ps), which      *)
(* reads the list of the processes through them while it changes.          *)
(*                                                                         *)
(* A node of these file systems is made by the lookup that finds it and is *)
(* never given back; the text of a file is made by its open.  A name is a  *)
(* text, a path the sequence of its names.                                 *)
(***************************************************************************)
EXTENDS Format

CONSTANTS Programs,   \* names of programs
          MaxProcs,   \* bound: processes created, for each use
          MaxSecs,    \* bound: seconds of uptime
          Base,       \* of the digits of a pid: ten
          Disks,      \* ATAget_device_count()
          Rooms,      \* what the file systems' heap may have left for each use, in allocations
          Plenty,     \* more than any program here takes of it
          DirMax,     \* _KDIRENT_MAX: the entries opendir asks for
          Fds,        \* descriptors of other programs
          Reads       \* what a program reads at a time

VARIABLES procs,    \* ptr_proc_list: the newest first
          secs,     \* uptime
          room,     \* what is left of the heap
          nodes,    \* the nodes that open descriptors have: kind, pid, text
          files,    \* descriptor -> node, position, and what it has given
          cwd,      \* the working directory of all programs
          ps,       \* what ps is doing
          uses      \* bound: which programs run: "files", "folders" or "ps"

procVars == <<procs, secs, room, nodes, files, cwd, ps, uses>>

States == {"CREATED", "READY", "RUNNING", "BLOCKED", "ZOMBIE"}
Later  == [CREATED |-> {"READY"}, READY |-> {"RUNNING"}, RUNNING |-> {"READY", "BLOCKED", "ZOMBIE"},
           BLOCKED |-> {"READY"}, ZOMBIE |-> {}]

Globals == <<"stat", "uptime", "meminfo", "loadavg">>
Folder(kind) == kind \in {"root", "dir", "sys", "block", "disk"}

-----------------------------------------------------------------------------
(* Memory: an allocation succeeds as long as there is room                 *)

\* So many allocations, one after the other; what has been taken stays taken.
Alloc(left, n) == [ok |-> left >= n, left |-> IF left >= n THEN left - n ELSE 0]
NodeCost == 2        \* the node and its procfs_data
TextCost == 1
FileCost == 1

-----------------------------------------------------------------------------
(* Names                                                                   *)

\* bug: the digits stay in the order in which they were found
FaultPidName(pid) == Reverse(uitoa(pid, Base))

PidName(pid) == uitoa(pid, Base)
DiskName(i)  == <<"h", "d", Figures[10 + i]>>
Named(s)     == <<s>>

\* A name that is no number, or zero, is no pid.
procfs_atopid(name) ==
    IF name = <<>> \/ \E i \in DOMAIN name : name[i] \notin {Figures[k] : k \in 1 .. Base} THEN 0
    ELSE Value(name, Base)

procfs_find_pid(pid) == SelectSeq(procs, LAMBDA p : p.pid = pid)

-----------------------------------------------------------------------------
(* Lookup: the kinds and pids of the nodes on the way to a path            *)

ProcChild(n, name) ==
    CASE n.kind = "root" /\ \E i \in DOMAIN Globals : name = Named(Globals[i]) ->
            <<[kind |-> name[1], pid |-> 0]>>
      [] n.kind = "root" /\ (\A i \in DOMAIN Globals : name # Named(Globals[i]))
            /\ procfs_atopid(name) # 0 /\ procfs_find_pid(procfs_atopid(name)) # <<>> ->
            <<[kind |-> "dir", pid |-> procfs_atopid(name)]>>
      [] n.kind = "dir" /\ name \in {Named("status"), Named("maps")} ->
            <<[kind |-> name[1], pid |-> n.pid]>>
      [] OTHER -> <<>>

SysChild(n, name) ==
    CASE n.kind = "sys" /\ name = Named("block") -> <<[kind |-> "block", pid |-> 0]>>
      [] n.kind = "block" /\ \E i \in 1 .. Disks : name = DiskName(i) -> <<[kind |-> "disk", pid |-> 0]>>
      [] OTHER -> <<>>

\* The lookup of /sys/block makes the node of every disk as well.
CostOf(n) == IF n.kind = "block" THEN 1 + Disks ELSE IF n.kind = "disk" THEN 1 ELSE NodeCost

\* fs_resolve: from the root of the mount, one lookup per name.
fs_resolve(path, left) ==
    LET mount(name) == CASE name = Named("proc") -> <<[kind |-> "root", pid |-> 0]>>
                         [] name = Named("sys")  -> <<[kind |-> "sys", pid |-> 0]>>
                         [] OTHER               -> <<>>
        take(found, mem) == [node |-> IF mem.ok THEN found ELSE <<>>, left |-> mem.left]
        step(r, found) == IF found = <<>> THEN [r EXCEPT !.node = <<>>]
                          ELSE take(found, Alloc(r.left, CostOf(found[1])))
        down(r, name) == IF r.node = <<>> THEN r
                         ELSE step(r, ProcChild(r.node[1], name) \o SysChild(r.node[1], name))
    IN IF path = <<>> THEN [node |-> <<>>, left |-> left]
       ELSE FoldLeft(down, [node |-> mount(path[1]), left |-> left], Tail(path))

-----------------------------------------------------------------------------
(* Texts                                                                   *)

\* A character, or a word where no program looks inside.
Field(key, text) == <<key, " ">> \o text \o <<"nl">>

\* bug: the line of the name has no end
FaultStatus(p) == <<"name:", " ", p.name>> \o Field("pid:", PidName(p.pid)) \o Field("state:", <<p.state>>)

procfs_gen_status(p) == Field("name:", <<p.name>>) \o Field("pid:", PidName(p.pid))
                        \o Field("state:", <<p.state>>) \o Field("priority:", <<"0">>)
procfs_gen_maps(p)   == Field("heap:", <<"0x", p.pid>>) \o Field("stack:", <<"0x", p.pid>>)

\* count_procs: the number of them, and the pid of the last in the list.
count_procs == IF procs = <<>> THEN <<0, 1>> ELSE <<Len(procs), Last(procs).pid>>

Text(n) ==
    CASE n.kind = "status"  -> procfs_gen_status(procfs_find_pid(n.pid)[1])
      [] n.kind = "maps"    -> procfs_gen_maps(procfs_find_pid(n.pid)[1])
      [] n.kind = "uptime"  -> <<secs, ".00", secs, ".00", "nl">>
      [] n.kind = "stat"    -> <<"cpu", secs * 100, "nl", "cpu0", secs * 100, "nl", "processes",
                                 count_procs[1], "nl">>
      [] n.kind = "meminfo" -> <<"MemTotal:", "nl", "MemFree:", "nl">>
      [] n.kind = "loadavg" -> <<"0.00 0.00 0.00 1/", count_procs[1], count_procs[2], "nl">>
      [] OTHER              -> <<>>

-----------------------------------------------------------------------------
(* Descriptors                                                             *)

\* Every open has looked its node up and so has one of its own.  (A node no
\* descriptor has is out of reach: only its memory counts.)
InUse == {files[fd].node : fd \in {g \in Fds : files[g].open}}

\* bug: a file that was found before is the same node
FaultNodeFor(n) ==
    LET same == {i \in InUse : nodes[i].kind = n.kind /\ nodes[i].pid = n.pid}
    IN IF same # {} THEN CHOOSE i \in same : TRUE ELSE CHOOSE i \in DOMAIN nodes : i \notin InUse

NodeFor(n) == CHOOSE i \in DOMAIN nodes : i \notin InUse

\* fs_open: the path, the record, and the file system's open, which makes the
\* text; the file system's nodes stay whatever fails.
fs_open(path) ==
    LET opened(n, text) == IF text.ok THEN [ok |-> TRUE, left |-> text.left, node |-> n]
                           ELSE [ok |-> FALSE, left |-> text.left + FileCost]
        record(n, rec) == IF ~rec.ok THEN [ok |-> FALSE, left |-> rec.left]
                          ELSE opened(n, Alloc(rec.left, IF Folder(n.kind) THEN 0 ELSE TextCost))
        found(r) == IF r.node = <<>> THEN [ok |-> FALSE, left |-> r.left]
                    ELSE record(r.node[1], Alloc(r.left, FileCost))
    IN found(fs_resolve(path, room))

Free  == [open |-> FALSE]
Blank == [kind |-> "none", pid |-> 0, text |-> <<>>]
OpenFile(fd, n) ==
    \E id \in {NodeFor(n)} :
       /\ nodes' = [nodes EXCEPT ![id] = [kind |-> n.kind, pid |-> n.pid, text |-> Text(n)]]
       /\ files' = [files EXCEPT ![fd] = [open |-> TRUE, node |-> id, pos |-> 0, got |-> <<>>,
                                          whole |-> Text(n)]]

\* A path a program asks for.
Pids == 0 .. MaxProcs[uses]
Paths == {<<Named("proc")>> \o p : p \in {<<Named(Globals[i])>> : i \in DOMAIN Globals}
                                        \cup {<<PidName(i)>> : i \in Pids}
                                        \cup {<<PidName(i), Named(s)>> : i \in Pids, s \in {"status", "maps"}}}
         \cup {<<Named("sys"), Named("block"), DiskName(i)>> : i \in 1 .. Disks}

Open == \E fd \in Fds, path \in Paths :
    /\ ~files[fd].open
    /\ \E r \in {fs_open(path)} :
          /\ room' = r.left
          /\ IF r.ok THEN OpenFile(fd, r.node) ELSE UNCHANGED <<nodes, files>>
    /\ UNCHANGED <<procs, secs, cwd, ps, uses>>

\* procfs_read, dir_read: a folder has nothing to read.
ReadAt(f, n) == SubSeq(nodes[f.node].text, f.pos + 1,
                       IF f.pos + n > Len(nodes[f.node].text) THEN Len(nodes[f.node].text) ELSE f.pos + n)

Read == \E fd \in Fds, n \in Reads :
    LET f == files[fd] IN
    /\ f.open /\ ~Folder(nodes[f.node].kind) /\ ReadAt(f, n) # <<>>
    /\ files' = [files EXCEPT ![fd].pos = @ + Len(ReadAt(f, n)), ![fd].got = @ \o ReadAt(f, n)]
    /\ UNCHANGED <<procs, secs, room, nodes, cwd, ps, uses>>

\* lseek: these nodes have size 0, where every position is cut.
Seek == \E fd \in Fds :
    /\ files[fd].open /\ files[fd].pos > 0
    /\ files' = [files EXCEPT ![fd].pos = 0, ![fd].got = <<>>]
    /\ UNCHANGED <<procs, secs, room, nodes, cwd, ps, uses>>

Close == \E fd \in Fds :
    /\ files[fd].open
    /\ files' = [files EXCEPT ![fd] = Free]
    /\ nodes' = [i \in DOMAIN nodes |-> IF i \in InUse \ {files[fd].node} THEN nodes[i] ELSE Blank]
    /\ room' = room + FileCost
    /\ UNCHANGED <<procs, secs, cwd, ps, uses>>

-----------------------------------------------------------------------------
(* Listings                                                                *)

\* Nodes made one after the other as long as there is room, and which of them
\* there are; a node that fails may leave nothing for those behind it.
Made(n, cost, left) ==
    FoldLeft(LAMBDA m, i : LET a == Alloc(m.left, cost)
                           IN [left |-> a.left, ok |-> IF a.ok THEN Append(m.ok, i) ELSE m.ok],
             [left |-> left, ok |-> <<>>], [i \in 1 .. n |-> i])

\* procfs_readdir: the global files, one of which is made and not listed, and
\* a folder for every process.  A file that could not be made breaks the list.
RootListing(left) ==
    LET globals(g) == SelectSeq(g.ok, LAMBDA i : i \in DOMAIN Globals)
        both(g, p) == [left |-> p.left,
                       names |-> [i \in DOMAIN globals(g) |-> Named(Globals[i])]
                                 \o [i \in DOMAIN p.ok |-> PidName(procs[p.ok[i]].pid)]]
        folders(g) == both(g, Made(Len(procs), NodeCost, g.left))
    IN folders(Made(5, NodeCost, left))

\* fs_listdir, as many names as were asked for.
fs_listdir(path, max) ==
    LET pair(m) == [left |-> m.left, names |-> [i \in DOMAIN m.ok |-> Named(<<"status", "maps">>[m.ok[i]])]]
        of(kind, left) == CASE kind = "root"  -> RootListing(left)
                            [] kind = "dir"   -> pair(Made(2, NodeCost, left))
                            [] kind = "sys"   -> [left |-> left, names |-> <<Named("block")>>]
                            [] kind = "block" -> [left |-> left, names |-> [i \in 1 .. Disks |-> DiskName(i)]]
                            [] OTHER          -> [left |-> left, names |-> <<>>]
        list(l) == [ok |-> TRUE, left |-> l.left,
                    names |-> SubSeq(l.names, 1, IF Len(l.names) < max THEN Len(l.names) ELSE max)]
        found(r) == IF r.node = <<>> \/ ~Folder(r.node[1].kind) THEN [ok |-> FALSE, left |-> r.left, names |-> <<>>]
                    ELSE list(of(r.node[1].kind, r.left))
    IN found(fs_resolve(path, room))

-----------------------------------------------------------------------------
(* The working directory                                                   *)

Folders == {<<Named("proc")>>, <<Named("sys")>>, <<Named("sys"), Named("block")>>}
           \cup {<<Named("proc"), PidName(i)>> : i \in Pids}

\* chdir: one name from here, a whole path, or back by one.  The path must be
\* a folder; a failure leaves the directory.
ChangeTo(path) ==
    \E r \in {fs_resolve(path, room)} :
       /\ room' = r.left
       /\ cwd' = IF r.node # <<>> /\ Folder(r.node[1].kind) THEN path ELSE cwd
chdir ==
    /\ \/ \E path \in Folders \cup Paths : ChangeTo(path)
       \/ \E name \in {PidName(i) : i \in Pids} \cup {Named("block"), Named("stat")} :
             cwd # <<>> /\ ChangeTo(Append(cwd, name))
       \/ cwd # <<>> /\ cwd' = Front(cwd) /\ UNCHANGED room
    /\ UNCHANGED <<procs, secs, nodes, files, ps, uses>>

-----------------------------------------------------------------------------
(* Processes                                                               *)

\* ulime_proc_create puts it at the head; nothing ever leaves the list.
Create == \E name \in Programs :
    /\ Len(procs) < MaxProcs[uses]
    /\ procs' = <<[pid |-> Len(procs) + 1, name |-> name, state |-> "CREATED"]>> \o procs
    /\ UNCHANGED <<secs, room, nodes, files, cwd, ps, uses>>

Proceed == \E i \in DOMAIN procs : \E st \in Later[procs[i].state] :
    /\ procs' = [procs EXCEPT ![i].state = st]
    /\ UNCHANGED <<secs, room, nodes, files, cwd, ps, uses>>

Tick ==
    /\ secs < MaxSecs /\ secs' = secs + 1
    /\ UNCHANGED <<procs, room, nodes, files, cwd, ps, uses>>

-----------------------------------------------------------------------------
(* ps                                                                      *)

\* opendir takes the whole listing.
PsStarts ==
    /\ ps.at = "idle"
    /\ \E l \in {fs_listdir(<<Named("proc")>>, DirMax)} :
       /\ l.ok
       /\ room' = l.left
       /\ ps' = [at |-> "next", todo |-> l.names, listed |-> l.names, rows |-> <<>>, name |-> <<>>, text |-> <<>>,
                 missed |-> 0, there |-> [i \in DOMAIN procs |-> procs[i].pid], full |-> room]
    /\ UNCHANGED <<procs, secs, nodes, files, cwd, uses>>

is_num(name) == name # <<>> /\ \A i \in DOMAIN name : name[i] \in Decimal

\* A name that is no number is passed over; the status is read in one call.
PsOpens ==
    /\ ps.at = "next" /\ ps.todo # <<>>
    /\ IF is_num(Head(ps.todo))
       THEN \E r \in {fs_open(<<Named("proc"), Head(ps.todo), Named("status")>>)} :
            /\ room' = r.left
            /\ ps' = IF r.ok THEN [ps EXCEPT !.at = "read", !.todo = Tail(@),
                                             !.name = Head(ps.todo), !.text = Text(r.node)]
                     ELSE [ps EXCEPT !.todo = Tail(@), !.missed = @ + 1]
       ELSE ps' = [ps EXCEPT !.todo = Tail(@)] /\ UNCHANGED room
    /\ UNCHANGED <<procs, secs, nodes, files, cwd, uses>>

\* parse_field: what stands behind the key of a line, up to its end.
parse_field(text, key) ==
    LET starts == {i \in DOMAIN text : text[i] = key /\ (i = 1 \/ text[i - 1] = "nl")}
        rest   == Skip(Rest(text, CHOOSE i \in starts : \A j \in starts : i <= j), {" "})
    IN IF starts = {} THEN <<>> ELSE Until(rest, {"nl"})

\* close, and a line.  Its format has widths with a minus in them, which printf
\* does not know: they are printed as they stand and take no argument, so that
\* the first one, the pid, is the text behind them.
RowFormat == <<"%", "-", "7", "s", "%", "-", "1", "1", "s", "%", "s">>
PsPrints ==
    LET row == vsnprintf(RowFormat, <<ps.name, parse_field(ps.text, "state:"), parse_field(ps.text, "name:")>>)
    IN /\ ps.at = "read"
       /\ room' = room + FileCost
       /\ ps' = [ps EXCEPT !.at = "next", !.rows = Append(@, row), !.name = <<>>, !.text = <<>>]
       /\ UNCHANGED <<procs, secs, nodes, files, cwd, uses>>

PsEnds ==
    /\ ps.at = "next" /\ ps.todo = <<>>
    /\ ps' = [ps EXCEPT !.at = "done"]
    /\ UNCHANGED <<procs, secs, room, nodes, files, cwd, uses>>

ProcInit ==
    /\ procs = <<>> /\ secs = 0 /\ uses \in DOMAIN Rooms /\ room \in Rooms[uses]
    /\ nodes = [i \in 1 .. Cardinality(Fds) |-> Blank]
    /\ files = [fd \in Fds |-> Free] /\ cwd = <<>> /\ ps = [at |-> "idle"]

ProcNext == \/ Create
            \/ uses # "folders" /\ (Proceed \/ Tick)
            \/ uses = "files" /\ (Open \/ Read \/ Seek \/ Close)
            \/ uses = "folders" /\ chdir
            \/ uses = "ps" /\ (PsStarts \/ PsOpens \/ PsPrints \/ PsEnds)

ProcSpec == ProcInit /\ [][ProcNext]_procVars

-----------------------------------------------------------------------------
(* What must hold                                                          *)

\* However often the state changes and others open the same file, what a
\* descriptor gives belongs to the moment of its open.
OneMoment ==
    \A fd \in Fds : files[fd].open =>
        /\ files[fd].got = SubSeq(files[fd].whole, 1, Len(files[fd].got))
        /\ files[fd].pos = Len(files[fd].got)

\* What a listing has named can be looked up for ever after, if there is
\* memory, and the folders behind the global files are those of the processes
\* that were there, each its own: no process leaves the list.
ListedIsFound ==
    ps.at # "idle" =>
        \A i \in DOMAIN ps.listed :
            LET found == fs_resolve(<<Named("proc"), ps.listed[i]>>, Plenty).node
            IN /\ found # <<>>
               /\ ps.full >= NodeCost * (5 + Len(ps.there)) /\ i > 4 => found[1].pid = ps.there[i - 4]

\* ps, run while processes are created and change, has at its end a row for
\* every process that was there when it started, the newest first, which ends
\* with its pid: unless memory was short, or the listing did not have room for
\* them all.  (Of the state and the name the row shows nothing.)
PsComplete ==
    ps.at = "done" /\ ps.missed = 0
    /\ ps.full >= NodeCost * (5 + Len(ps.there)) /\ Len(ps.there) <= DirMax - 4 =>
        /\ Len(ps.rows) = Len(ps.there)
        /\ \A i \in DOMAIN ps.rows : Rest(ps.rows[i], Len(RowFormat) - 2) = PidName(ps.there[i])

\* What /proc gives belongs together, what it names is there, and ps shows it
\* all.
ProcSound == OneMoment /\ ListedIsFound /\ PsComplete

=============================================================================
