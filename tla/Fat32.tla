------------------------------- MODULE Fat32 -------------------------------
(***************************************************************************)
(* The FAT32 driver on a mounted volume:                                   *)
(*   file_systems/fat32/fat32.c       lookup, open, read, close, init      *)
(*   file_systems/fat32/fat_create.c  create_dir, write_file               *)
(*   file_systems/fat32/fat_write.c   allocation, flush, write             *)
(* The driver keeps the whole table in memory and writes both copies of it *)
(* at the end of an operation that changed it; directories are written at  *)
(* once.  An operation runs with the processor to itself and is one action.*)
(* A cluster is a row of directory slots: a long name takes LfnSlots and   *)
(* the entry one more; a cluster of file data is a row of one data tag, the*)
(* file and the place of the cluster in it.  Bytes inside a cluster are not*)
(* told apart: sizes and positions count clusters.  Transfers succeed.     *)
(***************************************************************************)
EXTENDS Integers, Sequences, SequencesExt, FiniteSets

CONSTANTS
    LastCluster,  \* clusters are 2 .. LastCluster
    Row,          \* directory slots of a cluster (128)
    LfnSlots,     \* slots the long part of a name takes
    Names,        \* names of directories and files
    ShortName(_), \* string_to_fatname: the 8.3 form, not injective
    MaxSize,      \* clusters of the largest file written
    MaxFiles,     \* bound: files and directories made in a behaviour
    MaxHandles    \* bound: files open at once

VARIABLES
    fat,      \* FAT: the table in memory
    table1,   \* the first table on the disk, read by fat32_init
    table2,   \* the second table on the disk
    cluster,  \* cluster[c]: the slots of cluster c on the disk
    files,    \* number of entries written so far; names the data of each
    handles   \* file_t structures: the copied entry and the position

fatVars == <<fat, table1, table2, cluster, files, handles>>

Clusters == 2..LastCluster
EOC == -1
Root == 2
Free == [t |-> "free"]
EmptyRow == [i \in 1..Row |-> Free]
Lfn(name) == [t |-> "lfn", name |-> name]
Entry(t, name, first, size, id) ==
    [t |-> t, name |-> name, sfn |-> ShortName(name), first |-> first, size |-> size, id |-> id]
DataRow(id, k) == [i \in 1..Row |-> [t |-> "data", id |-> id, k |-> k]]

-----------------------------------------------------------------------------
get_next_cluster(f, c) == f[c]

(* The clusters of a chain, in order.                                       *)
Chain(f, first) ==
    LET walk[s \in Seq(Clusters)] ==
          IF \/ f[Last(s)] \notin Clusters \/ Len(s) > LastCluster THEN s
          ELSE walk[Append(s, get_next_cluster(f, Last(s)))]
    IN  IF first \in Clusters THEN walk[<<first>>] ELSE <<>>

(* alloc_cluster: the first free entry, taken at once; 0 when none is left. *)
FaultFirstFree(f) ==
    IF \E c \in Clusters : f[c] = 0
    THEN CHOOSE c \in Clusters : f[c] = 0 /\ \A d \in Clusters : f[d] = 0 => c <= d
    ELSE LastCluster

FirstFree(f) ==
    IF \E c \in Clusters : f[c] = 0
    THEN CHOOSE c \in Clusters : f[c] = 0 /\ \A d \in Clusters : f[d] = 0 => c <= d
    ELSE 0
Take(f, c) == [f EXCEPT ![c] = EOC]

(* flush_fat: both copies.                                                  *)
FaultFlush(f) == table1' = table1 /\ table2' = f

flush_fat(f) == table1' = f /\ table2' = f

(* dir_lookup, the lookup of the operations that write: by short name, to   *)
(* the first unused slot, which may come before the entries of a later      *)
(* cluster.  0 is also the answer for an empty file.                        *)
dir_lookup(dir, name) ==
    LET chain == Chain(fat, dir)
        slots == FlattenSeq([i \in DOMAIN chain |-> cluster[chain[i]]])
        stop  == SelectInSeq(slots, LAMBDA s : s = Free)
        seen  == IF stop = 0 THEN slots ELSE SubSeq(slots, 1, stop - 1)
        hits  == SelectSeq(seen, LAMBDA s : s.t \in {"file", "dir"} /\ s.sfn = ShortName(name))
    IN  IF hits = <<>> THEN 0 ELSE Head(hits).first

(* fat32_lookup_in_dir, the lookup of open: by long name, cluster after     *)
(* cluster; inside the cluster of the first match a later match wins.       *)
fat32_lookup_in_dir(dir, name) ==
    LET chain == Chain(fat, dir)
        hits(c) == SelectSeq(cluster[c], LAMBDA s : s.t \in {"file", "dir"} /\ s.name = name)
        in == SelectInSeq(chain, LAMBDA c : hits(c) # <<>>)
    IN  IF in = 0 THEN Free ELSE Last(hits(chain[in]))

(* find_slots: the first run of n unused slots inside one cluster of the    *)
(* directory, else a new cluster at its end.  The fat and the clusters it   *)
(* leaves, and the cluster and slot it found (0: the disk is full).         *)
RunAt(row, i, n) == \A j \in 0..n-1 : row[i + j] = Free
HasRun(row, n) == \E i \in 1..Row - n + 1 : RunAt(row, i, n)
FirstRun(row, n) ==
    CHOOSE i \in 1..Row - n + 1 : RunAt(row, i, n) /\ \A j \in 1..i-1 : ~RunAt(row, j, n)

find_slots(f, cl, dir, n) ==
    LET chain == Chain(f, dir)
        in == SelectInSeq(chain, LAMBDA c : HasRun(cl[c], n))
        nc == FirstFree(f)
    IN  CASE in # 0 -> [fat |-> f, cl |-> cl, at |-> chain[in]]
          [] in = 0 /\ nc = 0 -> [fat |-> f, cl |-> cl, at |-> 0]
          [] OTHER -> [fat |-> [Take(f, nc) EXCEPT ![Last(chain)] = nc],
                       cl |-> [cl EXCEPT ![nc] = EmptyRow], at |-> nc]

(* write_dir_entry: the long name's slots and the entry, in one run.        *)
write_dir_entry(f, cl, dir, e) ==
    LET r == find_slots(f, cl, dir, LfnSlots + 1)
        i == FirstRun(r.cl[r.at], LfnSlots + 1)
    IN  IF r.at = 0 THEN [ok |-> FALSE, fat |-> r.fat, cl |-> r.cl]
        ELSE [ok |-> TRUE, fat |-> r.fat,
              cl |-> [r.cl EXCEPT ![r.at] =
                        [j \in 1..Row |-> CASE j \in i..i+LfnSlots-1 -> Lfn(e.name)
                                            [] j = i + LfnSlots -> e
                                            [] OTHER -> @[j]]]]

(* What the callers owe: a path goes through directories, and what is       *)
(* written through a handle is a file.  No code checks either.              *)
ThroughDirectory(path) ==
    Len(path) = 1 \/ \E c \in Range(Chain(fat, Root)), i \in 1..Row :
                        /\ cluster[c][i].t = "dir"
                        /\ cluster[c][i].first = dir_lookup(Root, path[1])

(* split_path: the cluster of the parent, 0 if it is not found.             *)
split_path(path) == IF Len(path) = 1 THEN Root ELSE dir_lookup(Root, path[1])

-----------------------------------------------------------------------------
(* An operation that gives up returns -1 and keeps in memory the clusters   *)
(* it has taken; only one that goes through writes the tables.              *)
Finish(r) ==
    /\ fat' = r.fat /\ cluster' = r.cl
    /\ IF r.ok THEN flush_fat(r.fat) ELSE UNCHANGED <<table1, table2>>
    /\ files' = files + 1
    /\ UNCHANGED handles

fat32_create_dir(path) ==
    LET parent == split_path(path)
        nc == FirstFree(fat)
    IN  /\ files < MaxFiles
        /\ parent # 0 /\ ThroughDirectory(path)
        /\ dir_lookup(parent, Last(path)) = 0
        /\ nc # 0
        /\ Finish(write_dir_entry(Take(fat, nc), [cluster EXCEPT ![nc] = EmptyRow], parent,
                                  Entry("dir", Last(path), nc, 0, files)))

(* fat32_write_file: a chain as long as the data, then the entry; an older  *)
(* file of the name is not looked for.  Whether the entry of an empty file  *)
(* found a place is not looked at: the tables are written, and 0 returned.  *)
GrowChain(f, cl, id, size) ==
    FoldLeft(LAMBDA r, k :
               LET c == FirstFree(r.fat)
               IN  IF ~r.ok \/ c = 0 THEN [r EXCEPT !.ok = FALSE]
                   ELSE [ok |-> TRUE, first |-> IF r.first = 0 THEN c ELSE r.first, prev |-> c,
                         fat |-> IF r.prev = 0 THEN Take(r.fat, c)
                                 ELSE [Take(r.fat, c) EXCEPT ![r.prev] = c],
                         cl |-> [r.cl EXCEPT ![c] = DataRow(id, k)]],
             [ok |-> TRUE, first |-> 0, prev |-> 0, fat |-> f, cl |-> cl],
             [k \in 1..size |-> k])

fat32_write_file(path, size) ==
    LET parent == split_path(path)
        r == GrowChain(fat, cluster, files, size)
    IN  /\ files < MaxFiles
        /\ parent # 0 /\ ThroughDirectory(path)
        /\ Finish(IF r.ok
                  THEN [write_dir_entry(r.fat, r.cl, parent,
                                        Entry("file", Last(path), r.first, size, files))
                          EXCEPT !.ok = @ \/ size = 0]
                  ELSE [ok |-> FALSE, fat |-> r.fat, cl |-> r.cl])

fat32_open(path) ==
    LET dir == IF Len(path) = 1 THEN Root
               ELSE fat32_lookup_in_dir(Root, path[1])
        e == IF Len(path) = 1 THEN fat32_lookup_in_dir(Root, path[1])
             ELSE IF dir = Free \/ dir.first = 0 THEN Free
             ELSE fat32_lookup_in_dir(dir.first, path[2])
    IN  /\ Len(handles) < MaxHandles
        /\ e # Free
        /\ handles' = Append(handles, [entry |-> e, pos |-> 0])
        /\ UNCHANGED <<fat, table1, table2, cluster, files>>

(* fat32_read: from the position to the size in the copied entry.           *)
fat32_read(h) ==
    LET e == handles[h].entry
    IN  /\ handles[h].pos < e.size
        /\ \E n \in 1..e.size - handles[h].pos :
             handles' = [handles EXCEPT ![h].pos = @ + n]
        /\ UNCHANGED <<fat, table1, table2, cluster, files>>

(* fat32_write of one cluster at the position: an empty file gets its first *)
(* cluster in the copy of the entry only, the chain is grown one cluster at *)
(* a time up to the position, the tables are written whatever happened, and *)
(* the size on the disk stays what it was.                                  *)
Reach(f, first, idx) ==
    FoldLeft(LAMBDA r, i :
               IF ~r.ok \/ r.fat[r.cur] # EOC
               THEN IF r.ok THEN [r EXCEPT !.cur = r.fat[r.cur]] ELSE r
               ELSE LET c == FirstFree(r.fat)
                    IN  IF c = 0 THEN [r EXCEPT !.ok = FALSE]
                        ELSE [ok |-> TRUE, cur |-> c,
                              fat |-> [Take(r.fat, c) EXCEPT ![r.cur] = c]],
             [ok |-> TRUE, cur |-> first, fat |-> f], [i \in 1..idx |-> i])

fat32_write(h) ==
    LET e == handles[h].entry
        first == IF e.first = 0 THEN FirstFree(fat) ELSE e.first
        r == Reach(IF e.first = 0 THEN Take(fat, first) ELSE fat, first, handles[h].pos)
        pos == IF r.ok THEN handles[h].pos + 1 ELSE handles[h].pos
    IN  /\ e.t = "file" /\ handles[h].pos < MaxSize
        /\ first # 0
        /\ fat' = r.fat /\ flush_fat(r.fat)
        /\ cluster' = IF r.ok THEN [cluster EXCEPT ![r.cur] = DataRow(e.id, pos)] ELSE cluster
        /\ handles' = [handles EXCEPT ![h] =
             [entry |-> [e EXCEPT !.first = first, !.size = IF pos > @ THEN pos ELSE @],
              pos |-> pos]]
        /\ UNCHANGED files

fat32_close(h) ==
    /\ handles' = RemoveAt(handles, h)
    /\ UNCHANGED <<fat, table1, table2, cluster, files>>

(* A restart between two operations: fat32_init reads the first table.      *)
fat32_init ==
    /\ fat' = table1 /\ handles' = <<>>
    /\ UNCHANGED <<table1, table2, cluster, files>>

FatInit ==
    /\ fat = [c \in Clusters |-> IF c = Root THEN EOC ELSE 0]
    /\ table1 = fat /\ table2 = fat
    /\ cluster = [c \in Clusters |-> EmptyRow]
    /\ files = 0 /\ handles = <<>>

Paths == {<<n>> : n \in Names} \union {<<d, n>> : d \in Names, n \in Names}

FatNext ==
    \/ \E p \in Paths : \/ fat32_create_dir(p)
                        \/ \E size \in 0..MaxSize : fat32_write_file(p, size)
                        \/ fat32_open(p)
    \/ \E h \in DOMAIN handles : fat32_read(h) \/ fat32_write(h) \/ fat32_close(h)
    \/ fat32_init

FatSpec == FatInit /\ [][FatNext]_fatVars

-----------------------------------------------------------------------------
EntriesIn(dir) ==
    {cluster[c][i] : c \in Range(Chain(fat, dir)), i \in 1..Row} \ {Free}
EntrySet(dir) == {e \in EntriesIn(dir) : e.t \in {"file", "dir"}}
Tree == EntrySet(Root) \union UNION {EntrySet(e.first) : e \in {d \in EntrySet(Root) : d.t = "dir"}}

ClosedChain(f, first) == Last(Chain(f, first)) \in Clusters /\ f[Last(Chain(f, first))] = EOC

(* Every file of the tree, and every open file, finds its own data in its   *)
(* own place: the chain of an entry ends, is as long as its size, and holds *)
(* the clusters written for that file in their order, whatever failed,      *)
(* filled up or was restarted before.  No chain runs into another.          *)
DataInPlace ==
    /\ \A e \in Tree \union {handles[h].entry : h \in DOMAIN handles} :
         e.t = "file" /\ e.first # 0 =>
            LET chain == Chain(fat, e.first)
            IN  /\ ClosedChain(fat, e.first)
                /\ Len(chain) >= e.size
                /\ \A k \in 1..e.size : cluster[chain[k]] = DataRow(e.id, k)
    /\ \A d \in {Root} \union {e.first : e \in {x \in Tree : x.t = "dir"}} :
         /\ ClosedChain(fat, d)
         /\ \A c \in Range(Chain(fat, d)), i \in 1..Row : cluster[c][i].t # "data"

(* Between operations both tables on the disk hold the chain of every entry *)
(* on the disk, as memory has it: a restart finds what was written.         *)
TablesFollow ==
    \A e \in Tree \union {Entry("dir", CHOOSE n \in Names : TRUE, Root, 0, 0)} :
       e.first # 0 => /\ Chain(table1, e.first) = Chain(fat, e.first)
                      /\ Chain(table2, e.first) = Chain(fat, e.first)

(* What was written is in place, and a restart finds it there.              *)
FilesKept == DataInPlace /\ TablesFollow

=============================================================================
