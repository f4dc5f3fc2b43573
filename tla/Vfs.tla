--------------------------------- MODULE Vfs ---------------------------------
(* The generic file system (file_systems/vfs/vfs.c, commands.c): the node     *)
(* tree of tmpfs at "/", the one of devfs mounted at "/dev", and the one      *)
(* table of open files that all processes share.  Path strings are sequences  *)
(* of names; what a path's characters matter for is kept in Suffix: the       *)
(* longest mount path is found by comparing characters, so a name that begins *)
(* with "dev" is taken for a path into devfs.  File contents are in Tmpfs.    *)
EXTENDS Integers, Sequences, SequencesExt, FiniteSets

CONSTANTS Names,       \* path components, among them "dev" and Device
          Suffix,      \* names that begin with "dev" -> the rest of their letters
          Device,      \* the name of a device in devfs
          Depth,       \* bound: names in a path
          MaxNodes,    \* bound: nodes ever made
          FileIds,     \* heap slots for fs_file
          FS_MAX_FDS,  \* descriptors are 3 .. FS_MAX_FDS - 1
          Uids         \* user ids, 0 is root

ASSUME VfsAssumption ==
    /\ "dev" \in Names /\ Device \in Names
    /\ DOMAIN Suffix \subseteq Names \ {"dev"}
    /\ \A n \in DOMAIN Suffix : Suffix[n] \in Names
    /\ Depth \in Nat /\ FS_MAX_FDS \in Nat /\ 0 \in Uids
    /\ MaxNodes \in Nat /\ MaxNodes >= 4
    /\ 0 \notin FileIds

Root == 1      \* tmpfs "/"
DevDir == 2    \* the tmpfs directory "/dev" under the mount point
DevRoot == 3   \* devfs root
DevNode == 4   \* a device

None == 0
Fds == 3 .. FS_MAX_FDS - 1
Paths == UNION {[1 .. k -> Names] : k \in 1 .. Depth}

VARIABLES nodes,     \* Seq of [name, type, fs]
          children,  \* per node: its children, newest first
          handle,    \* devfs_data.handle of the device is set
          present,   \* the device's driver can open it (a terminal may be destroyed)
          node,      \* per fs_file: its node, None when the record is free
          fds,       \* per descriptor: fs_file or None
          shared     \* history: the device was opened twice at a time

vars == <<nodes, children, handle, present, node, fds, shared>>

Init ==
    /\ nodes = << [name |-> "/", type |-> "FS_DIR", fs |-> "tmpfs"],
                  [name |-> "dev", type |-> "FS_DIR", fs |-> "tmpfs"],
                  [name |-> "dev", type |-> "FS_DIR", fs |-> "devfs"],
                  [name |-> Device, type |-> "FS_DEV", fs |-> "devfs"] >>
    /\ children = [n \in 1 .. MaxNodes |->
                      IF n = Root THEN <<DevDir>> ELSE IF n = DevRoot THEN <<DevNode>> ELSE <<>>]
    /\ handle = FALSE
    /\ present = TRUE
    /\ node = [f \in FileIds |-> None]
    /\ fds = [d \in Fds |-> None]
    /\ shared = FALSE

-----------------------------------------------------------------------------
(* tmpfs_lookup, devfs_lookup: the first child of that name. *)
HasName(dir, i, name) == nodes[children[dir][i]].name = name

Place(dir, name) == CHOOSE i \in 1 .. Len(children[dir]) :
    HasName(dir, i, name) /\ \A j \in 1 .. i - 1 : ~HasName(dir, j, name)

lookup(dir, name) ==
    IF \/ dir = None \/ nodes[dir].type # "FS_DIR"
       \/ \A i \in 1 .. Len(children[dir]) : ~HasName(dir, i, name)
    THEN None
    ELSE children[dir][Place(dir, name)]

(* find_mnt: the root of the mount and the names that remain. *)
find_mnt(path) ==
    CASE path = <<>> -> [root |-> Root, rel |-> <<>>]
      [] path # <<>> /\ path[1] = "dev" -> [root |-> DevRoot, rel |-> Tail(path)]
      [] path # <<>> /\ path[1] \in DOMAIN Suffix ->
             [root |-> DevRoot, rel |-> <<Suffix[path[1]]>> \o Tail(path)]
      [] OTHER -> [root |-> Root, rel |-> path]

Walk(root, rel) ==
    LET walk[i \in 0 .. Len(rel)] == IF i = 0 THEN root ELSE lookup(walk[i - 1], rel[i])
    IN  walk

fs_resolve(path) ==
    LET m == find_mnt(path)
    IN  Walk(m.root, m.rel)[Len(m.rel)]

Parent(path) == fs_resolve(Front(path))

(* fs_mknode and fs_addchild: the newest child comes first. *)
FaultAdded(dir, name, type) ==
    /\ nodes' = Append(nodes, [name |-> name, type |-> type, fs |-> nodes[dir].fs])
    /\ children' = [children EXCEPT ![dir] = <<Len(nodes) + 1>>]
Added(dir, name, type) ==
    /\ nodes' = Append(nodes, [name |-> name, type |-> type, fs |-> nodes[dir].fs])
    /\ children' = [children EXCEPT ![dir] = <<Len(nodes) + 1>> \o @]

(* The node takes the name as a child: tmpfs_create and tmpfs_mkdir look     *)
(* whether it is a directory, devfs_mkdir_node does not (and it reports an   *)
(* existing name as made).                                                   *)
FaultTakes(dir, name) == nodes[dir].fs = "devfs" \/ nodes[dir].type = "FS_DIR"
Takes(dir, name) ==
    /\ nodes[dir].fs = "devfs" \/ nodes[dir].type = "FS_DIR"
    /\ lookup(dir, name) = None

(* The first child of that name leaves the list; its node is never freed. *)
FaultUnlinked(dir, name) == SelectSeq(children[dir], LAMBDA c : nodes[c].name = name)
Unlinked(dir, name) == RemoveAt(children[dir], Place(dir, name))

(* fs_mkdir; fs_mknode may find no memory. *)
fs_mkdir(path) ==
    LET dir == Parent(path)
        name == Last(path)
    IN  /\ dir # None
        /\ Takes(dir, name)
        /\ Len(nodes) < MaxNodes
        /\ Added(dir, name, "FS_DIR")
        /\ UNCHANGED <<handle, present, node, fds, shared>>

(* fs_unlink, also of a directory that is not empty and of a device. *)
fs_unlink(path) ==
    LET dir == Parent(path)
        name == Last(path)
    IN  /\ dir # None
        /\ lookup(dir, name) # None
        /\ children' = [children EXCEPT ![dir] = Unlinked(dir, name)]
        /\ UNCHANGED <<nodes, handle, present, node, fds, shared>>

-----------------------------------------------------------------------------
(* Whether fs_check_perm lets uid at least open the node so: nodes belong to *)
(* user 0 with modes 0644, 0755 and 0660.                                    *)
fs_check_perm(type, uid, write) ==
    uid = 0 \/ (~write /\ type # "FS_DEV")

FreeFd == {d \in Fds : fds[d] = None}
Lowest(S) == CHOOSE d \in S : \A e \in S : d <= e
fs_alloc_fd == IF FreeFd = {} THEN None ELSE Lowest(FreeFd)

Openers(n) == {f \in FileIds : node[f] = n}

(* ops->open of the node: devfs_open asks the driver for the one handle the  *)
(* device node has, and keeps NULL when it is refused.                       *)
OpenRefused(n) == n = DevNode /\ ~present
FaultHandleAfterOpen(n) == IF n = DevNode THEN present /\ fs_alloc_fd # None ELSE handle
HandleAfterOpen(n) == IF n = DevNode THEN present ELSE handle

(* The tail of fs_open once the node is known: record, driver, descriptor.   *)
(* With no descriptor left the record goes back, the driver stays opened.    *)
Opened(n) ==
    /\ handle' = HandleAfterOpen(n)
    /\ IF OpenRefused(n) \/ fs_alloc_fd = None
       THEN UNCHANGED <<node, fds, shared>>
       ELSE \E f \in FileIds :
              /\ node[f] = None
              /\ node' = [node EXCEPT ![f] = n]
              /\ fds' = [fds EXCEPT ![fs_alloc_fd] = f]
              /\ shared' = IF n = DevNode THEN shared \/ Openers(n) # {} ELSE shared

(* fs_open of a path that resolves. *)
fs_open(path) ==
    LET n == fs_resolve(path)
    IN  /\ n # None
        /\ \E uid \in Uids, write \in BOOLEAN :
              fs_check_perm(nodes[n].type, uid, write) /\ Opened(n)
        /\ UNCHANGED <<nodes, children, present>>

(* fs_open with O_CREAT of a path that does not resolve.  The new file is    *)
(* looked up again by its whole path and opened only when it is found there  *)
(* and uid may; the file stays when not.                                     *)
fs_open_create(path) ==
    LET dir == Parent(path)
    IN  /\ fs_resolve(path) = None
        /\ dir # None
        /\ nodes[dir].fs = "tmpfs"
        /\ Takes(dir, Last(path))
        /\ Len(nodes) < MaxNodes
        /\ Added(dir, Last(path), "FS_FILE")
        /\ UNCHANGED present
        /\ \E uid \in Uids, write \in BOOLEAN :
              IF fs_resolve(path)' # None /\ fs_check_perm("FS_FILE", uid, write)
              THEN Opened(Len(nodes) + 1)
              ELSE UNCHANGED <<handle, node, fds, shared>>

(* fs_close: the driver's handle is dropped whoever else has the device open. *)
FaultClosedRecords(fd) == {}
ClosedRecords(fd) == {fds[fd]}

fs_close(fd) ==
    /\ fds[fd] # None
    /\ handle' = IF node[fds[fd]] = DevNode THEN FALSE ELSE handle
    /\ shared' = IF Openers(DevNode) \subseteq {fds[fd]} THEN FALSE ELSE shared
    /\ node' = [f \in FileIds |-> IF f \in ClosedRecords(fd) THEN None ELSE node[f]]
    /\ fds' = [fds EXCEPT ![fd] = None]
    /\ UNCHANGED <<nodes, children, present>>

(* The driver no longer opens the device: vt_destroy of a terminal. *)
device_gone ==
    /\ present
    /\ present' = FALSE
    /\ UNCHANGED <<nodes, children, handle, node, fds, shared>>

Next ==
    \/ \E path \in Paths :
          \/ fs_mkdir(path)
          \/ fs_unlink(path)
          \/ fs_open(path)
          \/ fs_open_create(path)
    \/ \E fd \in Fds : fs_close(fd)
    \/ device_gone

Spec == Init /\ [][Next]_vars

-----------------------------------------------------------------------------
TypeOK ==
    /\ nodes \in Seq([name : Names \cup {"/"}, type : {"FS_DIR", "FS_FILE", "FS_DEV"},
                      fs : {"tmpfs", "devfs"}])
    /\ Len(nodes) <= MaxNodes
    /\ children \in [1 .. MaxNodes -> Seq(1 .. MaxNodes)]
    /\ handle \in BOOLEAN /\ present \in BOOLEAN /\ shared \in BOOLEAN
    /\ node \in [FileIds -> 0 .. MaxNodes]
    /\ fds \in [Fds -> FileIds \cup {None}]

(* No directory has two children of one name, though a name can be made     *)
(* through a path that does not find it again (the second would be hidden   *)
(* behind the first, and unlink would uncover it).                          *)
NamesUnique == \A d \in {n \in 1 .. Len(nodes) : nodes[n].type = "FS_DIR"} :
    \A i, j \in 1 .. Len(children[d]) :
        nodes[children[d][i]].name = nodes[children[d][j]].name => i = j

(* Open files and descriptors correspond one to one whatever sequence of    *)
(* failing opens and closes: no fs_file record is lost to a failed fs_open, *)
(* none is freed while a descriptor has it, no two descriptors have one.    *)
FilesOwned == \A f \in FileIds :
    Cardinality({d \in Fds : fds[d] = f}) = IF node[f] = None THEN 0 ELSE 1

(* A device opened by one descriptor at a time keeps the driver's handle    *)
(* until that descriptor closes, also when others fail to open it for want  *)
(* of a descriptor.  (A second opener breaks it: devfs has one handle per   *)
(* device, and the first close drops it.)                                   *)
HandleKept == present /\ ~shared /\ Openers(DevNode) # {} => handle

(* The tree, the records and the driver's handle stay sound together.        *)
RecordsSound == NamesUnique /\ FilesOwned /\ HandleKept

(* Through mounts, creations and removals in any order the resolvable paths *)
(* are those of Namespace: what was made and not removed.  Left out are the *)
(* paths that begin with the letters of the mount point: they name a file   *)
(* of tmpfs to fs_mkdir and fs_unlink and one of devfs to fs_resolve.       *)
Plain == {p \in Paths : p[1] \notin DOMAIN Suffix}
Naming == INSTANCE Namespace WITH
    Paths <- Plain, exists <- {p \in Plain : fs_resolve(p) # None}
ImplementsNames == Naming!NamesSpec
=============================================================================
