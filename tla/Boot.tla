-------------------------------- MODULE Boot --------------------------------
(***************************************************************************)
(* The start of the system after memory is up (kernel.c, vfs_init.c,       *)
(* kernel_processes/initrd, packages/cpio, user/users.c, config/           *)
(* user_config.c, module/module.c, devfs.c): the file systems are mounted, *)
(* the two archives the boot loader hands over become the tree, the user   *)
(* table is read from it, the device modules register, /dev gets a node    *)
(* for each, and the first program is started.  Terminals created later    *)
(* register modules too (vt.c).                                            *)
(*                                                                         *)
(* A path is a sequence of names.  The data of a file is a name for its    *)
(* contents; UserLines and IniSections say what the two parsers read out   *)
(* of contents.  What the boot loader hands over, and which devices        *)
(* answer, is chosen once, in BootInit.                                    *)
(***************************************************************************)
EXTENDS Integers, Sequences, SequencesExt, FiniteSets, Functions

CONSTANTS
    Archives,       \* the initrd.cpio there may be: sequences of [kind, name, data]
    HomeArchives,   \* the initrdh.cpio there may be
    MaxStaged,      \* CPIO_MAX_ENTRIES
    UserLines,      \* UserLines[d]: the lines of contents d, [name, uid, home] or [name |-> ""]
    IniSections,    \* IniSections[d]: the sections of contents d, [user, permissions]
    MaxUsers,       \* USERS_MAX
    DeviceModules,  \* the modules kernel.c registers, in order: [name, mount]
    MaxModules,     \* MAX_MODULES
    MaxTerminals    \* bound: terminals created after boot

VARIABLES
    given,      \* the archives handed over: [initrd, initrdh], <<>> for a missing one
    answers,    \* the modules whose device answers to init
    stage,      \* how far _start is
    tree,       \* tree[path]: [kind, data]
    transform,  \* _t_to: the name "user_id" stands for, "" before it is set
    users,      \* user_table
    owner,      \* current_config.user_name
    loaded,     \* what initrd_load returned
    modules,    \* the registry
    kprocs,     \* the kernel process table
    procs,      \* names of the processes created
    terminals   \* terminals created

bootVars == <<given, answers, stage, tree, transform, users, owner, loaded, modules, kprocs, procs, terminals>>

Dir == [kind |-> "dir", data |-> ""]
NewFile == [kind |-> "file", data |-> ""]
At(t, p) == IF p = <<>> THEN "dir" ELSE IF p \in DOMAIN t THEN t[p].kind ELSE "none"
With(t, p, n) == [q \in DOMAIN t \cup {p} |-> IF q = p THEN n ELSE t[q]]

(* Mounts: /dev makes directories and no files, /proc and /sys neither.      *)
NoFiles(p) == p # <<>> /\ Head(p) \in {"dev", "proc", "sys"}
NoDirs(p) == p # <<>> /\ Head(p) \in {"proc", "sys"}

fs_mkdir(t, p) ==
    IF p # <<>> /\ At(t, p) = "none" /\ At(t, Front(p)) = "dir" /\ ~NoDirs(Front(p))
    THEN With(t, p, Dir) ELSE t

open_create(t, p) ==
    IF p # <<>> /\ At(t, p) = "none" /\ At(t, Front(p)) = "dir" /\ ~NoFiles(Front(p))
    THEN With(t, p, NewFile) ELSE t

Filled(t, p, data) == IF p \in DOMAIN t THEN [t EXCEPT ![p].data = data] ELSE t

-----------------------------------------------------------------------------
(* cpio.c.  "bad" is a header that does not parse, "other" a device or a    *)
(* socket, <<>> the name ".".                                                *)
Taken(e) == e.name # <<>> /\ e.kind \in {"dir", "file"}

make_path(base, name) ==
    base \o (IF transform # "" /\ Head(name) = "user_id" THEN <<transform>> \o Tail(name) ELSE name)

Readable(a) ==
    \A i \in DOMAIN a :
        a[i].kind = "bad" => Len(SelectSeq(SubSeq(a, 1, i - 1), Taken)) >= MaxStaged

Staged(a) == LET s == SelectSeq(a, Taken) IN SubSeq(s, 1, IF Len(s) < MaxStaged THEN Len(s) ELSE MaxStaged)

(* A file is created if need be; data of its own takes the place of what    *)
(* an earlier entry left, no data leaves it.                                *)
PutFile(t, p, data) ==
    LET made == open_create(t, p)
    IN IF data = "" THEN made ELSE Filled(made, p, data)

(* The archive stays one pass: an entry is made when it is met.             *)
FaultExtracted(t, a, base) ==
    FoldLeft(LAMBDA u, e : IF e.kind = "dir" THEN fs_mkdir(u, make_path(base, e.name))
                           ELSE PutFile(u, make_path(base, e.name), e.data), t, Staged(a))

(* All directories first, then all files.                                   *)
Extracted(t, a, base) ==
    LET IsDir(e) == e.kind = "dir"
        IsFile(e) == e.kind = "file"
        dirs == FoldLeft(LAMBDA u, e : fs_mkdir(u, make_path(base, e.name)), t, SelectSeq(Staged(a), IsDir))
    IN FoldLeft(LAMBDA u, e : PutFile(u, make_path(base, e.name), e.data), dirs, SelectSeq(Staged(a), IsFile))

-----------------------------------------------------------------------------
(* users.c                                                                  *)
Contents(t, p) == IF At(t, p) = "file" THEN t[p].data ELSE ""

users_load(t) ==
    LET d == Contents(t, <<"emr", "users">>)
        Entry(l) == l.name # ""
        lines == IF d \in DOMAIN UserLines THEN SelectSeq(UserLines[d], Entry) ELSE <<>>
    IN SubSeq(lines, 1, IF Len(lines) < MaxUsers THEN Len(lines) ELSE MaxUsers)

Regular(u) == u.uid # 0
users_get_first_regular(us) ==
    LET r == SelectSeq(us, Regular) IN IF r = <<>> THEN "pc" ELSE Head(r).name

users_setup_homes(t, us) ==
    FoldLeft(LAMBDA u, w : fs_mkdir(u, w.home),
             fs_mkdir(fs_mkdir(t, <<"root">>), <<"home">>), SelectSeq(us, Regular))

-----------------------------------------------------------------------------
(* _start, step by step.                                                    *)
Reached(s) == stage = s

fs_system_init ==
    /\ Reached("memory") /\ stage' = "archives"
    /\ tree' = FoldLeft(fs_mkdir, tree,
                        <<<<"boot">>, <<"dev">>, <<"tmp">>, <<"proc">>, <<"sys">>, <<"emr">>, <<"emr", "system">>>>)
    /\ UNCHANGED <<given, answers, transform, users, owner, loaded, modules, kprocs, procs, terminals>>

(* initrd_load gives up without a readable initrd.cpio.                     *)
initrd_missing ==
    /\ Reached("archives") /\ stage' = "modules"
    /\ given.initrd = <<>> \/ ~Readable(given.initrd)
    /\ loaded' = -1
    /\ UNCHANGED <<given, answers, tree, transform, users, owner, modules, kprocs, procs, terminals>>

initrd_root ==
    /\ Reached("archives") /\ stage' = "home"
    /\ given.initrd # <<>> /\ Readable(given.initrd)
    /\ tree' = Extracted(tree, given.initrd, <<>>)
    /\ users' = users_load(tree')
    /\ transform' = users_get_first_regular(users')
    /\ UNCHANGED <<given, answers, owner, loaded, modules, kprocs, procs, terminals>>

(* An unreadable initrdh.cpio returns before the homes are made.            *)
initrd_home ==
    /\ Reached("home") /\ stage' = "modules"
    /\ IF Readable(given.initrdh)
       THEN /\ tree' = users_setup_homes(Extracted(tree, given.initrdh, <<"home">>), users)
            /\ loaded' = 0
       ELSE /\ loaded' = -1
            /\ UNCHANGED tree
    /\ UNCHANGED <<given, answers, transform, users, owner, modules, kprocs, procs, terminals>>

-----------------------------------------------------------------------------
(* module.c, devfs.c, vt.c.                                                 *)
FaultModuleRegister(reg, m) == IF Len(reg) < MaxModules THEN Append(reg, m) ELSE reg

(* A module twice, one too many, or one whose device does not answer is     *)
(* left out.                                                                *)
module_register(reg, m) ==
    IF Len(reg) < MaxModules /\ ~Contains(reg, m) /\ m.name \in answers THEN Append(reg, m) ELSE reg

register_modules ==
    /\ Reached("modules") /\ stage' = "devices"
    /\ modules' = FoldLeft(module_register, <<>>, DeviceModules)
    /\ UNCHANGED <<given, answers, tree, transform, users, owner, loaded, kprocs, procs, terminals>>

(* devfs_register_device makes the directory in between, and refuses a      *)
(* name that is taken.                                                      *)
devfs_register_device(t, m) ==
    LET made == fs_mkdir(t, Front(m.mount))
    IN IF At(made, m.mount) = "none"
       THEN With(made, m.mount, [kind |-> "device", data |-> m.name]) ELSE made

InDev(m) == Len(m.mount) > 1 /\ Head(m.mount) = "dev"

fs_register_mods ==
    /\ Reached("devices") /\ stage' = "config"
    /\ tree' = FoldLeft(devfs_register_device, tree, SelectSeq(modules, InDev))
    /\ UNCHANGED <<given, answers, transform, users, owner, loaded, modules, kprocs, procs, terminals>>

vt_create ==
    /\ Reached("user") /\ terminals < MaxTerminals
    /\ LET id == ToString(terminals)
           Of(name) == [name |-> name, mount |-> <<"dev", "vt", id, name>>]
       IN modules' = FoldLeft(LAMBDA reg, m : IF Len(reg) < MaxModules THEN Append(reg, m) ELSE reg,
                              modules, <<Of("input"), Of("output")>>)
    /\ terminals' = terminals + 1
    /\ UNCHANGED <<given, answers, stage, tree, transform, users, owner, loaded, kprocs, procs>>

-----------------------------------------------------------------------------
(* user_config.c: the last section of users.ini that a user or a guest has  *)
(* names the owner, and user.emcg is written over.                          *)
uci_load_users_ini(t) ==
    LET d == Contents(t, <<"emr", "config", "users.ini">>)
        Named(s) == s.permissions \in {"user", "guest"}
        found == IF d \in DOMAIN IniSections THEN SelectSeq(IniSections[d], Named) ELSE <<>>
    IN IF found = <<>> THEN owner ELSE Last(found).user

uci ==
    /\ Reached("config") /\ stage' = "kproc"
    /\ owner' = uci_load_users_ini(tree)
    /\ tree' = PutFile(PutFile(tree, <<"tmp", "t">>, "test"), <<"emr", "config", "user.emcg">>, "config")
    /\ UNCHANGED <<given, answers, transform, users, loaded, modules, kprocs, procs, terminals>>

(* kproc, called by _start and again when its own kernel process starts.    *)
kproc(names) == names \o <<"kernel", "__rt">>

kernel_processes ==
    /\ Reached("kproc") /\ stage' = "uproc"
    /\ kprocs' = Append(kprocs, [name |-> "kproc_kernel", state |-> "running"])
    /\ procs' = kproc(kproc(procs))
    /\ UNCHANGED <<given, answers, tree, transform, users, owner, loaded, modules, terminals>>

(* uproc: without system.elf, or with contents that are no program, _start  *)
(* halts.                                                                   *)
System == <<"emr", "system", "system.elf">>
uproc ==
    /\ Reached("uproc")
    /\ stage' = IF Contents(tree, System) = "elf" THEN "user" ELSE "halted"
    /\ procs' = IF System \in DOMAIN tree THEN Append(procs, "system") ELSE procs
    /\ UNCHANGED <<given, answers, tree, transform, users, owner, loaded, modules, kprocs, terminals>>

BootInit ==
    /\ given \in [initrd : Archives \cup {<<>>}, initrdh : HomeArchives \cup {<<>>}]
    /\ answers \in SUBSET {DeviceModules[i].name : i \in DOMAIN DeviceModules}
    /\ stage = "memory"
    /\ tree = [p \in {} |-> Dir]
    /\ transform = "" /\ owner = "user" /\ loaded = 0
    /\ users = <<>> /\ modules = <<>> /\ procs = <<>> /\ terminals = 0
    /\ kprocs = <<[name |-> "bootscreen", state |-> "running"]>>

BootNext ==
    \/ fs_system_init \/ initrd_missing \/ initrd_root \/ initrd_home
    \/ register_modules \/ fs_register_mods \/ vt_create
    \/ uci \/ kernel_processes \/ uproc

BootSpec == BootInit /\ [][BootNext]_bootVars

-----------------------------------------------------------------------------
(* Where an archive's entry belongs, said without the extraction: under its *)
(* base, with the owner's name for user_id in the home archive only.        *)
Place(base, e) ==
    IF base # <<>> /\ Head(e.name) = "user_id"
    THEN base \o <<users_get_first_regular(users)>> \o Tail(e.name) ELSE base \o e.name

(* The directories above entry i are in the archive, each after its own     *)
(* parent; /home comes with the root archive.                               *)
Reachable(a, base, i) ==
    LET dirs == {j \in DOMAIN a : a[j].kind = "dir" /\ Taken(a[j])}
        Above(p) == {SubSeq(p, 1, n) : n \in Len(base) + 1 .. Len(p) - 1}
        There(p) == \E j \in dirs : Place(base, a[j]) = p /\ \A q \in Above(p) :
                        \E k \in dirs : k < j /\ Place(base, a[k]) = q
    IN /\ base # <<>> => \E k \in DOMAIN given.initrd : given.initrd[k].kind = "dir" /\ given.initrd[k].name = base
       /\ \A p \in Above(Place(base, a[i])) : There(p)

Landed(a, base) ==
    \A i \in DOMAIN a :
        (/\ a[i].kind = "file" /\ Taken(a[i]) /\ Reachable(a, base, i)
         /\ ~\E k \in DOMAIN a : a[k].kind = "dir" /\ Taken(a[k]) /\ Place(base, a[k]) = Place(base, a[i]))
        => LET same == {k \in DOMAIN a : a[k].kind = "file" /\ Taken(a[k]) /\ Place(base, a[k]) = Place(base, a[i])}
               full == {k \in same : a[k].data # ""}
           IN /\ At(tree, Place(base, a[i])) = "file"
              /\ full # {} => tree[Place(base, a[i])].data
                                = a[CHOOSE k \in full : \A l \in full : l <= k].data

(* Once both archives are read, every file of theirs whose directories the  *)
(* archive lists parents first is in the tree, wherever it stands relative  *)
(* to them, with the data of the last entry that has any; and the files     *)
(* under user_id in the home archive are in the directory of the first      *)
(* regular user of the table that came with the other (initrd_load,         *)
(* cpio_extract_to_vfs, make_path).                                         *)
ArchiveExtracted ==
    stage = "modules" /\ loaded = 0 /\ MaxStaged >= Len(given.initrd) + Len(given.initrdh)
    => Landed(given.initrd, <<>>) /\ Landed(given.initrdh, <<"home">>)

(* The nodes of /dev are the modules kernel.c registers whose device        *)
(* answered, the first of each path, as long as the registry had room: a    *)
(* device that did not answer has none, and neither has a terminal created  *)
(* later (module_register, fs_register_mods, devfs_register_device; vt.c's  *)
(* vt_create).                                                              *)
NodesAnswer ==
    stage \notin {"memory", "archives", "home", "modules", "devices"} =>
        /\ \A p \in DOMAIN tree : tree[p].kind = "device" =>
              /\ tree[p].data \in answers
              /\ \E i \in DOMAIN DeviceModules : DeviceModules[i] = [name |-> tree[p].data, mount |-> p]
        /\ \A i \in DOMAIN DeviceModules :
              DeviceModules[i].name \in answers /\ Len(DeviceModules) <= MaxModules
              => At(tree, DeviceModules[i].mount) = "device"

(* The tree holds the archives, and /dev the devices that answered.         *)
BootSound == ArchiveExtracted /\ NodesAnswer

=============================================================================
