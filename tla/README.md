# emexOS in TLA+

emexOS is an x86_64 hobby operating system: a limine-booted C kernel (`src/emex/`), a small libc and
a set of graphical and console programs (`src/user/`). This directory is its verification project:
TLA+ modules translated from the source, TLC configurations that check them on small instances,
and TLAPS proofs of what must hold for every value of the constants. Paths in this file are below
`src/emex/kernel/` unless they start with `src/`.

## 1. Inventory

One processor runs everything. System calls run with interrupts masked (`SFMASK` = 0x200 in the set-up
of SYSCALL), and `mt_preempt` returns at once when the timer finds the kernel running
(multitasking.c:199-207), so the kernel is preempted nowhere; it only listens to interrupts inside
`vt_input_read`, which executes `sti; hlt`. Interleavings therefore come from timer interrupts in
user mode (so between any two system calls of two programs), from system calls that switch to another
process (execve, waitpid, exit), from devices that work beside the processor (sound controller, network
card, keyboard and mouse), and from choices of the hardware (transfers that fail). The running system
mounts no disk: its files live in memory and start from the boot archive, and what FAT32 keeps on a disk
is read again only by the next mount.

| component | source | state | operations | interacts with | correct when |
|---|---|---|---|---|---|
| physical memory | `mem/phys/physmem.c` | bitmap, page-frame table | init from the memory map, alloc, free | paging, processes, shared memory, drivers | no frame is handed out twice, both tables agree |
| kernel heap, klime | `mem/heap`, `mem/klime` | block list, byte count | malloc, free, merge | IPC, task stacks, files | the list tiles the heap, frees coalesce, the count covers the use |
| paging | `mem/paging` | four-level tables | map, unmap, a PML4 per process | physical memory, processes | an address leads where it was mapped last; the kernel half is the kernel's |
| memory of processes | `user/ulime.c`, `packages/elf/loader.c`, `user/syscalls.c` | records, frames, mappings | create, load, fork, exit | paging, physical memory | a living process reaches its own frames only; no frame is forgotten |
| multitasking, scheduler | `multitasking`, `proc`, `user/syscalls.c` | task table, states, blocked callers | fork, execve, waitpid, exit, timer | all system calls, messages | one process runs, each waiter is woken by its exit only, no ready one starves |
| IPC | `ipc/messages.c`, `ipc/shared_memory.c` | inboxes; segments and counts | open, send, receive; create, attach, detach | process states, heap, frames | FIFO, nothing lost or leaked; counts are mappings |
| VFS, devfs, tmpfs | `file_systems/vfs` | tree, mounts, descriptors, buffers, device handles | mkdir, open, read, write, seek, unlink, close | everything | paths name what was made; reads return what was written |
| procfs, sysfs | `file_systems/vfs/{procfs,sysfs}` | nodes made by lookups | lookup, list, open, read | process list, heap | what is listed is found, a text is of one moment |
| virtual terminals | `devices/vt` | rings, focus | create, destroy, focus, read, write | terminal window, standard input | keys reach their terminal in order, reads end |
| disks, FAT32, partitions | `drivers/storage`, `file_systems/fat32`, `interface` | sectors; table in memory and twice on disk | transfers, format, mount, create, write | PCI ports | what was written is found at the next mount, inside the partition |
| network, sound, PS/2, ACPI, screens | `drivers`, `net`, `arch/x86_64/acpi`, `bootscreen`, `devices` | rings, tables, buffers | interrupt handlers, device files | the hardware | what goes in at one end comes out at the other, in order and once |
| boot | `kernel.c`, `initrd`, `packages/cpio`, `user/users.c`, `module` | tree, users, module registry | mount, extract, register | VFS, all drivers | the archive is the tree, each device that answers has its node |
| first program, login, shell | `src/user/apps/{system,login,shell}` | script, branches, jobs, tries | parse, run, wait | fork, execve, waitpid | the file is obeyed in order |
| desktop and its files | `src/user/apps/desktop`, `src/user/libs/{libdesktop,wm}` | windows, order, focus, screen; shared files | commands, mouse, repaint | programs through files | focus is on an open window, the screen is what the tables say, commands arrive once |
| terminal window | `src/user/apps/terminal` | ring of rows, line, device | keys, commands, output | virtual terminals | the text is what was typed and printed |
| C library | `src/user/libc`, `graph/lib`, `communication/serial.c` | stream flags | stdio, printf, strtol, strtok, qsort | system calls | streams follow the file, conversions are C's |

`PROJECT.json` lists all components with their files, and under `hazards` what is hard to test, each at its line.

## 2. Modules

| module | models | abstract specification or composition |
|---|---|---|
| `FrameAllocator`, `Physmem` | physmem.c | `Physmem` implements `FrameAllocator`: runs of frames nobody else holds, a refusal only if none is free |
| `Heap` | heap.c, klime.c | |
| `Paging` | paging.c, paging_proc.c | tables from frames; what a page leads to is compared with a plain map |
| `ProcessMemory` | ulime.c, proc_manager.c, loader.c, fork, execve, exit | |
| `SharedMemory` | shared_memory.c, shm.c | |
| `ProcessLife`, `Multitask` | multitasking.c, scheduler.c, the process calls | `Multitask` implements `ProcessLife`: fork, execve, waitpid, exit as programs see them |
| `Messages` | messages.c, mq.c | extends `Multitask`: messages meet waiting processes |
| `Namespace`, `Vfs` | vfs.c, commands.c, devfs.c, directories of tmpfs.c | `Vfs` implements `Namespace`: a set of paths closed under parents |
| `FileContents`, `MemLib`, `Tmpfs` | mem.c's memcpy; contents in tmpfs.c, lseek | `Tmpfs` (over `MemLib`) implements `FileContents`: files as byte sequences; `Disk`, `Screen`, `SharedFiles`, `Startup` and `Stdio` copy by `MemLib` too |
| `ProcFs` | procfs, sysfs, getdents and chdir, ps | extends `Format` |
| `VtRing`, `VirtualTerminals` | vt.c, read of descriptor 0 | rings instantiated by the terminals |
| `Disk`, `Fat32`, `Volume` | ata, ide, ahci, hdd0; fat32; mbr, partition, format, mount | |
| `Network`, `Sound`, `Ps2Input`, `Acpi`, `Screen` | e1000, eth0, eth, arp; ac97, audio0, wav; keyboard, mouse; acpi.c; boot screens, log, panic, fb0 | each with its hardware as actions of its own |
| `Boot` | kernel.c's start, initrd, cpio, users, module registry, kernel processes | |
| `Startup` | emxrc, login, shell | jobs end and wake as `ProcessLife` says |
| `Desktop`, `SharedFiles` | the desktop's frame; the files between desktop and programs | |
| `Terminal` | terminal.c, its device, write to standard output | |
| `Format`, `Stdio` | conversions of libc and kernel; streams, cat | `Stdio` extends `Format` |
| `SetLemmas` | least elements, ranks and cardinalities, cited by the proofs | |
| `MemoryProofs` | theorems about `Physmem`, `ProcessMemory`, `SharedMemory` and `Paging` | extends the four and `SetLemmas` |
| `MultitaskProofs` | theorems about the scheduler, and about the messages on top of it | extends `Messages`, which extends `Multitask` |
| `PeripheryProofs` | theorems about `Network`, `SharedFiles`, `Volume` and `Desktop` | extends the four |
| `DeviceProofs` | theorems about `VirtualTerminals`, `Sound` and `Ps2Input` | extends the three |
| `HeapProofs`, `VfsProofs`, `TmpfsProofs` | theorems | extend their components |
| `MCKernel`, `MCVfs`, `MCTmpfs`, `MCStorage`, `MCDevices`, `MCUser` | instances for TLC | what a theorem is about is extended, so that a run checks the definition that is proved: `MCKernel` extends `Physmem`, `Heap`, `SharedMemory`, `Paging`, `ProcessMemory`, `Messages`, `MCStorage` `Tmpfs` and `Volume`, `MCDevices` `VirtualTerminals`, `Network`, `Sound` and `Ps2Input`, `MCUser` `Desktop` and `SharedFiles`; the other modules are instantiated |

Operators named `Fault...` are seeded faults. No specification uses them; each may replace the
operator it stands next to, and shows that a property notices.

How state and actions correspond to the code:

**Physmem.** `bitmap` is the set of frames whose bit is 1, `pageframes` the reference counts and flags, `total`
is `physmem_total`. One action per result of `physmem_alloc_to` (first fit from frame 512, or 0) and
`physmem_free_to`. `held` is not in the code: the runs callers own, which they give back as they got
them, because `physmem_free_to` checks nothing.
A frame in a hole of the memory map keeps the bit the first memset gave it and a record nobody wrote (`FrameUntouched`).

**Multitask.** `tasks`, `current_idx`, `ticks` are the task table, its index and the quantum; `state` the process states;
`blocked_list` the saved callers of execve and waitpid; `proc_curr` is `ptr_proc_curr`, `cpu` the process whose
page table is in CR3. `cont` says where a process's registers are: on the processor, in `user_ctx` after a
timer interrupt (`trap`), there as fork or execve left them (`call`), in `blocked_list`, or lost. `mode` is `halt` in the
`hlt` loop nobody can leave. A call is one step: interrupts are masked. `kids` lets programs wait for
their own children only; with `WaitAnyPid` they may wait for any pid, which can deadlock them.
**Messages** adds inboxes to the same state; a blocking call on a full or empty inbox makes `mode` `spin`.

**ProcessMemory.** A record keeps the first frame of code, heap, stack, PML4 and tables, and where it goes on
(`rip`, `rsp`); `table` maps pages to frames. `Obtained` is `ulime_proc_mmap` with memory running out at each
of its steps. `kproc` makes the four kernel processes that take the first pages, so no program
is loaded where it is linked. Who runs when is left to `Multitask`: any living process may call.

**Paging.** A page is the sequence of its indices; an entry leads to a table or a page and carries the user bit. Tables
are made on the way from frames that run out (panic): `Level` is one of the code's level blocks, `Walked` all of them.
`asked` and `inherited` record what was asked for.

**Heap, SharedMemory.** Headers by address with size, used, next, prev; segments with counts, frames and the pages each
process maps. `used_heap` is klime's count and drifts; `klime_get_free_size` is its difference to the heap in u64.
`shm_detach` and `shm_detach_all` have no caller; `Detaching` switches them on.

**Vfs, Tmpfs.** Nodes in the order they were made, records and the one descriptor table, one handle per device. Paths are
sequences of names; `Suffix` keeps the one thing their letters matter for (a name that begins with
`dev`). In `Tmpfs` a write that needs a larger buffer, or the first write to an archived file, allocates,
copies, frees and stores, and each allocation may fail. `Copied(d, n)` is the number of bytes mem.c:46-63
writes to a destination `d` bytes past an aligned one; `spilt` counts bytes behind a buffer.

**ProcFs.** Lookups make nodes out of `room` bytes of heap and never give them back; `ps` opens, lists, and reads
file by file while processes are created and change state between any two of its calls.

**VirtualTerminals.** A process reading descriptor 0 waits in the kernel (`reading`) and nobody else gets the
processor. Bytes carry the terminal they were written for.

**Disk, Fat32, Volume.** A transfer may fail after any sector, and the bytes of a part of a sector go through `MemLib`. `Fat32` keeps `fat` in memory and `table1`, `table2` on the disk; an operation
is one action with its flush, and `fat32_init` may come at any time between. `Volume` uses the code's
arithmetic at its real widths on drives from 2 MiB to 64 GiB.

**Network, Sound, Ps2Input.** The device takes steps of its own between any two of the code: descriptors filled and sent,
buffers played, bytes on the wire. Histories (`heard`, `posted`, `taken`, `played`, `seen`) say what went through.

**Acpi.** AML is a sequence of terms; the tables found, the namespace and the values written to I/O and memory
cells are state.

**Screen.** Four screens with pixels, region, cursor and dirty rows, the log, and the framebuffer
that keeps what nobody repaints; `said` is what was printed. `behind` are the pixels a write to `/dev/fb0` from the middle of
a row stored and did not show.

**Boot.** One action per stage of `kernel.c` up to the first program, over archives, user files and devices that answer
or not; then terminals created later. **Startup.** A job is a child that execs, waits for its program and exits;
init, the login and the shell interleave with them. The parser's
limits are kept: the array that `else` and `endif` may write behind, and the depth of `if_stack`. Without a script (`Default`)
init starts the login window only. The lines of login's log are written one after the other by `MemLib`. **Desktop.** Phases of one frame (commands, events,
refresh, paint). **SharedFiles.** Each program and the desktop are interrupted between reading a file and writing it
back. The command file is its bytes, as memcpy stores them: a line is a letter for each of its characters and a newline, and
a NUL left by a short copy ends what the desktop reads. The registry is its lines, of which claim_slot reads `RegMax`;
programs end and start again. **Terminal**, **Stdio**, **Format** follow the functions by name.

## 3. Runs

Components that do not call each other are checked side by side in one module: the variable `part` says which of
them a behaviour is about, and the others stay as they start. The next-state relation is the sum, so each
part is explored exhaustively within its bounds.

| run | instance | shows |
|---|---|---|
| `multitask` | pids 1-5, 4 task slots | `OneRunning`, `NoLostWakeup`, `HaltsOnlyWhenDone` while the table has room; `EntriesAreBlocked`, `ReadyEventuallyRuns` and `ProcessLife` beyond it too |
| `kernel` | 10 frames and three memory maps, one with a hole; a heap of about five blocks with real headers; 2 segments of up to 3 pages over 3 frames; 3 levels of tables over 6 frames; 43 frames for the kernel processes and up to five more with forks of forks; inboxes of 2 | `HeldRunsDisjoint`, `FrameAllocator`; `HeapConsistent`; `RegionsSound`; `TablesSound`; `LiveMappingsOwned`, `EveryFrameAccounted`; `InboxesKept` |
| `vfs` | names `dev`, `devx`, `x`, paths of up to 2, 2 nodes more than at boot, 2 records, 2 descriptors, users 0 and 1 | `Namespace` for paths that do not start with the letters of the mount point; names unique, records and descriptors one to one, the handle of a device opened once |
| `storage` | 2 files over 2 buffers with pages of 2 bytes; 5 clusters, 3 names of which two share an 8.3 form; five drive sizes; a drive of 2 sectors of 4 bytes and words of 2, ranges within a sector, over two and beyond the last, at both kinds of offsets, ports on 2 functions | `FileContents`, `FilesSound`; `FilesKept`; `ClustersInsidePartition`; `HdaExact` |
| `devices` | 2 processes and 2 terminals with a ring of one event and a half; keys, shift and a two-byte key with rings of 2 and 3; 3 receive and 2 transmit descriptors; 3 sound buffers, 2 players; 145 firmwares; a screen of 8 by 12, written in pieces of 4 and 16 pixels, so that one begins in the middle of a row | `KeysStay`, `BytesInOrder`; `KeysFollow`, `ButtonsFollow`; `FramesInOrder`; `SoundInOrder`, `WaveWhole`; `PowerSound`; `ScreenShows` |
| `user` | 2 windows, two commands and two mouse events in a frame; 2 programs, a command file of 5 bytes and a registry of 3 entries for one read, words of two bytes, lines of 2 and 3; start-up files, among them the image's, none, ifs nested deeper than `if_stack` and an array that is full; a terminal of 3 rows; 2 streams; 2 processes under /proc with heaps that run out anywhere; archives of up to 3 entries | `FocusSound`, `ScreenFollows`; `Relayed`, `SlotsDistinct`; `StartupSound`; `TerminalShows`; `StreamsSound`, `ConversionsExact`; `ProcSound`; `BootSound` |
| `registers_dropped` | 3 processes | expected violation, finding 1 |
| `message_wakes_waiter` | 3 processes | expected violation, finding 2 |
| `vt_read_returns` | 1 terminal, 2 processes | expected violation, finding 3 |
| `memcpy_unaligned` | as `storage`, any alignment | expected violation, finding 4 |
| `fork_addresses` | the four kernel processes and five more | expected violation, finding 5 |
| `output_shown` | the `user` instance | expected violation, finding 6 |

**Why the bounds are enough.** Each instance is the smallest found in which every guard and every branch of its
actions occurs. Five processes give a chain of waiters with siblings beside it, an exit from the middle of
`blocked_list`, and a process that finds the task table full. Three memory maps give each choice of the tracking
area; ten frames hold a free run between two used ones of different lengths. Five heap blocks give every
combination of free neighbours. With 43 frames creations run out at the stack, the code, the heap and the tables and
lose what they took, and forks of forks happen. Rings that hold two or three entries wrap and are full
within four steps. A file of three bytes over pages of two is grown once and promoted once, with another descriptor behind, at and before
the end. Lines of two and three bytes over words of two meet memcpy at both kinds of positions, and the fifth claim finds a
registry longer than what it reads. Lengths that only scale (page 4096, table 512, ring
4096) are constants; the theorems cover every value of them where they exist. Bounds that exist for TLC
only are marked `bound` where they are declared (`MaxProcs`, `MaxIds`, `MaxFrames`, `MaxSends`, `MaxKeys`, ...).

**What properties leave out on purpose.** `Relayed` and `SlotsDistinct` are stated for programs that do not interrupt each other inside
one append or claim (`raced`, `claimRaced` remember when they did): overlapping ones do lose commands and share slots.
A command line that memcpy cut, because the file did not end at a whole
word, ends what `Relayed` says (`torn`); `SlotsDistinct` goes as far as the registry fits what `claim_slot` reads. `HdaExact` is
exact for writes that begin at a multiple of 8 and for reads that do or stay in one sector; elsewhere it says which sectors are
not touched. `StreamsSound` follows a stream while memcpy has stored all of its writes (`Whole`, `cat.whole`), `StartupSound`
lines of the log that it stored whole, names and passwords that leave room in their buffers, and ifs that fit `if_stack`.
`HeapConsistent` bounds klime's free size until the count has passed the heap. `ScreenShows` leaves out the pixels
`behind`. `ProcSound` says of ps which pids it prints: their state and name are never printed. `ImplementsNames` leaves out paths whose first name begins with the letters of a mount point. `RecordsSound` keeps a device's
handle for one opener at a time. `PsComplete` (part of `ProcSound`) assumes memory and a listing of at most 64 entries. Each exception is a limit of
the code, listed in section 4.

**The view of `user`.** Once a frame gave up more places than the desktop can clear (`crowded`), neither a property nor a
guard of Desktop looks at the framebuffer or at what the cursor stands on, so `UserView` counts states that differ only there once.

**Deadlock** checking is off where the system really stops: everybody dead, machine switched off or panicked, a read that waits for
ever, all ids used.

**Fairness.** `Multitask` assumes weak fairness of `timer_handler` only: the timer chip is periodic and interrupts are
enabled in user mode, so a processor in user mode is interrupted again. No program is obliged to make a
system call. `VirtualTerminals!FairSpec`, used for finding 3 only, is generous on purpose: keys arrive, every
process is scheduled whenever the processor can be had, and `hlt` ends. The read hangs even so.

## 4. Findings

1. **Registers dropped** (`user/syscalls.c:238`). The timer saves all registers of a process; when exit or waitpid
   hands the processor to it, `resume_parent_sysret` restores the few a system call preserves and zeroes
   rax, rdi, rsi, rdx, r8-r10. The interrupted program goes on with other values.
2. **A message wakes a waiter** (`ipc/messages.c:136`). `send_msg` makes any BLOCKED receiver READY, also one that waits in
   execve or waitpid. The scheduler then resumes it from its slot, against scheduler.c:87-92, and its entry stays in
   `blocked_list`.
3. **A read of standard input never returns** (`devices/vt/vt.c:370`). It waits in the kernel, which is not
   preempted, for an event only another process can write.
4. **memcpy is wrong for unaligned destinations** (`mem/lib/mem.c:55`). After the bytes up to alignment the word
   loop starts at the first byte again, and the tail is computed from the shortened n. A write at a
   position that is not a multiple of 8 may lose its tail or overrun the buffer by up to 7 bytes. It reaches all who write
   behind something: parts of sectors (hdd0.c:73, 103), the log of the boot screen, the command file (libdesktop.c:72),
   streams and cat, login's log (login.c:178).
5. **A fork of a fork has no stack** (`user/syscalls.c:648`). Fork maps the heap and stack of its caller's own record into the
   child. A caller that was forked itself runs on the addresses of its parent, which its own child does not get.
6. **A command's output never reaches its window** (`src/user/apps/terminal/terminal.c:313`). The call that binds the terminal has no entry
   in the system call table and the device it would read from has no node.

Limits met while modelling that no document of the repository contradicts:

- Processes: a caller blocked with `blocked_list` full is never woken; a program started with the task table full runs without
  a slot; slots of dead tasks, pages of the common user range, PML4, tables and code frames are never given back; descriptors are not closed at
  exit; the working directory is shared by all programs.
- Memory: klime's count drifts up by a header for each allocation that takes a whole block, and once it has passed the heap
  `klime_get_free_size` wraps to a huge number; the page-frame records of holes in the memory map are never initialised; mmap by a pid too large leaves a
  region nobody is attached to.
- Files: a name that begins with `dev` is created in tmpfs and looked up in devfs; devfs has one handle per device
  whoever opens it; opening never truncates, so "w" streams and cat into a longer file leave its tail, and "a" does
  not go to the end; ftell and ungetc on files whose node has size 0 rewind them; every lookup under /proc leaks its node and text; `fprintf` writes to a stream opened for reading; ps's row format has flags the
  libc does not know and is printed as it stands, with the pid only.
- Terminals and input: a full 4096-byte ring tears 12-byte events; terminals made after boot get no node; a key's release takes
  shift as it is then; a stray 0xFA may put mouse packets out of step until the sync bit fails.
- Disks: LBAs are cut to 28 bits; errors after a written sector's data are not looked at; `cluster_to_Lba` adds both tables in 16 bits; two
  long names with one 8.3 form meet; an empty file is reported written although its entry found no room; size and first cluster of a file are never written back to its entry; format ignores failed writes.
- Devices: the network's start-up and polls have no caller; the E1000 refuses to send once a full ring is posted; the sleep type 0 of PM1b is
  taken for absent; a panic before the hand-over of the screens is invisible; the log goes on over the user's screen; a write to `/dev/fb0` from the middle of a row
  over its end flushes a rectangle cut at the right edge and leaves pixels unshown.
- Desktop: the command file never shrinks, so after 4095 bytes since boot no command is read; interleaved appends lose commands and
  interleaved claims share a slot; nothing leaves the registry, so once it is longer than 255 bytes all later programs
  get one slot and `claim_slot` adds its line behind the end of its buffer (wm.c:195-209); two closes in one frame leave a ghost.
- Start-up: an `if` inside a skipped branch is judged by its own variable; prints and waits in skipped branches are run; else and endif are stored behind a full array
  (emxrc.c:237); `if_stack` has 32 entries and no check; `emxrc` does not look at login's exit status; kproc runs twice.

## 5. Proofs

All proofs are checked by tlapm to the last leaf, with no assumption but the named ones about constants, which TLC
evaluates in every run: `PhysmemAssumption` and `MemMapAssumption` (no memory map ends behind the bound `NFrames`),
`ProcessMemoryAssumption`, `SharedMemoryAssumption`, `PagingAssumption` (two levels at least, the halves of a top table
are disjoint, frame 0 holds no table and no page), `MultitaskAssumption`, `MessagesAssumption` and `VtAssumption` (sizes
and limits are numbers, those of rings and code, heap and stack not zero), `VfsAssumption` (the nodes of boot fit the
bound, 0 is no record, the suffix of a name is a name), `MemLibAssumption`, `TmpfsAssumption` (a page and a word are
not empty, u64 does not wrap below twice the largest file, the archive is no longer than a file may be).
`HeapAssumption`, `NetworkAssumption`, `SoundAssumption`, `Ps2Assumption`, `FilesAssumption`, `VolumeAssumption` and
`DesktopAssumption` (sizes, limits and bounds are numbers, rings and slots not empty, 0 is no pid, "beep" is no player) are written as hypotheses of their theorems; the runs
assume them too (`KernelAssumption`, `DevicesAssumption`, `UserAssumption`, `StorageAssumption`).

| theorem | invariant it follows from |
|---|---|
| `PhysmemTypeCorrect`, `PhysmemExclusive`, `PhysmemMarked`, `PhysmemBootFramesStay`, `PhysmemImplementsFrameAllocator` | `PhysInv`: types, `TablesAgree`, `HeldMarked`, `HeldRunsDisjoint`. Disjointness is not inductive alone: a new run is disjoint from the old ones because their bits are set, so `HeldMarked` carries it; it also says that a run ends below `total`, without which `mark_used` would clip it. `TablesAgree` is stated of the frames whose record was written at all. The refinement maps a run that was handed out to the set of its frames; a refusal is one because the first-fit scan sees every run of clear bits |
| `ProcessMemoryOwned`, `ProcessMemoryAccounted` | `PmInv`: pids are given out upwards, no two records name one frame, heap and stack of a record overlap neither its code nor its tables (exit gives back the first two only), no record names a lost frame, the frames in use are those of the records and the lost ones, and the table of a living process leads to its own frames. A child's table is built from its parent's addresses and its own frames, so no relation between two processes' frames is needed; that is what makes the theorem hold although finding 5 does |
| `SharedMemoryRegionsSound` | `ShmInv`, stated of a table, the next free page, the free frames and the page tables, because mmap creates and attaches in one step. It adds that each mapping of a process is a page of a region it holds at the address the region has there, that addresses are below the next free page, and that different regions of a process lie at different addresses: without the last, detaching one region could unmap another |
| `PagingTablesSound` | `PagInv`: each table has an address, the space, the depth and the indices that lead to it, as a witness (`Tree`). Addresses are different (`OneTable`), an entry leads to the table one level below (`EntriesLead`), a table below the top is led to (`TablesLinked`, which is why a table just made has an address nobody has), the last level holds what was asked (`LeavesAsked`), and nothing was asked below an empty entry, nor for programs below one without the user bit (`WaysOpen`). The walk keeps all of it level by level, also when it stops without a frame (`WalkSound`); the entry written last belongs to one page only. The copied half stays right because an entry that leads to a table never leads elsewhere (`HalfCopied`) |
| `MultitaskTypeCorrect`, `MultitaskEntriesSound`, `MultitaskOneRunning`, `MultitaskDeadStaysDead`, `MultitaskBlockedOnlyWokenByExit` | `IInv` adds `PidsInOrder` (pids are given out upwards, the rest is NONE), `TableShape` (at most one slot per pid), `RunnersHaveSlots` and `CpuRuns`. `EntriesAreBlocked` needs `CpuRuns` (the caller is not blocked, so it has no entry yet); `OneRunning` needs the index found for a process to be its slot |
| `MultitaskNoLostWakeup`, `MultitaskHaltsOnlyWhenDone`, `MultitaskImplementsProcessLife` | `WInv` adds the family tree to `IInv`: a process waits only for one born after it, and nobody but its parent for it. So one exit has one waiter at most, which makes "wake the first entry" the same as "release everybody who waits"; and waits cannot close a cycle, so the youngest process that is not dead can run. All three need that programs wait for their own children (`~ WaitAnyPid`); the first two also room in `blocked_list` and the task table, as their definitions say |
| `MessagesInboxesKept` | `IpcInv`: the scheduler's types, which every message call and every step of the scheduler keeps; for each inbox that what it holds ascends and lies between the last message received and the next to be sent, that only an inbox that exists is open or holds messages, and that it belongs to a pid in range. Without the bound by the next message a new one could already be queued elsewhere |
| `VfsRecordsSound` | `VfsInv`: `TreeInv` (children are nodes that exist, nodes not made yet have none) and `OpenInv` (a record is in use exactly if a descriptor has it, two descriptors never have one, a device not shared has one opener). Path resolution is a recursive function; `WalkEquation` proves it satisfies its equation and `WalkStays` that it never leaves the tree. `NamesUnique` is kept because a lookup that fails has seen every child (`LookupFinds`) and a new node has no children yet |
| `VfsImplementsNames` | `TreeNamed` = `VfsInv` and `OneParent`: the roots of the mounts are nobody's child and any other node is in one place of one directory. So names are the edges of a forest (`TreeIsForest`), the resolution of a plain path follows one edge for each name (`TreeFollows`), and two plain paths never lead to one node (`OnePath`, by induction on the length of paths with a least counterexample). A node more is the end of at most one plain path, whose parent was found before (`WaysWithEdge`); the child taken out is the end of at most one, and what is below it, and nothing else, is lost with it (`WaysWithoutEdge`) |
| `TmpfsTypeCorrect`, `TmpfsPositions`, `TmpfsBuffers`, `TmpfsArchive`, `TmpfsFilesSound` | `IInv` adds `RoIsArchive` (a node is read-only exactly when its buffer is the archive) and `DataSound` (a buffer is as long as its capacity, a node that has one is not empty, no file is larger than its buffer), without which growth could free a buffer another node has. The proof uses memcpy only through `memcpyType` (the buffer keeps its length), so it covers exact and inexact copies |
| `TmpfsImplementsContents` | `IInv`, and `Aligned`: programs read and write only where memcpy is exact (finding 4 of section 4 shows what happens elsewhere). An in-place write and a move to a larger buffer or out of the archive store under the same conditions (`Storing`): the buffer is nobody else's and begins with what the file held, which needs that a copy to the start of a buffer is always exact (`ExactAtStart`). Positions are inside files, so a write leaves no gap, and bytes behind the end of a file never show. A write that gets no memory is a seek to where the descriptor is |
| `HeapStaysConsistent` | `HeapInv`: the list is linked both ways in the order of addresses and its blocks tile the heap (`Tiled`), no two free blocks are neighbours (`Merged`), every block handed out is a used one that is large enough (`Holding`), and klime's count is never too low: with the bytes of the free blocks it is the heap at least, so that the free size klime reports is no more than what is free as long as the difference does not wrap. A split makes a header inside a block and has to stay in order with it; between the two loops of a merge the list is merged but at one place (`MergedBut`), and each loop stops after one turn at most (`LoopOnce`), because the next neighbour is used. Each merge turns a header into free bytes, which is why the count stays a lower bound |
| `NetworkFramesInOrder` | `NetInv`, in distances around the rings (`Dist`): the filled receive descriptors are those from the driver's up to the card's, with frames that get newer from one to the next and are newer than the last one heard; the transmit descriptors in use are the posted frames that are not out, in order from the card's head. Equal head and tail mean an empty ring or one that is posted full; the number of frames under way tells which |
| `SharedFilesRelayed`, `SharedFilesSlotsDistinct` | `FilesInv`: without a race, a cut line or a full file, byte i of the command file is byte i of what was sent or, if it was obeyed, a newline (`CommandsInOrder`), so what was obeyed and what waits are all commands in order (`InOrderIsOnce`; the walk over the file is a recursive function, computed by a least counterexample); where memcpy stores at least the length of a line the file is what it was and the line behind it. Claimed slots are numbers of lines of the registry, as long as `claim_slot` can read all of it |
| `VolumeClustersInside` | `VolInv`: the table, once written, is a function of the drive; the partition read, the boot sector and the mounted volume agree with it across restarts and failed writes. The bounds are arithmetic on the divisor 2050 of format.c (`TableSize`, `AreasApart`, `ClustersFit`) |
| `DesktopFocusSound` | `DeskInv`: each slot is in the order once and in use, a program outside `several` has one slot, and the slot in focus is that one. Neither part of `FocusSound` is inductive alone: a press on a window whose program already has the focus leaves the focused slot as it is |
| `VirtualTerminalsTypeCorrect`, `VirtualTerminalsKeysStay`, `VirtualTerminalsBytesInOrder` | `VtInv`: the ring's two indices differ by its count modulo its size, ids are distinct and not used again, and a process inside a read holds the processor. The last is what protects the reader: nobody can destroy its terminal while it waits |
| `SoundPlaysInOrder` | `SoundInv`: what was taken is what was played followed by the buffers from the controller's on (`RingKept`), and `RingPositions`: the last valid buffer is the one before the driver's except between filling and moving on, and the controller is never past it. The driver decides by the civ it read before, so the invariant also says that the controller has since come no further than the driver's buffer, seen from the old civ: that is why a stale civ only makes the ring look fuller than it is. A controller that halted and goes on with the buffer just filled, and one that has never run, are cases of their own |
| `MouseButtonsFollow` | `MouseInv`: before the first motion only acknowledgements are under way; afterwards how far the driver is with the last packet, whether it took its header for the head of a packet, and that the last event the ring holds, or the last one read, is the button as it is |

The theorems are about safety for every table size, number of processes, memory map, page, ring and file size. Only
model-checked, and why:

- `ReadyEventuallyRuns` and `ReadReturns`: liveness under fairness is beyond the prover.
- `FilesKept`: what a file reads is induction over cluster chains. `Acpi` uses bit operators; `Format` and what extends it fold over characters, which is induction over data.
- `WaveWhole` and `KeysFollow` select from and fold over what went through, which is induction over data. The other devices
  and user programs: TLC explores them within the bounds of section 3.

## 6. Not modelled

The reasons are in `PROJECT.json` with each component. In short: the file manager, welcome, gears and sysinfo windows
(programs above the calls modelled here; the file manager's navigation history is next), the small programs of
`src/user/bin` but ps, cat, wav and sinfo, the z list of wm.c and the files mouse events are passed on through
(desktop_input_dispatch.c), drawing, fonts and image libraries, parsers of data formats without
state, code without a caller (radix tree, slab, gzip), the second network card and the IPv4 and ICMP headers,
stateless devices, discovery of PCI, CPU and CMOS, build and tools.

Abstracted inside modelled parts: the bytes of names, texts and frames; glyph shapes and layout; AML as bytes; the
argument strings execve copies; the contents of clusters.

## 7. Plan

1. `FileManager` (fm.c): history, selection and popup over a directory that changes.
2. The descriptor table composed with process exit (vfs.c:66).
3. Proofs: `FilesKept` of `Fat32`.
