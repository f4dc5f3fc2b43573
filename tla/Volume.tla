------------------------------- MODULE Volume -------------------------------
(***************************************************************************)
(* From a disk to a mounted FAT32 volume:                                  *)
(*   kernel/interface/mbr.c, partition.c   the partition table             *)
(*   file_systems/fat32/format.c           laying out a volume             *)
(*   file_systems/fat32/fat32.c            fat32_init, cluster_to_Lba      *)
(* The sizes are the code's own; a sector's content is told apart by what  *)
(* last wrote it.  A transfer may fail each time; where the code does not  *)
(* look at the result, the model does not either.                          *)
(***************************************************************************)
EXTENDS Integers, Sequences, SequencesExt, FiniteSets

CONSTANTS DriveSizes   \* sectors the drive may report

VolumeAssumption == DriveSizes \subseteq Nat

VARIABLES
    drive,      \* sectors of ATAget_device(0); 0: there is none
    mbr,        \* sector 0: whether it is signed, and its four entries
    partitions, \* partitions[0 .. partition_count - 1]
    area,       \* area[a]: what the sectors of area a of the volume hold
    volume      \* the mounted volume; Unmounted before fat32_init

volVars == <<drive, mbr, partitions, area, volume>>

StartLba == 2048
PartSecSize == 65536
Reserved == 32
SectorsPerCluster == 8
NumFats == 2
Unmounted == [start |-> 0, fatSize |-> 0]
EmptySlot == [type |-> "empty", start |-> 0, count |-> 0]
IsFat32(p) == p.type \in {"fat32", "fat32_lba"}

-----------------------------------------------------------------------------
(* partition_init: the used entries of a signed table, in order; a table    *)
(* that cannot be read or is not signed leaves none.                        *)
InUse(slots) ==
    LET upto[i \in 0..Len(slots)] ==
            IF i = 0 THEN <<>>
            ELSE IF slots[i].type = "empty" THEN upto[i-1] ELSE Append(upto[i-1], slots[i])
    IN  upto[Len(slots)]

partition_init ==
    /\ \/ /\ drive # 0 /\ mbr.signed
          /\ partitions' = InUse(mbr.slots)
       \/ partitions' = <<>>
    /\ UNCHANGED <<drive, mbr, area, volume>>

partition_needs_format == ~\E i \in DOMAIN partitions : IsFat32(partitions[i])

(* partition_format_disk_fat32: one partition from sector 2048 to 2048      *)
(* before the end; only the table is written.                               *)
PartitionSectors == drive - StartLba - 2048

partition_format_disk_fat32 ==
    /\ drive # 0 /\ partition_needs_format
    /\ drive >= StartLba + 2048
    /\ PartitionSectors >= PartSecSize
    /\ mbr' = [signed |-> TRUE,
               slots |-> <<[type |-> "fat32_lba", start |-> StartLba, count |-> PartitionSectors],
                           EmptySlot, EmptySlot, EmptySlot>>]
    /\ UNCHANGED <<drive, partitions, area, volume>>

-----------------------------------------------------------------------------
(* format.c: the size of a table and where each area of the volume lies.    *)
(* The divisor is the one for tables of 16 bit entries.                     *)
FatSize(count) ==
    LET tmp2 == 256 * SectorsPerCluster + NumFats
    IN  (count - Reserved + tmp2 - 1) \div tmp2

FatStart(start) == start + Reserved
RootLba(start, count) == FatStart(start) + NumFats * FatSize(count)

Areas(start, count) ==
    LET F == FatSize(count)
    IN  [boot   |-> <<start, start>>,
         fsinfo |-> <<start + 1, start + 1>>,
         backup |-> <<start + 6, start + 6>>,
         head1  |-> <<FatStart(start), FatStart(start)>>,
         rest1  |-> <<FatStart(start) + 1, FatStart(start) + F - 1>>,
         head2  |-> <<FatStart(start) + F, FatStart(start) + F>>,
         rest2  |-> <<FatStart(start) + F + 1, FatStart(start) + 2 * F - 1>>,
         root   |-> <<RootLba(start, count), RootLba(start, count) + SectorsPerCluster - 1>>]

AreaNames == {"boot", "fsinfo", "backup", "head1", "rest1", "head2", "rest2", "root"}
Checked == {"boot", "head1", "head2"}       \* areas whose failed write ends the format

(* fat32_format_partition: boot sector, backup, FSInfo, then each table's   *)
(* first sector and the rest, then the root directory.  A failed write of a *)
(* checked area returns -1 there; any other failed write passes unnoticed.  *)
FormatOrder == <<"boot", "backup", "fsinfo", "head1", "rest1", "head2", "rest2", "root">>

fat32_format_partition ==
    \E i \in DOMAIN partitions : \E failed \in SUBSET AreaNames :
       LET p == partitions[i]
           stop == SelectInSeq(FormatOrder, LAMBDA a : a \in failed \intersect Checked)
           reached == {FormatOrder[k] : k \in 1..(IF stop = 0 THEN 8 ELSE stop)}
       IN  /\ drive # 0 /\ IsFat32(p)
           /\ area' = [a \in AreaNames |->
                         IF a \in reached \ failed THEN [by |-> "format", count |-> p.count]
                         ELSE area[a]]
           /\ UNCHANGED <<drive, mbr, partitions, volume>>

(* fat32_init: the first FAT32 partition whose boot sector can be read and  *)
(* carries the type label; the table is then loaded, unread sectors and all.*)
fat32_init_volume ==
    /\ volume = Unmounted /\ drive # 0
    /\ \E i \in DOMAIN partitions :
         /\ IsFat32(partitions[i]) /\ \A j \in 1..i-1 : ~IsFat32(partitions[j])
         /\ area["boot"].by = "format"
         /\ volume' = [start |-> partitions[i].start, fatSize |-> FatSize(area["boot"].count)]
    /\ UNCHANGED <<drive, mbr, partitions, area>>

(* cluster_to_Lba: the size of both tables is kept in 16 bits.              *)
FaultClusterToLba(v, c) ==
    v.start + Reserved + ((v.fatSize * NumFats) % 2^16) + c * SectorsPerCluster

cluster_to_Lba(v, c) ==
    v.start + Reserved + ((v.fatSize * NumFats) % 2^16) + (c - 2) * SectorsPerCluster

LastAllocatable(v) == (v.fatSize * 512) \div 4 - 1

Restart ==
    /\ partitions' = <<>> /\ volume' = Unmounted
    /\ UNCHANGED <<drive, mbr, area>>

VolInit ==
    /\ drive \in DriveSizes \union {0}
    /\ mbr = [signed |-> FALSE, slots |-> <<EmptySlot, EmptySlot, EmptySlot, EmptySlot>>]
    /\ partitions = <<>>
    /\ area = [a \in AreaNames |-> [by |-> "before", count |-> 0]]
    /\ volume = Unmounted

VolNext ==
    \/ partition_init \/ partition_format_disk_fat32
    \/ fat32_format_partition \/ fat32_init_volume \/ Restart

VolSpec == VolInit /\ [][VolNext]_volVars

-----------------------------------------------------------------------------
(* Every cluster the allocator can hand out lies inside the partition and   *)
(* behind both tables, the first of them where the format put the root      *)
(* directory, and the areas of the format do not overlap and stay inside    *)
(* the partition.  The two tables together must be below 2^16 sectors (a    *)
(* drive below 32 GiB): beyond that cluster_to_Lba falls into the tables.   *)
ClustersInsidePartition ==
    volume # Unmounted /\ volume.fatSize * NumFats < 2^16 =>
        LET p == mbr.slots[1]
            at == Areas(p.start, p.count)
        IN  /\ cluster_to_Lba(volume, 2) = RootLba(p.start, p.count)
            /\ cluster_to_Lba(volume, LastAllocatable(volume)) + SectorsPerCluster
                   <= p.start + p.count
            /\ p.start > 0 /\ p.start + p.count <= drive
            /\ \A a, b \in AreaNames : a # b => at[a][2] < at[b][1] \/ at[b][2] < at[a][1]
            /\ \A a \in AreaNames : at[a][1] >= p.start /\ at[a][2] < p.start + p.count
=============================================================================
