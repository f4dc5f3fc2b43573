----------------------------- MODULE MCStorage ------------------------------
(* File contents, FAT32, volumes and drives, side by side: no code calls from *)
(* one into another while the system runs, so one run gives each behaviour to *)
(* one of them (part) and leaves the others as they start.  The drives of    *)
(* the cfg go from one too small for a partition to one of 64 GiB.           *)
EXTENDS MCTmpfs, Volume

VARIABLES part,
    fat, table1, table2, cluster, files, handles,
    ports, atadevs, medium, hdaCall, pxCI, pxTFES

fatVars == <<fat, table1, table2, cluster, files, handles>>
diskVars == <<ports, atadevs, medium, hdaCall, pxCI, pxTFES>>

(* Two names with one 8.3 form; clusters of three slots, so that directories *)
(* grow; five clusters, so that they run out.                                *)
Short(n) == IF n \in {"a", "b"} THEN "a" ELSE n
Fat == INSTANCE Fat32 WITH LastCluster <- 6, Row <- 3, LfnSlots <- 1, Names <- {"a", "b", "c"},
         ShortName <- Short, MaxSize <- 2, MaxFiles <- 3, MaxHandles <- 2

(* Two sectors of two words of two bytes, one bit of address; ranges that    *)
(* start inside a word, inside a sector and beyond the last one, and that    *)
(* end in the same sector or the next.                                       *)
DevFunctions == << [class |-> "net", bars |-> [primary |-> 1, secondary |-> 1]],
                [class |-> "ide", bars |-> [primary |-> 0, secondary |-> 49281]] >>
Hda == INSTANCE Disk WITH SectorSize <- 4, LbaBits <- 1, DiskSectors <- 2,
         Word <- 2, Junk <- 9, Ranges <- {<<1, 2>>, <<2, 5>>, <<5, 5>>},
         CmdSlots <- {0}, PciFunctions <- DevFunctions

ASSUME StorageAssumption == VolumeAssumption
-----------------------------------------------------------------------------
StorageInit ==
    /\ part \in {"contents", "fat", "volume", "disk"}
    /\ Init /\ (part = "contents" \/ \A n \in Nodes : size[n] = 0)
    /\ VolInit /\ (part = "volume" \/ drive = 0)
    /\ Fat!FatInit /\ Hda!DiskInit

StorageNext ==
    /\ part' = part
    /\ \/ part = "contents" /\ UNCHANGED <<fatVars, volVars, diskVars>> /\ Next
       \/ part = "fat" /\ UNCHANGED <<vars, volVars, diskVars>> /\ Fat!FatNext
       \/ part = "volume" /\ UNCHANGED <<vars, fatVars, diskVars>> /\ VolNext
       \/ part = "disk" /\ UNCHANGED <<vars, fatVars, volVars>> /\ Hda!DiskNext

StorageSpec == StorageInit /\ [][StorageNext]_<<part, vars, fatVars, volVars, diskVars>>
-----------------------------------------------------------------------------
(* What was written through a handle is found again after a restart, and no  *)
(* cluster is in two chains (fat32.c, fat_create.c, fat_write.c).            *)
FilesKept == part = "fat" => Fat!FilesKept

(* Reads of /dev/hda0 return the medium's bytes and writes change those of   *)
(* the range only, whole sectors or not, from aligned offsets; from others a *)
(* write still stays in the sectors it touches (hdd0.c:51-111).              *)
HdaExact ==
    /\ [](part = "disk" => Hda!ReadIsExact /\ Hda!RunningOnlyAfterError)
    /\ [][part = "disk" => Hda!WriteStep]_diskVars
===============================================================================
