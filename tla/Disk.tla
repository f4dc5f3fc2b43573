-------------------------------- MODULE Disk --------------------------------
(***************************************************************************)
(* The disk drivers and the block device file made from them:              *)
(*   drivers/storage/ata/ide.c    finding the controller's ports           *)
(*   drivers/storage/ata/disk.c   detecting drives, PIO sector transfers   *)
(*   drivers/storage/ahci/ahci.c  DMA commands of a SATA port              *)
(*   kernel/devices/disks/hdd0.c  /dev/hda0, bytes on top of sectors       *)
(* Everything here runs with the only processor to itself: a call is one   *)
(* action, the drive's answers are its choices.  A wait that times out, an *)
(* error bit and a missing data request all end a transfer the same way,   *)
(* with -1 and a prefix of the sectors done.                               *)
(***************************************************************************)
EXTENDS MemLib, SequencesExt, FiniteSets

CONSTANTS
    SectorSize,   \* bytes of a sector (512)
    LbaBits,      \* bits of the sector address given to a PATA drive (28)
    DiskSectors,  \* sectors of drive 0
    Ranges,       \* byte offset and count of the calls of /dev/hda0
    CmdSlots,     \* command slots of an AHCI port (32)
    PciFunctions  \* PCI functions in the order the scan meets them

VARIABLES
    ports,    \* ide_controller: base port of each bus, once probed
    atadevs,  \* ATAdevices[0 .. ATAdevice_count - 1]
    medium,   \* medium[lba]: the bytes of a sector of drive 0
    hdaCall,  \* the last call of /dev/hda0: what it asked and what it returned
    pxCI,     \* PXCI: command slots the port has not finished
    pxTFES    \* bit 30 of PXIS: a task file error; nothing in the code clears it

diskVars == <<ports, atadevs, medium, hdaCall, pxCI, pxTFES>>

MaxAtaDevices == 4
Idle == [op |-> "none", off |-> 0, count |-> 0, ok |-> TRUE, data |-> <<>>]

-----------------------------------------------------------------------------
(* ide.c: the first mass storage function of subclass IDE in scan order.   *)
(* An I/O bar loses its flag bits; a bar of 0 means the legacy port.       *)

LegacyPort == [primary |-> 496, secondary |-> 368]
BarPort(bar) == IF bar % 2 = 1 THEN bar - (bar % 4) ELSE bar

pci_find_ide_controller ==
    LET ides == SelectSeq(PciFunctions, LAMBDA f : f.class = "ide")
    IN  IF ides = <<>> THEN LegacyPort
        ELSE [bus \in DOMAIN LegacyPort |->
                LET p == BarPort(Head(ides).bars[bus])
                IN  IF p \in {0, 1} THEN LegacyPort[bus] ELSE p % 2^16]

(* disk.c: the four places a drive can be, in the order they are asked.     *)
Places == << <<"primary", FALSE>>, <<"primary", TRUE>>,
             <<"secondary", FALSE>>, <<"secondary", TRUE>> >>

(* ATAidentify: a floating bus, no answer, a timeout, an error bit and a    *)
(* packet device are all refused; only a drive that sends its 256 words is  *)
(* taken.  The sector count comes from the 48 bit words if it has them.     *)
IdentifyAnswers == {"absent", "timeout", "packet", "identified"}
ATAidentify(answer) == CASE answer = "identified" -> 0
                         [] answer = "packet"     -> -2
                         [] OTHER                 -> -1

ATAdetect_device(devs, place, answer) ==
    IF Len(devs) >= MaxAtaDevices \/ ATAidentify(answer) # 0 THEN devs
    ELSE Append(devs, [type |-> "pata", at |-> place])

(* ata_init: the ports first, then the four places one after another.       *)
ATAdetect_devices ==
    /\ ports = <<>>
    /\ ports' = pci_find_ide_controller
    /\ \E answer \in [1..4 -> IdentifyAnswers] :
         atadevs' = FoldLeftDomain(
                      LAMBDA devs, i : ATAdetect_device(devs, Places[i], answer[i]),
                      <<>>, Places)
    /\ UNCHANGED <<medium, hdaCall, pxCI, pxTFES>>

-----------------------------------------------------------------------------
(* A PATA drive has LbaBits address bits in this command set: the 64 bit    *)
(* sector number is cut to them, whatever lba48_supported says.             *)
DriveSector(lba) == IF atadevs[1].type = "ahci" THEN lba ELSE lba % 2^LbaBits

(* ATAread_sectors and ATAwrite_sectors of one sector: what the drive does. *)
(* An error before the data is sent fails the call; an error after it is    *)
(* not looked at, the call returns 0 and the sector keeps its old bytes.    *)
ATAread_sectors(lba) == DriveSector(lba) < DiskSectors

ATAwrite_sectors(m, lba, bytes, drops) ==
    IF drops THEN m ELSE [m EXCEPT ![DriveSector(lba)] = bytes]

(* hdd0.c: n bytes are copied by the memcpy of MemLib from src, which goes  *)
(* on behind them, to place p of c; both buffers begin at an aligned address*)
(* and what falls behind the end of c is not followed.                      *)
Copy(c, p, src, n) ==
    Overlay(c, p, [k \in 1..Copied(p, n) |-> IF k <= Len(src) THEN src[k] ELSE Junk])

(* The part of sector i of a call that the call covers.                     *)
SectorsOf(off, count) == ((off % SectorSize) + count + SectorSize - 1) \div SectorSize
CopyFrom(off, i) == IF i = 0 THEN off % SectorSize ELSE 0
CopyDone(off, i) == IF i = 0 THEN 0 ELSE i * SectorSize - (off % SectorSize)
CopyLen(off, count, i) ==
    LET room == SectorSize - CopyFrom(off, i)
        left == count - CopyDone(off, i)
    IN  IF room > left THEN left ELSE room

(* hda_read: sector by sector through the static buffer; the first one that *)
(* fails fails the call.                                                    *)
hda_read(off, count) ==
    /\ atadevs # <<>>
    /\ \E stop \in 0..SectorsOf(off, count) :
         LET lba(i) == off \div SectorSize + i
             rest(i) == SubSeq(medium[DriveSector(lba(i))], CopyFrom(off, i) + 1, SectorSize)
         IN  /\ \A i \in 0..stop-1 : ATAread_sectors(lba(i))
             /\ hdaCall' = [op |-> "read", off |-> off, count |-> count,
                            ok |-> stop = SectorsOf(off, count),
                            data |-> FoldLeft(LAMBDA buf, i : Copy(buf, CopyDone(off, i - 1), rest(i - 1),
                                                                   CopyLen(off, count, i - 1)),
                                              [k \in 1..count |-> Junk], [i \in 1..stop |-> i])]
    /\ UNCHANGED <<ports, atadevs, medium, pxCI, pxTFES>>

(* The bytes of a write are told apart by their place in it, and from those *)
(* of an empty disk.                                                        *)
Empty == 0
DataOf(count) == [k \in 1..count |-> k]

(* hda_write: a sector that is not covered whole is read first and merged.  *)
(* "stop" sectors are written before one fails, "lost" are those whose      *)
(* failure comes too late to be seen.                                       *)
FaultMerged(old, off, count, i, data) ==     (* the rest of the sector is not read first *)
    Copy([b \in 1..SectorSize |-> Empty], CopyFrom(off, i),
         SubSeq(data, CopyDone(off, i) + 1, count), CopyLen(off, count, i))

Merged(old, off, count, i, data) ==
    Copy(old, CopyFrom(off, i), SubSeq(data, CopyDone(off, i) + 1, count), CopyLen(off, count, i))

hda_write(off, count) ==
    /\ atadevs # <<>>
    /\ \E stop \in 0..SectorsOf(off, count) :
       \E lost \in SUBSET (0..stop-1) :
         LET lba(i) == off \div SectorSize + i
         IN  /\ \A i \in 0..stop-1 : ATAread_sectors(lba(i))
             /\ medium' = FoldLeft(
                  LAMBDA m, i : ATAwrite_sectors(m, lba(i - 1),
                      Merged(m[DriveSector(lba(i - 1))], off, count, i - 1, DataOf(count)),
                      i - 1 \in lost),
                  medium, [i \in 1..stop |-> i])
             /\ hdaCall' = [op |-> "write", off |-> off, count |-> count,
                            ok |-> stop = SectorsOf(off, count), data |-> <<>>]
    /\ UNCHANGED <<ports, atadevs, pxCI, pxTFES>>

-----------------------------------------------------------------------------
(* ahci.c: ahci_identify, ahci_read and ahci_write build a command in the   *)
(* first free slot, wait until the port is not busy, start it, and spin     *)
(* until the slot is clear (1) or the task file error bit is set (0).  The  *)
(* bit is never acknowledged, so after one error a call can return 0 while  *)
(* its slot is still running, and its buffer is still being filled.         *)
ahci_find_cmd_slot ==
    IF CmdSlots \ pxCI = {} THEN -1
    ELSE CHOOSE s \in CmdSlots \ pxCI : \A t \in CmdSlots \ pxCI : s <= t

FaultAhciCommand ==
    /\ ports # <<>> /\ ahci_find_cmd_slot # -1
    /\ \/ UNCHANGED <<pxCI, pxTFES>>
       \/ pxCI' = pxCI \union {ahci_find_cmd_slot} /\ UNCHANGED pxTFES
    /\ UNCHANGED <<ports, atadevs, medium, hdaCall>>

ahci_command ==
    /\ ports # <<>> /\ ahci_find_cmd_slot # -1
    /\ \/ UNCHANGED <<pxCI, pxTFES>>                       \* done: returns 1
       \/ /\ pxCI' = pxCI \union {ahci_find_cmd_slot}      \* error: returns 0
          /\ pxTFES' = TRUE
    /\ UNCHANGED <<ports, atadevs, medium, hdaCall>>

(* The port finishes a slot a call has given up on.                         *)
AhciFinish ==
    /\ \E s \in pxCI : pxCI' = pxCI \ {s}
    /\ UNCHANGED <<ports, atadevs, medium, hdaCall, pxTFES>>

(* ahci_init (its call in disks_init is commented out at present; the       *)
(* actions of this section are the driver as it would run): the reset stops *)
(* every command and drops the error; a port with a drive is identified,    *)
(* and one that answers is registered behind the PATA drives if the table   *)
(* of four has room.                                                        *)
ATAregister_ahci_device(devs) ==
    IF Len(devs) >= MaxAtaDevices THEN devs
    ELSE Append(devs, [type |-> "ahci", at |-> <<"port", FALSE>>])

ahci_init ==
    /\ ports # <<>> /\ ~\E i \in DOMAIN atadevs : atadevs[i].type = "ahci"
    /\ \/ /\ atadevs' = ATAregister_ahci_device(atadevs)
          /\ pxCI' = {} /\ pxTFES' = FALSE
       \/ /\ pxCI' = {CHOOSE s \in CmdSlots : \A t \in CmdSlots : s <= t}
          /\ pxTFES' = TRUE /\ UNCHANGED atadevs
    /\ UNCHANGED <<ports, medium, hdaCall>>

DiskInit ==
    /\ ports = <<>> /\ atadevs = <<>>
    /\ medium = [s \in 0..DiskSectors-1 |->
                   [b \in 1..SectorSize |-> Empty]]
    /\ hdaCall = Idle
    /\ pxCI = {} /\ pxTFES = FALSE

DiskNext ==
    \/ ATAdetect_devices
    \/ \E r \in Ranges : hda_read(r[1], r[2]) \/ hda_write(r[1], r[2])
    \/ ahci_command \/ AhciFinish \/ ahci_init

DiskSpec == DiskInit /\ [][DiskNext]_diskVars

-----------------------------------------------------------------------------
ByteAt(m, n) == m[n \div SectorSize][(n % SectorSize) + 1]
Addressable(call) == call.off + call.count <= 2^LbaBits * SectorSize

(* A write of /dev/hda0 at a multiple of eight puts its bytes in their places *)
(* and changes no other, wherever it stops and whichever sectors the drive    *)
(* loses, as long as the range lies below the 2^28 sectors a PATA command can *)
(* name (beyond them the address wraps to the first sectors of the disk).  At *)
(* other offsets memcpy copies too little or too much, but never into a       *)
(* sector the range does not touch.                                           *)
WriteStep ==
    LET from == hdaCall'.off
        to   == hdaCall'.off + hdaCall'.count - 1
    IN  medium' # medium /\ Addressable(hdaCall') =>
        \A n \in 0..DiskSectors * SectorSize - 1 :
            ByteAt(medium', n) # ByteAt(medium, n) =>
                IF from % Word = 0
                THEN n \in from..to /\ ByteAt(medium', n) = DataOf(hdaCall'.count)[n - from + 1]
                ELSE n \div SectorSize \in from \div SectorSize..to \div SectorSize
WriteStaysInRange == [][WriteStep]_diskVars

(* A read that succeeds has returned the bytes of its range in their order, *)
(* however it cuts the sectors, if the range begins at a multiple of eight  *)
(* or lies within one sector: otherwise the pieces of the later sectors are *)
(* copied to unaligned places of the caller's buffer.                       *)
ReadIsExact ==
    /\ hdaCall.op = "read" /\ hdaCall.ok /\ Addressable(hdaCall)
    /\ hdaCall.off % Word = 0 \/ SectorsOf(hdaCall.off, hdaCall.count) = 1
    => \A n \in 1..hdaCall.count :
            hdaCall.data[n] = ByteAt(medium, hdaCall.off + n - 1)

(* A command is left running behind its caller's back, with the caller's    *)
(* buffer, only once the error bit is latched.                              *)
RunningOnlyAfterError == pxCI # {} => pxTFES

(* /dev/hda0 is exact in both directions, and the AHCI port is left running *)
(* only after an error.                                                     *)
HdaExact == [](ReadIsExact /\ RunningOnlyAfterError) /\ WriteStaysInRange

=============================================================================
