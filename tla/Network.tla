------------------------------ MODULE Network ------------------------------
(***************************************************************************)
(* The network: the E1000's two descriptor rings, the driver layer above,  *)
(* /dev/net/eth0, Ethernet frames and the ARP table.                       *)
(*   drivers/net/e1000/e1000.c, rtl8139/rtl8139.c, drivers/net/layers.c    *)
(*   kernel/devices/net/eth0.c, kernel/net/{net,polls,eth,arp}.c           *)
(* The card runs beside the processor: it takes and fills descriptors      *)
(* between any two steps of the code.  It owns receive descriptors from    *)
(* its head up to, not including, its tail, and transmit descriptors in    *)
(* the same way; equal head and tail mean that it owns none.  A frame is   *)
(* its number and, for ARP, the operation and the addresses in it.         *)
(***************************************************************************)
EXTENDS Integers, Sequences, FiniteSets

CONSTANTS
    RxCount, TxCount,  \* descriptors of the rings (32 each)
    ArpTableSize,      \* entries of g_table
    Ips, Macs,         \* addresses of other machines
    MyIp,              \* g_ip
    MaxFrames          \* bound: frames that arrive, and frames sent, in a behaviour

NetworkAssumption ==
    /\ RxCount \in Nat \ {0} /\ TxCount \in Nat \ {0} /\ ArpTableSize \in Nat \ {0}
    /\ MaxFrames \in Nat

VARIABLES
    active,   \* the driver netdrivers_init chose: "none", "e1000", "rtl8139"
    rx,       \* rx[d]: DD bit and frame of receive descriptor d
    rdh, rdt, \* the card's receive head and tail registers
    rxTail,   \* dev.rx_tail: the next descriptor the driver looks at
    tx,       \* tx[d]: DD bit and number of the frame in transmit descriptor d
    tdh,      \* the card's transmit head
    txTail,   \* dev.tx_tail, which is also the card's tail register
    gTable,   \* g_table: the entries of the ARP table
    arrived,  \* number of frames that reached the card
    heard,    \* number of the last frame handed to a reader
    posted,   \* number of frames e1000_send accepted
    wire,     \* number of the last frame the card sent
    lastMac   \* the address each machine gave in the last ARP frame handled

netVars == <<active, rx, rdh, rdt, rxTail, tx, tdh, txTail, gTable,
             arrived, heard, posted, wire, lastMac>>
rxVars == <<rx, rdh, rdt, rxTail, arrived, heard>>
txVars == <<tx, tdh, txTail, posted, wire>>
arpVars == <<gTable, lastMac>>

NoFrame == [n |-> 0, op |-> "other", ip |-> 0, mac |-> 0, target |-> 0]
Frames(n) == [n : {n}, op : {"request", "reply", "other"}, ip : Ips, mac : Macs,
              target : {MyIp, 0}]
NoEntry == [ip |-> 0, mac |-> 0]
ArpSlots == 0..ArpTableSize-1

-----------------------------------------------------------------------------
(* netdrivers_init: the E1000 if it is there and starts, else the RTL8139,  *)
(* whose driver sends and receives nothing; netstack_init clears the table. *)
netdrivers_init ==
    /\ active = "none"
    /\ active' \in {"e1000", "rtl8139"}
    /\ UNCHANGED <<rxVars, txVars, arpVars>>

(* e1000_send: a descriptor that does not become free in time refuses the   *)
(* frame; a free one is filled and the tail moves past it.                  *)
FaultCanSend == active = "e1000"
CanSend == active = "e1000" /\ tx[txTail].dd

e1000_send ==
    IF CanSend
    THEN /\ posted' = posted + 1
         /\ tx' = [tx EXCEPT ![txTail] = [dd |-> FALSE, n |-> posted + 1]]
         /\ txTail' = (txTail + 1) % TxCount
         /\ UNCHANGED <<tdh, wire>>
    ELSE UNCHANGED txVars

(* e1000_recv: the descriptor at rx_tail, once the card has filled it, is   *)
(* copied out, given back, and the tail register set to it.                 *)
CanRecv == active = "e1000" /\ rx[rxTail].dd

FaultRecv ==
    /\ heard' = rx[rxTail].frame.n
    /\ rdt' = rxTail
    /\ rxTail' = (rxTail + 1) % RxCount
    /\ UNCHANGED <<rx, rdh, arrived>>

e1000_recv ==
    /\ heard' = rx[rxTail].frame.n
    /\ rx' = [rx EXCEPT ![rxTail] = [dd |-> FALSE, frame |-> NoFrame]]
    /\ rdt' = rxTail
    /\ rxTail' = (rxTail + 1) % RxCount
    /\ UNCHANGED <<rdh, arrived>>

(* arp_table_set: the entry of the address, else a free one, else slot 0.   *)
LowestSlot(S) == CHOOSE i \in S : \A j \in S : i <= j
Holding(ip) == {i \in ArpSlots : gTable[i].ip = ip}
FreeSlots == {i \in ArpSlots : gTable[i] = NoEntry}

FaultArpSlot(ip) ==
    CASE FreeSlots # {} -> LowestSlot(FreeSlots)
      [] OTHER -> 0

ArpSlot(ip) ==
    CASE Holding(ip) # {} -> LowestSlot(Holding(ip))
      [] Holding(ip) = {} /\ FreeSlots # {} -> LowestSlot(FreeSlots)
      [] OTHER -> 0

arp_table_set(ip, mac) ==
    /\ gTable' = [gTable EXCEPT ![ArpSlot(ip)] = [ip |-> ip, mac |-> mac]]
    /\ lastMac' = [lastMac EXCEPT ![ip] = mac]

(* arp_recv: the sender is always learned, a request for us is answered.    *)
arp_recv(f) ==
    /\ arp_table_set(f.ip, f.mac)
    /\ IF f.op = "request" /\ f.target = MyIp THEN e1000_send ELSE UNCHANGED txVars

eth_recv(f) ==
    IF f.op = "other" THEN UNCHANGED <<arpVars, txVars>> ELSE arp_recv(f)

(* One turn of net_poll's loop.                                             *)
net_poll ==
    /\ CanRecv
    /\ e1000_recv
    /\ eth_recv(rx[rxTail].frame)
    /\ UNCHANGED active

(* eth0_read takes a frame for the reader instead; eth0_write and           *)
(* arp_request send one.                                                    *)
eth0_read  == CanRecv /\ e1000_recv /\ UNCHANGED <<active, txVars, arpVars>>
eth0_write == posted < MaxFrames /\ CanSend /\ e1000_send /\ UNCHANGED <<active, rxVars, arpVars>>

-----------------------------------------------------------------------------
(* The card: a frame comes in and fills the head descriptor, or is lost     *)
(* when the card owns none; a posted frame goes out.                        *)
CardReceives ==
    /\ active = "e1000" /\ arrived < MaxFrames
    /\ arrived' = arrived + 1
    /\ IF rdh = rdt THEN UNCHANGED <<rx, rdh>>
       ELSE /\ \E f \in Frames(arrived + 1) :
                  rx' = [rx EXCEPT ![rdh] = [dd |-> TRUE, frame |-> f]]
            /\ rdh' = (rdh + 1) % RxCount
    /\ UNCHANGED <<active, rdt, rxTail, heard, txVars, arpVars>>

CardSends ==
    /\ tdh # txTail
    /\ wire' = tx[tdh].n
    /\ tx' = [tx EXCEPT ![tdh].dd = TRUE]
    /\ tdh' = (tdh + 1) % TxCount
    /\ UNCHANGED <<active, rxVars, txTail, posted, arpVars>>

NetInit ==
    /\ active = "none"
    /\ rx = [d \in 0..RxCount-1 |-> [dd |-> FALSE, frame |-> NoFrame]]
    /\ rdh = 0 /\ rdt = RxCount - 1 /\ rxTail = 0
    /\ tx = [d \in 0..TxCount-1 |-> [dd |-> TRUE, n |-> 0]]
    /\ tdh = 0 /\ txTail = 0
    /\ gTable = [i \in ArpSlots |-> NoEntry]
    /\ arrived = 0 /\ heard = 0 /\ posted = 0 /\ wire = 0
    /\ lastMac = [ip \in Ips |-> 0]

NetNext ==
    \/ netdrivers_init \/ net_poll \/ eth0_read \/ eth0_write
    \/ CardReceives \/ CardSends

NetSpec == NetInit /\ [][NetNext]_netVars

-----------------------------------------------------------------------------
(* Readers hear frames in the order they came in, none twice and none that  *)
(* the card is still allowed to overwrite, however the card and the readers *)
(* interleave (frames are lost only at the card); and the card sends the    *)
(* accepted frames one after another without a gap: no descriptor is reused *)
(* before its frame is out.                                                 *)
FrameStep ==
    /\ heard' # heard => heard' > heard
    /\ wire' # wire => wire' = wire + 1
FramesInOrder == [][FrameStep]_netVars
=============================================================================
