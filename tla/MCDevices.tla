----------------------------- MODULE MCDevices ------------------------------
(* The devices, side by side.  They share no state, so one run gives each   *)
(* behaviour to one of them (part); those it instantiates are Off, those it *)
(* extends stay as they start.  The bounds of the latter are in the cfg:    *)
(* two letters around shift and a key of two bytes, rings of two and three  *)
(* events; network rings that wrap within four frames; three sound buffers. *)
EXTENDS VirtualTerminals, Network, Sound, Ps2Input, TLC

VARIABLES part,
    fw, phase, fadt, slp, ns, io, pm, wrote,
    g, debug, said, draws

acpiVars == <<fw, phase, fadt, slp, ns, io, pm, wrote>>
screenVars == <<g, debug, said, draws>>

(* A keymap file that is empty, and one that swaps letters, names a key twice *)
(* and keys there are none of.                                               *)
Line(k, n, s) == [key |-> k, normal |-> n, shift |-> s]
MCMaps == [US |-> <<>>,
         DE |-> << Line("a", "x", "X"), Line("a", "a", "A"), Line("enter", "\n", "\n"), Line("z", "y", "Y") >>]

ASSUME DevicesAssumption == NetworkAssumption /\ SoundAssumption /\ Ps2Assumption

(* The tables a firmware may hand over: a DSDT with fields in I/O space, a   *)
(* memory region whose base is one of them, and _PTS with If, Else and a     *)
(* call; an SSDT with an _S5_ of its own.                                    *)
T(op) == [op |-> op, len |-> 0]
B(op, n) == [op |-> op, len |-> n]
I(n) == [op |-> "int", len |-> 0, val |-> n]
N(s) == [op |-> "path", len |-> 0, name |-> [root |-> FALSE, up |-> 0, segs |-> s]]
Arg(i) == [op |-> "arg", len |-> 0, i |-> i]
Pkg(v) == [op |-> "package", len |-> 0, vals |-> v]
Method(n, argc) == [op |-> "method", len |-> n, argc |-> argc]
Space(s) == [op |-> "region", len |-> 0, space |-> s]
Unit(s, w) == [op |-> "unit", len |-> 0, seg |-> s, width |-> w]
Gap(w) == [op |-> "pad", len |-> 0, width |-> w]
DsdtCode ==
    << T("name"), N(<<"_S5_">>), Pkg(<<5, 2>>),
       Space(1), N(<<"IOR">>), I(1),
       B("field", 5), N(<<"IOR">>), Unit("FA", 3), Gap(3), Unit("SLPN", 5), Unit("BASE", 5),
       Space(0), N(<<"MEM">>), N(<<"BASE">>),
       B("field", 3), N(<<"MEM">>), Unit("MA", 2), Unit("MB", 7),
       T("name"), N(<<"CNT">>), I(1),
       B("device", 11), N(<<"DEV">>),
         T("name"), N(<<"CNT">>), I(2),
         Method(6, 2), N(<<"SUB">>), T("add"), Arg(0), Arg(1), N(<<"MB">>), T("noop"),
       Method(19, 1), N(<<"_PTS">>),
         T("store"), Arg(0), N(<<"FA">>),
         B("if", 8), T("eq"), N(<<"CNT">>), I(1), N(<<"DEV", "SUB">>), Arg(0), I(30), T("noop"), T("noop"),
         B("else", 3), T("store"), I(0), N(<<"MA">>),
         T("store"), I(3), N(<<"MA">>) >>
SsdtCode ==
    << T("name"), N(<<"_S5_">>), Pkg(<<1, 0>>), T("name"), N(<<"CNT">>), I(7),
       T("name"), N(<<"SCIO">>), I(1),
       Method(5, 0), N(<<"OEMS">>), T("return"), I(1), T("store"), I(2) >>
AmlCode == DsdtCode \o SsdtCode
Table(s, from, to) == [sig |-> s, from |-> from, to |-> to]
Dsdt == Table("DSDT", 1, Len(DsdtCode))
Ssdt == Table("SSDT", Len(DsdtCode) + 1, Len(AmlCode))
Fadt(d, x) == [sig |-> "FACP", present |-> TRUE, revision |-> 2, dsdt |-> d, x_dsdt |-> x, pm1b |-> TRUE]
Cut == Table("DSDT", 4, Len(DsdtCode))          \* without its _S5_
Cells == {<<1, a>> : a \in 1..8} \cup {<<0, a>> : a \in 1..4}
NoTables == [rsdp |-> FALSE, revision |-> 0, xsdt |-> <<>>, rsdt |-> <<>>, code |-> <<>>, rest |-> 0,
             io |-> [c \in Cells |-> 0]]
Firmwares == {NoTables} \cup [rsdp : BOOLEAN, revision : {0, 2}, xsdt : {<<>>, <<Ssdt, Fadt(Dsdt, <<>>)>>},
    rsdt : {<<>>, <<Fadt(Cut, <<Dsdt>>), Ssdt>>, <<Fadt(Cut, <<>>), Ssdt>>}, code : {AmlCode}, rest : {0, 3},
    io : {[c \in Cells |-> 0], [c \in Cells |-> IF c = <<1, 2>> THEN 16 ELSE 63], [c \in Cells |-> 40]}]
Power == INSTANCE Acpi WITH Firmwares <- Firmwares, IoCells <- Cells, ByteBits <- 6, WordBits <- 24,
           MaxBytes <- 4, NsMax <- 20, DepthMax <- 3

(* Files whose header lies about the length, has its chunks the other way    *)
(* round or a first format that is not the one used; mono and stereo.        *)
Fmt(c, b) == [id |-> "fmt", channels |-> c, bits |-> b, pcm |-> TRUE, size |-> 16]
Dat(n) == [id |-> "data", channels |-> 0, bits |-> 0, pcm |-> FALSE, size |-> n]
MCBeeps == <<3, 1>>
MCWaves == {[chunks |-> <<Fmt(1, 16), Dat(5)>>, samples |-> 5], [chunks |-> <<Fmt(2, 16), Dat(9)>>, samples |-> 7],
          [chunks |-> <<Dat(2), Fmt(2, 16)>>, samples |-> 2],
          [chunks |-> <<Fmt(2, 8), Fmt(2, 16), Dat(2)>>, samples |-> 4]}

(* Rows that wrap and scroll; a byte sequence of three; a call of log_printf *)
(* that does not fit its buffer; writes of two rows and of half a row, so    *)
(* that one begins in the middle of a row and goes on below.                 *)
Texts == {<<"a", "nl">>, <<"b", "b", "b">>, <<"L2", "C", "C", "nl">>}
MCFormats == {<< <<"f">>, <<"x", "y", "z">>, <<"nl">> >>}
Fb == INSTANCE Screen WITH FbW <- 8, FbH <- 12, Leading <- 1, LogMax <- 10, FormatMax <- 4,
        MaxSaid <- 20, MaxDraws <- 2, Texts <- Texts, Formats <- MCFormats, Counts <- {4, 16}, Colours <- {"red"},
        Word <- 2, Junk <- "junk"
ASSUME ScreenBounds == Fb!ScreenAssumption
-----------------------------------------------------------------------------
Symmetric == Permutations(Procs)
Off == 0
AcpiOff ==
    /\ fw = Off /\ phase = Off /\ fadt = Off /\ slp = Off /\ ns = Off /\ io = Off
    /\ pm = Off /\ wrote = Off
ScreenOff == g = Off /\ debug = Off /\ said = Off /\ draws = Off

DevicesInit ==
    /\ part \in {"terminals", "keyboard", "mouse", "network", "power", "sound", "screen"}
    /\ Init /\ (part = "terminals" \/ cpu = CHOOSE p \in Procs : TRUE)
    /\ Ps2Init /\ (part = "mouse" \/ mWire = <<>>)
    /\ NetInit
    /\ IF part = "power" THEN Power!AcpiInit ELSE AcpiOff
    /\ SoundInit /\ (part = "sound" \/ wave = [p \in Players |-> CHOOSE w \in Waves : TRUE])
    /\ IF part = "screen" THEN Fb!ScreenInit ELSE ScreenOff

DevicesNext ==
    /\ part' = part
    /\ \/ /\ part = "terminals"
          /\ UNCHANGED <<ps2Vars, netVars, acpiVars, soundVars, screenVars>>
          /\ Next
       \/ /\ part = "keyboard"
          /\ UNCHANGED <<vars, netVars, acpiVars, soundVars, screenVars>>
          /\ KeyboardNext
       \/ /\ part = "mouse"
          /\ UNCHANGED <<vars, netVars, acpiVars, soundVars, screenVars>>
          /\ MouseNext
       \/ /\ part = "network"
          /\ UNCHANGED <<vars, ps2Vars, acpiVars, soundVars, screenVars>>
          /\ NetNext
       \/ /\ part = "power"
          /\ UNCHANGED <<vars, ps2Vars, netVars, soundVars, screenVars>>
          /\ Power!AcpiNext
       \/ /\ part = "sound"
          /\ UNCHANGED <<vars, ps2Vars, netVars, acpiVars, screenVars>>
          /\ SoundNext
       \/ /\ part = "screen"
          /\ UNCHANGED <<vars, ps2Vars, netVars, acpiVars, soundVars>>
          /\ Fb!ScreenNext

DevicesSpec == DevicesInit /\ [][DevicesNext]_<<part, vars, ps2Vars, netVars, acpiVars, soundVars, screenVars>>
-----------------------------------------------------------------------------
(* The machine is switched off with the values its tables declare, and a field *)
(* written leaves its neighbours alone (acpi.c:440-475).                     *)
PowerSound ==
    /\ [](part = "power" => Power!OffAsDeclared)
    /\ [][part = "power" => Power!FieldStep]_acpiVars

(* The framebuffer shows the current screen as printed to (boot.c, print.c). *)
ScreenShows == part = "screen" => Fb!ScreenShows
=============================================================================
