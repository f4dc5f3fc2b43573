-------------------------------- MODULE Acpi --------------------------------
(***************************************************************************)
(* kernel/arch/x86_64/acpi/acpi.c: finding the firmware's tables, scanning *)
(* their AML for named objects, interpreting methods, and turning the      *)
(* machine off with them.                                                  *)
(*                                                                         *)
(* AML is a sequence of terms instead of bytes: an opcode, a name, a        *)
(* literal is one term, and the length of a block counts terms.  What the  *)
(* scanner does with an operand byte that looks like an opcode is not       *)
(* modelled.  A path is the sequence of its segments, <<>> the root.        *)
(***************************************************************************)
EXTENDS Integers, Sequences, SequencesExt, FiniteSets, FiniteSetsExt, Bitwise

CONSTANTS
    Firmwares,   \* what the firmware may hand over, see the MC module
    IoCells,     \* <<space, address>> of the cells that exist, 1 is I/O
    ByteBits,    \* bits of a cell (8)
    WordBits,    \* bits of an AML integer (64)
    MaxBytes,    \* cells one field access may cover (8)
    NsMax,       \* AML_NS_MAX
    DepthMax     \* AML_DEPTH_MAX

VARIABLES
    fw,       \* the firmware of this machine
    phase,    \* how far init_acpi and shutdown have come
    fadt,     \* the FADT, or NoFadt
    slp,      \* slp_typa and slp_typb, Unset until parse_s5 finds them
    ns,       \* ns[0 .. ns_n - 1]
    io,       \* contents of the cells
    pm,       \* the PM1 control registers a and b
    wrote     \* history: the fields the last step wrote

acpiVars == <<fw, phase, fadt, slp, ns, io, pm, wrote>>

Unset == -1
NoFadt == [present |-> FALSE]
TrueValue == 2^(WordBits \div 2) - 1
Ones == 2^WordBits - 1

-----------------------------------------------------------------------------
(* Names.  A name is root ("\"), up (number of "^") and its segments.       *)

abs_path(scope, name) ==
    IF name.root THEN name.segs
    ELSE LET kept == IF name.up > Len(scope) THEN 0 ELSE Len(scope) - name.up
         IN  SubSeq(scope, 1, kept) \o name.segs

ns_exact(objs, path) ==
    LET hits == {i \in DOMAIN objs : objs[i].path = path}
    IN  IF hits = {} THEN 0 ELSE Min(hits)

(* The scope itself, then what encloses it.                                 *)
ns_find(objs, scope, name) ==
    IF name.segs = <<>> /\ ~name.root /\ name.up = 0 THEN 0
    ELSE IF name.root THEN ns_exact(objs, name.segs)
    ELSE LET At(n) == ns_exact(objs, abs_path(SubSeq(scope, 1, n), name))
             hits == {n \in 0..Len(scope) : At(n) # 0}
         IN  IF hits = {} THEN 0 ELSE At(Max(hits))

Named(objs, seg) == ns_find(objs, <<>>, [root |-> FALSE, up |-> 0, segs |-> <<seg>>])
Parent(path) == IF path = <<>> THEN <<>> ELSE Front(path)

-----------------------------------------------------------------------------
(* aml_scan: the objects the terms p .. end declare, in scope.  A full      *)
(* table ignores the rest; a name declared again keeps its first object but *)
(* an integer takes the new value.                                          *)

Declare(objs, obj) == IF Len(objs) < NsMax THEN Append(objs, obj) ELSE objs

DeclareInt(objs, path, val) ==
    LET at == ns_exact(objs, path)
    IN  IF at = 0 THEN Declare(objs, [type |-> "int", path |-> path, val |-> val])
        ELSE IF objs[at].type = "int" THEN [objs EXCEPT ![at].val = val] ELSE objs

(* The named fields of a field list: the units in order, each after the     *)
(* bits of those before it.                                                 *)
DeclareFields(objs, scope, rgn, units) ==
    LET Off(i) == FoldLeftDomain(LAMBDA sum, j : IF j < i THEN sum + units[j].width ELSE sum,
                                 0, units)
    IN  FoldLeftDomain(LAMBDA acc, i :
                  IF units[i].op = "pad" THEN acc
                  ELSE Declare(acc, [type |-> "field", path |-> Append(scope, units[i].seg),
                                     rgn |-> rgn, off |-> Off(i), wid |-> units[i].width]),
              objs, units)

RECURSIVE aml_scan(_, _, _, _, _)
aml_scan(code, p, end, scope, objs) ==
    IF p > end THEN objs
    ELSE LET t == code[p]
             past == p + t.len
             path(i) == abs_path(scope, code[i].name)
             rest(q, acc) == aml_scan(code, q, end, scope, acc)
         IN  IF past > end THEN objs         \* a block longer than what holds it
             ELSE CASE t.op \in {"scope", "device", "power", "processor"} ->
                         rest(past + 1, aml_scan(code, p + 2, past, path(p + 1), objs))
                    [] t.op \in {"if", "else", "while"} ->
                         rest(past + 1, aml_scan(code, p + 1, past, scope, objs))
                    [] t.op = "method" ->
                         rest(past + 1, Declare(objs, [type |-> "method", path |-> path(p + 1),
                                            argc |-> t.argc, from |-> p + 2, to |-> past]))
                    [] t.op = "name" ->
                         IF p + 1 < end /\ code[p + 2].op = "int"
                         THEN rest(p + 3, DeclareInt(objs, path(p + 1), code[p + 2].val))
                         ELSE rest(p + 3, objs)
                    [] t.op = "region" ->
                         LET b == code[p + 2]
                         IN  rest(p + 3, Declare(objs,
                               [type |-> "region", path |-> path(p + 1), space |-> t.space,
                                dyn |-> b.op = "path",
                                base |-> IF b.op = "int" THEN b.val ELSE 0,
                                fld |-> IF b.op = "path" THEN path(p + 2) ELSE <<>>]))
                    [] t.op = "field" ->
                         rest(past + 1, DeclareFields(objs, scope, path(p + 1),
                                                      SubSeq(code, p + 2, past)))
                    [] OTHER -> rest(past + 1, objs)

-----------------------------------------------------------------------------
(* Field input and output: the cells a field covers are read, the bits of   *)
(* the field exchanged, and all of them written back.                       *)

(* dyn_base_lookup: the exact path, else the last segment from the root.    *)
dyn_base_lookup(objs, path) ==
    LET other(i) == IF i # 0 THEN i ELSE IF path = <<>> THEN 0 ELSE Named(objs, Last(path))
    IN  other(ns_exact(objs, path))

Cell(s, space, a) == IF <<space, a>> \in IoCells THEN s.io[<<space, a>>] ELSE 2^ByteBits - 1

ByteOff(f) == f.off \div ByteBits
BitShift(f) == f.off % ByteBits
Covered(f) == LET n == (BitShift(f) + f.wid + ByteBits - 1) \div ByteBits
              IN  IF n > MaxBytes THEN MaxBytes ELSE n
Mask(f) == IF f.wid >= WordBits THEN 2^WordBits ELSE 2^f.wid

Raw(s, f, space, base) ==
    FoldLeft(LAMBDA sum, i : sum + Cell(s, space, base + ByteOff(f) + i - 1) * 2^((i - 1) * ByteBits),
             0, [i \in 1..Covered(f) |-> i])

(* The region of a field, none for anything else.                           *)
RegionOf(s, f) ==
    LET region(i) == IF i = 0 THEN {} ELSE IF s.ns[i].type = "region" THEN {s.ns[i]} ELSE {}
    IN  IF f.type # "field" THEN {} ELSE region(ns_exact(s.ns, f.rgn))

RECURSIVE fld_read(_, _)
fld_base(s, region) ==
    LET base(i) == IF i = 0 THEN region.base ELSE fld_read(s, s.ns[i])
    IN  IF region.dyn THEN base(dyn_base_lookup(s.ns, region.fld)) ELSE region.base

fld_read(s, f) ==
    LET at(r, base) == IF r.space # 1 /\ base \in {0, Ones} THEN 0
                       ELSE (Raw(s, f, r.space, base) \div 2^BitShift(f)) % Mask(f)
        in(regions) == IF regions = {} THEN 0
                       ELSE CHOOSE v \in {at(r, fld_base(s, r)) : r \in regions} : TRUE
    IN  in(RegionOf(s, f))

(* The new contents of the covered cells, as one number.                    *)
FaultExchanged(raw, f, val) == (val % Mask(f)) * 2^BitShift(f)

Exchanged(raw, f, val) ==
    LET low == raw % 2^BitShift(f)
        high == (raw \div 2^BitShift(f)) \div Mask(f)
    IN  low + (val % Mask(f)) * 2^BitShift(f) + high * Mask(f) * 2^BitShift(f)

fld_write(s, f, val) ==
    LET Byte(new, n) == (new \div 2^(n * ByteBits)) % 2^ByteBits
        put(space, base, new) ==
            [s EXCEPT !.io = [c \in IoCells |->
                                IF /\ c[1] = space /\ c[2] >= base + ByteOff(f)
                                   /\ c[2] < base + ByteOff(f) + Covered(f)
                                THEN Byte(new, c[2] - base - ByteOff(f)) ELSE @[c]],
                      !.wrote = @ \cup {[space |-> space, base |-> base, f |-> f]}]
        at(space, base) == IF base \in {0, Ones} THEN s
                           ELSE put(space, base, Exchanged(Raw(s, f, space, base), f, val))
        in(regions) == IF regions = {} THEN s
                       ELSE CHOOSE new \in {at(r.space, fld_base(s, r)) : r \in regions} : TRUE
    IN  in(RegionOf(s, f))

-----------------------------------------------------------------------------
(* The interpreter.  eval takes the term at p and returns the position past *)
(* it, a value, whether a return was met, and the state s with the objects, *)
(* the cells and the caller's context (args, locals, scope, depth).         *)

Void(p, s) == [p |-> p, v |-> 0, ret |-> FALSE, s |-> s]
Val(p, v, s) == [p |-> p, v |-> v % 2^WordBits, ret |-> FALSE, s |-> s]

Arith(op, a, b) ==
    CASE op = "add"  -> a + b
      [] op = "sub"  -> a - b + 2^WordBits
      [] op = "and"  -> a & b
      [] op = "or"   -> a | b

Logic(op, a, b) ==
    LET holds == CASE op = "land" -> a # 0 /\ b # 0
                   [] op = "lor"  -> a # 0 \/ b # 0
                   [] op = "eq"   -> a = b
                   [] op = "gt"   -> a > b
                   [] op = "lt"   -> a < b
    IN  IF holds THEN TrueValue ELSE 0

(* store_to: a local, an argument, a field or an integer; any other         *)
(* destination is skipped.                                                  *)
store_to(code, p, end, s, val) ==
    IF p > end THEN Void(p, s)
    ELSE LET t == code[p]
             at == IF t.op = "path" THEN ns_find(s.ns, s.ctx.scope, t.name) ELSE 0
             kind == IF at = 0 THEN "none" ELSE s.ns[at].type
         IN  Void(p + 1,
               CASE t.op = "local"  -> [s EXCEPT !.ctx.locals[t.i] = val]
                 [] t.op = "arg"    -> [s EXCEPT !.ctx.args[t.i] = val]
                 [] kind = "field"  -> fld_write(s, s.ns[at], val)
                 [] kind = "int"    -> [s EXCEPT !.ns[at].val = val]
                 [] OTHER           -> s)

NoArgs == [i \in 0..6 |-> 0]
NoLocals == [i \in 0..7 |-> 0]
Context(path, depth, args) ==
    [scope |-> Parent(path), depth |-> depth, args |-> args, locals |-> NoLocals]

RECURSIVE eval(_, _, _, _), exec_body(_, _, _, _), eval_args(_, _, _, _, _, _)

(* exec_body: term after term until one returns.                            *)
exec_body(code, p, end, s) ==
    IF p > end THEN Void(p, s)
    ELSE LET after(r) == IF r.ret \/ r.p > end THEN r ELSE exec_body(code, r.p, end, r.s)
         IN  after(eval(code, p, end, s))

(* The arguments i .. n - 1 of a call, missing ones stay 0.                 *)
eval_args(code, p, end, s, n, got) ==
    IF Len(got) = n \/ p > end THEN [p |-> p, s |-> s, got |-> got]
    ELSE LET after(r) == eval_args(code, r.p, end, r.s, n, Append(got, r.v))
         IN  after(eval(code, p, end, s))

(* A name: an integer, a field, or a call.  A call too deep gives nothing   *)
(* and leaves its arguments to be evaluated as terms of their own.          *)
eval_name(code, p, end, s) ==
    LET at == ns_find(s.ns, s.ctx.scope, code[p].name)
    IN  IF at = 0 THEN Void(p + 1, s)
        ELSE LET o == s.ns[at]
             IN  CASE o.type = "int"    -> Val(p + 1, o.val, s)
                   [] o.type = "field"  -> Val(p + 1, fld_read(s, o), s)
                   [] o.type = "region" -> Void(p + 1, s)
                   [] o.type = "method" ->
                        IF s.ctx.depth >= DepthMax THEN Void(p + 1, s)
                        ELSE LET a == eval_args(code, p + 1, end, s, o.argc, <<>>)
                                 args == [i \in 0..6 |-> IF i < Len(a.got) THEN a.got[i + 1] ELSE 0]
                                 in == [a.s EXCEPT !.ctx = Context(o.path, s.ctx.depth + 1, args)]
                                 r == exec_body(code, o.from, o.to, in)
                             IN  Val(a.p, r.v, [r.s EXCEPT !.ctx = a.s.ctx])

(* If and a trailing else; the block not taken is skipped.                  *)
eval_if(code, p, end, s) ==
    LET stop == IF p + code[p].len > end THEN end ELSE p + code[p].len
        cond == eval(code, p + 1, stop, s)
        taken == IF cond.v # 0 THEN exec_body(code, cond.p, stop, cond.s) ELSE Void(0, cond.s)
        hasElse == stop + 1 <= end /\ code[stop + 1].op = "else"
        estop == IF ~hasElse THEN stop
                 ELSE IF stop + 1 + code[stop + 1].len > end THEN end
                 ELSE stop + 1 + code[stop + 1].len
        other == IF hasElse /\ cond.v = 0 THEN exec_body(code, stop + 2, estop, taken.s) ELSE taken
    IN  [other EXCEPT !.p = estop + 1]

eval(code, p, end, s) ==
    IF p > end THEN Void(p, s)
    ELSE LET t == code[p]
             a == eval(code, p + 1, end, s)
             b == eval(code, a.p, end, a.s)
             stored(v, r) == [store_to(code, r.p, end, r.s, v % 2^WordBits)
                                EXCEPT !.v = v % 2^WordBits]
         IN  CASE t.op = "int"    -> Val(p + 1, t.val, s)
               [] t.op = "local"  -> Val(p + 1, s.ctx.locals[t.i], s)
               [] t.op = "arg"    -> Val(p + 1, s.ctx.args[t.i], s)
               [] t.op = "path"   -> eval_name(code, p, end, s)
               [] t.op = "return" -> [a EXCEPT !.ret = TRUE]
               [] t.op = "store"  -> stored(a.v, a)
               [] t.op \in {"add", "sub", "and", "or"} -> stored(Arith(t.op, a.v, b.v), b)
               [] t.op = "lnot"   -> Val(a.p, IF a.v = 0 THEN TrueValue ELSE 0, a.s)
               [] t.op \in {"land", "lor", "eq", "gt", "lt"} ->
                                     Val(b.p, Logic(t.op, a.v, b.v), b.s)
               [] t.op = "notify" -> Void(b.p, b.s)
               [] t.op \in {"sizeof", "sleep", "release"} -> Void(a.p, a.s)
               [] t.op = "index"  -> Void(b.p + 1, b.s)
               [] t.op = "if"     -> eval_if(code, p, end, s)
               [] t.op \in {"else", "while"} ->
                    Void(IF p + t.len > end THEN end + 1 ELSE p + t.len + 1, s)
               [] OTHER           -> Void(p + 1, s)

(* call_method1: a method by name with one argument.                        *)
call_method1(s, seg, arg) ==
    LET at == Named(s.ns, seg)
    IN  IF at = 0 THEN s
        ELSE IF s.ns[at].type # "method" THEN s
        ELSE exec_body(fw.code, s.ns[at].from, s.ns[at].to,
                [s EXCEPT !.ctx = Context(s.ns[at].path, 0, [NoArgs EXCEPT ![0] = arg])]).s

Machine == [ns |-> ns, io |-> io, wrote |-> {}, ctx |-> Context(<<>>, 0, NoArgs)]

-----------------------------------------------------------------------------
(* Tables.                                                                  *)

Root == IF fw.revision >= 2 /\ fw.xsdt # <<>> THEN fw.xsdt ELSE fw.rsdt
find_acpi_table(sig) == SelectSeq(Root, LAMBDA t : t.sig = sig)
Ssdts == find_acpi_table("SSDT")

Dsdt == IF fadt.revision >= 2 /\ fadt.x_dsdt # <<>> THEN Head(fadt.x_dsdt) ELSE fadt.dsdt

(* scan_table_for_s5: the first name _S5_ with a package, wherever it is.   *)
scan_table_for_s5(t) ==
    LET hits == {i \in t.from..t.to - 2 :
                    /\ fw.code[i].op = "name" /\ Last(fw.code[i+1].name.segs) = "_S5_"
                    /\ fw.code[i+2].op = "package"}
    IN  IF hits = {} THEN [a |-> Unset, b |-> Unset]
        ELSE LET vals == fw.code[Min(hits) + 2].vals
             IN  [a |-> vals[1] % 8, b |-> IF Len(vals) > 1 THEN vals[2] % 8 ELSE vals[1] % 8]

(* parse_s5 and init_aml go through the DSDT and then the SSDTs.            *)
FaultTables == Ssdts \o <<Dsdt>>

Tables == <<Dsdt>> \o Ssdts

parse_s5 ==
    FoldLeft(LAMBDA got, t : IF got.a = Unset THEN scan_table_for_s5(t) ELSE got,
             [a |-> Unset, b |-> Unset], Tables)

init_aml ==
    FoldLeft(LAMBDA objs, t : aml_scan(fw.code, t.from, t.to, <<>>, objs), <<>>, Tables)

AcpiInit ==
    /\ fw \in Firmwares
    /\ phase = "boot" /\ fadt = NoFadt /\ slp = [a |-> Unset, b |-> Unset]
    /\ ns = <<>> /\ io = fw.io /\ wrote = {}
    /\ pm = [r \in {"a", "b"} |-> [typ |-> 0, en |-> FALSE, rest |-> fw.rest]]

(* init_acpi.  Without a root pointer or a FADT nothing else is set up.     *)
find_tables ==
    /\ phase = "boot"
    /\ fadt' = IF fw.rsdp /\ find_acpi_table("FACP") # <<>>
               THEN Head(find_acpi_table("FACP")) ELSE NoFadt
    /\ phase' = IF fadt'.present THEN "found" ELSE "on"
    /\ UNCHANGED <<fw, slp, ns, io, pm, wrote>>

init_acpi ==
    /\ phase = "found"
    /\ slp' = parse_s5
    /\ ns' = init_aml
    /\ phase' = "on"
    /\ UNCHANGED <<fw, fadt, io, pm, wrote>>

-----------------------------------------------------------------------------
(* shutdown.  Interrupts are off from here on; each numbered comment of the *)
(* code is one step.                                                        *)

(* (uint8_t)0xFFFF is 0xFF, which becomes 7.  A type of 0 for the second     *)
(* register counts as absent.                                               *)
sleep_val == IF slp.a = Unset THEN 7 ELSE slp.a
sleep_val_b == IF slp.b \in {0, Unset} THEN sleep_val ELSE slp.b

Ran(s) == ns' = s.ns /\ io' = s.io /\ wrote' = s.wrote

CallPts ==
    /\ phase = "on" /\ fadt.present
    /\ Ran(call_method1(Machine, "_PTS", 5))
    /\ phase' = "pts"
    /\ UNCHANGED <<fw, fadt, slp, pm>>

(* aml_exec_pts, only for the firmwares that declare one of these names:    *)
(* SPTS, or the bits 7 at SCIO + 1 and SCIO + 5; then the field SLPN; then  *)
(* the byte SLPT at the address RAMB holds; then OEMS.                      *)
RaiseBit(s, a) ==
    [s EXCEPT !.io = [c \in IoCells |-> IF c = <<1, a>> /\ @[c] < 2^(ByteBits - 1)
                                        THEN @[c] + 2^(ByteBits - 1) ELSE @[c]],
              !.wrote = @ \cup {[space |-> 1, base |-> a, f |-> [off |-> ByteBits - 1, wid |-> 1]]}]

RaisePs1(s) ==
    LET spts == Named(s.ns, "SPTS")
        scio == Named(s.ns, "SCIO")
        isMethod == IF spts = 0 THEN FALSE ELSE s.ns[spts].type = "method"
        isInt == IF scio = 0 THEN FALSE ELSE s.ns[scio].type = "int"
    IN  IF isMethod THEN call_method1(s, "SPTS", sleep_val)
        ELSE IF isInt THEN RaiseBit(RaiseBit(s, s.ns[scio].val + 1), s.ns[scio].val + 5)
        ELSE s

FieldNamed(s, seg) ==
    LET at == Named(s.ns, seg)
    IN  IF at = 0 THEN {} ELSE IF s.ns[at].type = "field" THEN {s.ns[at]} ELSE {}

WriteSlpn(s) ==
    IF FieldNamed(s, "SLPN") = {} THEN s
    ELSE fld_write(s, CHOOSE f \in FieldNamed(s, "SLPN") : TRUE, sleep_val)

WriteSlpt(s) ==
    LET ramb == FieldNamed(s, "RAMB")
        slpt == FieldNamed(s, "SLPT")
        addr == IF ramb = {} THEN 0
                ELSE LET f == CHOOSE x \in ramb : TRUE
                         r == ns_exact(s.ns, f.rgn)
                     IN  IF r = 0 THEN 0
                         ELSE IF s.ns[r].type # "region" THEN 0
                         ELSE IF s.ns[r].space # 1 THEN 0
                         ELSE Cell(s, 1, s.ns[r].base + ByteOff(f))
    IN  IF addr \in {0, 2^ByteBits - 1} \/ slpt = {} THEN s
        ELSE LET a == addr + ByteOff(CHOOSE f \in slpt : TRUE)
             IN  [s EXCEPT !.io = [c \in IoCells |-> IF c = <<0, a>> THEN sleep_val ELSE @[c]],
                           !.wrote = @ \cup {[space |-> 0, base |-> a,
                                              f |-> [off |-> 0, wid |-> ByteBits]]}]

aml_exec_pts(s) == call_method1(WriteSlpt(WriteSlpn(RaisePs1(s))), "OEMS", sleep_val)

PlatformPrep ==
    /\ phase = "pts"
    /\ IF \A seg \in {"SPTS", "SLPN", "RAMB"} : Named(ns, seg) = 0
       THEN UNCHANGED <<ns, io>> /\ wrote' = {}
       ELSE Ran(aml_exec_pts(Machine))
    /\ phase' = "prepared"
    /\ UNCHANGED <<fw, fadt, slp, pm>>

(* PM1_CNT keeps all bits but the sleep type and the enable bit.  The       *)
(* second register comes first, if there is one.                            *)
Sleep(reg, typ) == [reg EXCEPT !.typ = typ, !.en = TRUE]

EnterSleep ==
    /\ phase = "prepared"
    /\ pm' = [pm EXCEPT !["b"] = IF fadt.pm1b THEN Sleep(@, sleep_val_b) ELSE @,
                        !["a"] = Sleep(@, sleep_val)]
    /\ wrote' = {}
    /\ phase' = "off"
    /\ UNCHANGED <<fw, fadt, slp, ns, io>>

(* Without a FADT shutdown stops the processor; reboot uses the reset       *)
(* register or the keyboard controller.                                     *)
Halt == /\ phase = "on" /\ ~fadt.present /\ phase' = "halted"
        /\ UNCHANGED <<fw, fadt, slp, ns, io, pm, wrote>>
reboot == /\ phase = "on" /\ phase' = "reset"
          /\ UNCHANGED <<fw, fadt, slp, ns, io, pm, wrote>>

AcpiNext == find_tables \/ init_acpi \/ CallPts \/ PlatformPrep \/ EnterSleep \/ Halt \/ reboot

AcpiSpec == AcpiInit /\ [][AcpiNext]_acpiVars

-----------------------------------------------------------------------------
BitAt(n, i) == (n \div 2^i) % 2
Covers(w, c, i) ==
    LET bit == (c[2] - w.base) * ByteBits + i
    IN  c[1] = w.space /\ bit >= w.f.off /\ bit < w.f.off + w.f.wid

(* FieldsApart: whatever the firmware's methods and the driver's own writes *)
(* do, a step changes no bit but those of the fields it writes to: a write  *)
(* of one field keeps its neighbours in the same byte, across bytes, and    *)
(* under a base address that is itself a field (acpi.c fld_write).          *)
FieldStep ==
    \A c \in {x \in IoCells : io'[x] # io[x]}, i \in 0..ByteBits-1 :
        BitAt(io[c], i) # BitAt(io'[c], i) => \E w \in wrote' : Covers(w, c, i)
FieldsApart == [][FieldStep]_acpiVars

(* OffAsDeclared: the machine is put to sleep with the types the first      *)
(* table that has an _S5_ package declares, the DSDT before the SSDTs, and  *)
(* with every other bit of the control registers as it was.  It leaves out  *)
(* a second type of 0, which shutdown takes for a missing one.              *)
OffAsDeclared ==
    phase = "off" =>
      LET s5(i) == scan_table_for_s5((<<Dsdt>> \o Ssdts)[i])
      IN  \A i \in 1..Len(Ssdts) + 1 :
            /\ s5(i).a # Unset
            /\ \A j \in 1..i-1 : s5(j).a = Unset
            => /\ pm["a"] = [typ |-> s5(i).a, en |-> TRUE, rest |-> fw.rest]
               /\ fadt.pm1b /\ s5(i).b # 0 =>
                     pm["b"] = [typ |-> s5(i).b, en |-> TRUE, rest |-> fw.rest]

(* The firmware's methods touch what they name, and the power goes off as   *)
(* the tables say.                                                          *)
PowerSound == FieldsApart /\ []OffAsDeclared

=============================================================================
