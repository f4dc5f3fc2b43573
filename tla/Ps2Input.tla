------------------------------ MODULE Ps2Input ------------------------------
(***************************************************************************)
(* The PS/2 keyboard and mouse, from the bytes the devices send to the     *)
(* events the readers of /dev/input get:                                   *)
(*   drivers/ps2/keyboard/keyboard.c, maps.c, loader.c  scan codes, keymap *)
(*   drivers/ps2/mouse/mouse.c                          packets            *)
(*   kernel/devices/input/kbd.c, mouse0.c               the device files   *)
(* One interrupt takes one byte.  A scan code is the key it stands for: of  *)
(* a keymap only what the keys of the model give is kept, of a motion byte  *)
(* only the bits a packet header has at the same place.                    *)
(***************************************************************************)
EXTENDS Integers, Sequences, SequencesExt, FiniteSets

CONSTANTS
    Keys,        \* keys the user has: "a", "enter", "lshift", "up", ...
    MapFiles,    \* the keymap files: name -> sequence of [key, normal, shift]
    KbdRing,     \* KEY_BUFFER_SIZE
    MouseRing,   \* MOUSE_BUF_SIZE
    MaxStray,    \* acknowledge bytes mouse_init may leave unread (6)
    MaxWire      \* bytes a device holds back until they are taken

Ps2Assumption == MouseRing \in Nat /\ MouseRing >= 2 /\ MaxStray \in Nat

VARIABLES
    \* keyboard
    down,     \* keys that are physically down
    kbWire,   \* bytes the keyboard has sent and no interrupt has taken
    kb,       \* shift, ctrl, alt, caps, extended
    keymap,   \* current_keymap
    kbRing,   \* key_buffer
    held,     \* keycodes the reader has seen pressed and not released
    \* mouse
    button,   \* the mouse button is down
    mWire,    \* bytes the mouse has sent
    pkt,      \* pkt[0 .. pkt_i - 1]
    mRing,    \* evbuf, as button states
    seen,     \* the button as the reader last saw it
    \* history
    shifted,  \* keys that were pressed under shift
    missed,   \* keys that lost an event to a full ring
    odd,      \* keys released under another case than they were pressed
    astray,   \* a byte that heads no packet was taken for the head of one
    stale,    \* the last packet gave no event
    small     \* bit 3 was clear in both motion bytes of the last packet

kbVars == <<down, kbWire, kb, keymap, kbRing, held, shifted, missed, odd>>
mouseVars == <<button, mWire, pkt, mRing, seen, astray, stale, small>>
ps2Vars == <<down, kbWire, kb, keymap, kbRing, held, shifted, missed, odd,
             button, mWire, pkt, mRing, seen, astray, stale, small>>

-----------------------------------------------------------------------------
(* loader.c, maps.c.  A line of a file sets what it names, a later line for *)
(* the same key wins; what no line names stays 0.                           *)

NoChar == ""
EmptyMap == [k \in Keys |-> [normal |-> NoChar, shift |-> NoChar]]

parse_keymap_data(lines) ==
    FoldLeft(LAMBDA km, l : IF l.key \in Keys
                            THEN [km EXCEPT ![l.key] = [normal |-> l.normal, shift |-> l.shift]]
                            ELSE km,
             EmptyMap, lines)

(* A file that is absent or empty is not loaded.                            *)
Loadable == {name \in DOMAIN MapFiles : MapFiles[name] # <<>>}

KeymapOrder == <<"US", "DE", "PL", "RU">>

(* keymap_init takes the first that loads; without one the table stays 0.   *)
keymap_init ==
    LET found == SelectSeq(KeymapOrder, LAMBDA name : name \in Loadable)
    IN  IF found = <<>> THEN EmptyMap ELSE parse_keymap_data(MapFiles[Head(found)])

-----------------------------------------------------------------------------
(* keyboard.c                                                               *)

Shifts == {"lshift", "rshift"}
Modifiers == Shifts \cup {"lctrl", "lalt"}
Arrows == {"up", "down", "left", "right"}
Extended == Arrows \cup {"home", "end", "pgup", "pgdn", "delete", "insert", "rctrl", "ralt"}
Silent == {"rctrl", "ralt"}
FunctionKeys == {"f1", "f2", "f3", "f4", "f5", "f6", "f7", "f8", "f9", "f10"}
Letters == {"a", "b", "c"}

Prefix == [key |-> "e0", up |-> FALSE]
Make(k) == IF k \in Extended THEN <<Prefix, [key |-> k, up |-> FALSE]>>
                             ELSE <<[key |-> k, up |-> FALSE]>>
Break(k) == IF k \in Extended THEN <<Prefix, [key |-> k, up |-> TRUE]>>
                              ELSE <<[key |-> k, up |-> TRUE]>>

Typed(k) == k \notin Arrows \cup Modifiers

FromTable(s, k) == IF s.shift THEN keymap[k].shift ELSE keymap[k].normal

(* The keycode of a press, NoChar if it gives none.  Caps lock turns a       *)
(* lower case letter of the table into upper case; shift has done so.        *)
UpperCase(c) == CASE c = "a" -> "A" [] c = "b" -> "B" [] c = "c" -> "C" [] OTHER -> c

PressCode(s, k) ==
    CASE s.extended               -> IF k \in Extended \ Silent THEN k ELSE NoChar
      [] k \in Modifiers          -> k
      [] k = "backspace"          -> "\\b"
      [] k = "enter"              -> IF s.shift THEN "\r" ELSE "\n"
      [] k \in FunctionKeys          -> k
      [] OTHER                    ->
            LET c == FromTable(s, k)
            IN  IF s.caps # s.shift THEN UpperCase(c) ELSE c

(* The keycode of a release: the table alone, and only arrows if extended.  *)
ReleaseCode(s, k) ==
    CASE s.extended      -> IF k \in Arrows THEN k ELSE NoChar
      [] k \in Modifiers -> k
      [] OTHER           -> FromTable(s, k)

(* What a byte does to the flags.  The prefix lasts for one byte; both      *)
(* shift keys share a flag; a modifier after a prefix is not one.           *)
FaultFlags(s, b) ==
    IF b = Prefix THEN [s EXCEPT !.extended = TRUE]
    ELSE IF s.extended THEN [s EXCEPT !.extended = b.up]
    ELSE [s EXCEPT !.shift = IF b.key \in Shifts THEN ~b.up ELSE @,
                   !.ctrl = IF b.key = "lctrl" THEN ~b.up ELSE @,
                   !.alt = IF b.key = "lalt" THEN ~b.up ELSE @,
                   !.caps = IF b.key = "caps" /\ ~b.up THEN ~@ ELSE @]

Flags(s, b) ==
    IF b = Prefix THEN [s EXCEPT !.extended = TRUE]
    ELSE IF s.extended THEN [s EXCEPT !.extended = FALSE]
    ELSE [s EXCEPT !.shift = IF b.key \in Shifts THEN ~b.up ELSE @,
                   !.ctrl = IF b.key = "lctrl" THEN ~b.up ELSE @,
                   !.alt = IF b.key = "lalt" THEN ~b.up ELSE @,
                   !.caps = IF b.key = "caps" /\ ~b.up THEN ~@ ELSE @]

(* keyboard_put_event drops the newest event when the ring is full.         *)
keyboard_put_event(ring, e) == IF Len(ring) >= KbdRing THEN ring ELSE Append(ring, e)

Code(b) ==
    CASE b = Prefix                                   -> NoChar
      [] b.key = "caps" /\ ~b.up /\ ~kb.extended      -> NoChar
      [] OTHER -> IF b.up THEN ReleaseCode(kb, b.key) ELSE PressCode(kb, b.key)

keyboard_irq_handler ==
    /\ kbWire # <<>>
    /\ LET b == Head(kbWire)
       IN  /\ kb' = Flags(kb, b)
           /\ IF Code(b) = NoChar THEN UNCHANGED <<kbRing, shifted, missed, odd>>
              ELSE /\ kbRing' = keyboard_put_event(kbRing, [code |-> Code(b), pressed |-> ~b.up])
                   /\ missed' = IF kbRing' = kbRing THEN missed \cup {b.key} ELSE missed
                   /\ shifted' = IF kb.shift /\ ~b.up /\ Typed(b.key)
                                 THEN shifted \cup {b.key} ELSE shifted \ {b.key}
                   /\ odd' = IF \/ b.up /\ (b.key \in shifted) # kb.shift
                                \/ ~b.up /\ b.key \in Letters /\ kb.caps
                                \/ ~b.up /\ b.key = "enter" /\ kb.shift
                             THEN odd \cup {k \in {b.key} : Typed(k)} ELSE odd
    /\ kbWire' = Tail(kbWire)
    /\ UNCHANGED <<down, keymap, held>>

(* The user.                                                                *)
Press(k) ==
    /\ k \notin down
    /\ Len(kbWire) + Len(Make(k)) <= MaxWire
    /\ down' = down \cup {k}
    /\ kbWire' = kbWire \o Make(k)
    /\ UNCHANGED <<kb, keymap, kbRing, held, shifted, missed, odd>>

Release(k) ==
    /\ k \in down
    /\ Len(kbWire) + Len(Break(k)) <= MaxWire
    /\ down' = down \ {k}
    /\ kbWire' = kbWire \o Break(k)
    /\ UNCHANGED <<kb, keymap, kbRing, held, shifted, missed, odd>>

(* kbd_dev_read: the first n events, n the number that fit the buffer.      *)
Seen(h, e) == IF e.pressed THEN h \cup {e.code} ELSE h \ {e.code}

kbd_dev_read(room) ==
    LET n == IF room < Len(kbRing) THEN room ELSE Len(kbRing)
    IN  /\ held' = FoldLeft(Seen, held, SubSeq(kbRing, 1, n))
        /\ kbRing' = SubSeq(kbRing, n + 1, Len(kbRing))
        /\ UNCHANGED <<down, kbWire, kb, keymap, shifted, missed, odd>>

-----------------------------------------------------------------------------
(* mouse.c.  A byte is its place in the packet and the bits a header would  *)
(* have there: sync (bit 3), over (bits 6 and 7), btn (bit 0).              *)

MByte(place, sync, over, btn) == [place |-> place, sync |-> sync, over |-> over, btn |-> btn]

(* 0xFA, the acknowledgement of a command.  ps2_wait_r does not wait while  *)
(* the status register is anything but 0, so mouse_init reads too early and *)
(* may leave up to MaxStray of them behind.                                 *)
Ack == MByte(3, TRUE, TRUE, FALSE)

(* A packet.  It moves by little (bit 3 of the motion bytes clear) or not.  *)
MouseMoves(press, over) ==
    /\ mWire = <<>>
    /\ \E syncX, syncY \in BOOLEAN :
         /\ mWire' = << MByte(0, TRUE, over, press),
                        MByte(1, syncX, FALSE, FALSE), MByte(2, syncY, FALSE, TRUE) >>
         /\ small' = ~(syncX \/ syncY)
    /\ button' = press
    /\ UNCHANGED <<pkt, mRing, seen, astray, stale>>

FaultSync(b) == TRUE
Sync(b) == b.sync

ev_push(ring, ev) == IF Len(ring) + 1 < MouseRing THEN Append(ring, ev) ELSE ring

mouse_irq ==
    /\ mWire # <<>>
    /\ mWire' = Tail(mWire)
    /\ LET b == Head(mWire)
           full == Append(pkt, b)
       IN  IF pkt = <<>> /\ ~Sync(b) THEN UNCHANGED <<pkt, mRing, astray, stale>>
           ELSE /\ astray' = IF pkt = <<>> THEN b.place # 0 ELSE astray
                /\ IF Len(full) < 3 THEN pkt' = full /\ UNCHANGED <<mRing, stale>>
                   ELSE /\ pkt' = <<>>
                        /\ IF full[1].over THEN stale' = TRUE /\ UNCHANGED mRing
                           ELSE /\ mRing' = ev_push(mRing, full[1].btn)
                                /\ stale' = (mRing' = mRing)
    /\ UNCHANGED <<button, seen, small>>

mouse0_read(room) ==
    LET n == IF room < Len(mRing) THEN room ELSE Len(mRing)
    IN  /\ seen' = IF n > 0 THEN mRing[n] ELSE seen
        /\ mRing' = SubSeq(mRing, n + 1, Len(mRing))
        /\ UNCHANGED <<button, mWire, pkt, astray, stale, small>>

-----------------------------------------------------------------------------
Ps2Init ==
    /\ down = {} /\ kbWire = <<>> /\ kbRing = <<>> /\ held = {}
    /\ kb = [shift |-> FALSE, ctrl |-> FALSE, alt |-> FALSE, caps |-> FALSE,
             extended |-> FALSE]
    /\ keymap = keymap_init
    /\ shifted = {} /\ missed = {} /\ odd = {}
    /\ button = FALSE /\ pkt = <<>> /\ mRing = <<>> /\ seen = FALSE
    /\ astray = FALSE /\ stale = FALSE /\ small = FALSE
    /\ \E n \in 0..MaxStray : mWire = [i \in 1..n |-> Ack]

KeyboardNext ==
    /\ \/ \E k \in Keys : Press(k) \/ Release(k)
       \/ keyboard_irq_handler
       \/ \E room \in 1..KbdRing : kbRing # <<>> /\ kbd_dev_read(room)
    /\ UNCHANGED mouseVars

MouseNext ==
    /\ \/ \E press, over \in BOOLEAN : MouseMoves(press, over)
       \/ mouse_irq
       \/ \E room \in 1..MouseRing : mRing # <<>> /\ mouse0_read(room)
    /\ UNCHANGED kbVars

Ps2Next == KeyboardNext \/ MouseNext

Ps2Spec == Ps2Init /\ [][Ps2Next]_ps2Vars

-----------------------------------------------------------------------------
(* The keycodes of a key the driver sends a release event for.              *)
CodesOf(k) ==
    CASE k \in Arrows \cup Modifiers                     -> {k}
      [] k \in Extended \cup FunctionKeys \cup {"caps"} -> {}
      [] NoChar \in {keymap[k].normal, keymap[k].shift}  -> {}
      [] OTHER -> {keymap[k].normal, keymap[k].shift}

(* Once every byte is taken and every event is read, the reader of           *)
(* /dev/input/keyboard0 holds a key exactly if the user does.  It leaves     *)
(* out what the driver is known to get wrong: keys it sends no release for,  *)
(* keys that once lost an event to a full ring (keyboard.c:38), and keys     *)
(* released under another shift or caps lock than they were pressed under    *)
(* (keyboard.c:99).                                                          *)
KeysFollow ==
    kbWire = <<>> /\ kbRing = <<>> =>
      \A k \in {x \in Keys : CodesOf(x) # {}} \ (missed \cup odd) :
        (CodesOf(k) \cap held # {}) <=> (k \in down)

(* A packet of a small motion puts the driver back in step, whatever it took *)
(* for a header before; and once every byte is taken and every event is      *)
(* read, the reader of /dev/input/mouse0 has the button as it is, unless the *)
(* last packet was discarded or taken out of step: an event lost to a full   *)
(* ring is made good by the next (mouse.c mouse_irq, ev_push).               *)
ButtonsFollow ==
    mWire = <<>> =>
      /\ small => pkt = <<>>
      /\ mRing = <<>> /\ ~astray /\ ~stale => seen = button

=============================================================================
