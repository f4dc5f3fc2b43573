------------------------------- MODULE Screen -------------------------------
(***************************************************************************)
(* The boot screens (kernel_processes/bootscreen), the kernel's log on     *)
(* them, their hand-over to the first program (kernel/user.c), the panic   *)
(* screen and /dev/fb0.                                                    *)
(*                                                                         *)
(* There are four screens.  Each has a buffer of pixels, a region of the   *)
(* frame buffer, a text cursor, and a flag that says whether it is copied  *)
(* to the frame buffer at all.  Text is drawn into the buffer of the       *)
(* ACTIVE screen, the rows it touched are kept as one "dirty" range, and   *)
(* the range is copied when the string ends; a scroll copies at once.      *)
(*                                                                         *)
(* A pixel is a member of a small set: a glyph is one pixel wide and       *)
(* CharHeight high, with its code in the first row.  The whole state of    *)
(* the screens is the record g: the code passes it from call to call.      *)
(* Pixels are copied by mem.c's memcpy, two at a time: it is exact for what *)
(* ScreenAssumption says.  The log is bytes, and not always exact.          *)
(***************************************************************************)
EXTENDS Integers, Sequences, SequencesExt, FiniteSets

CONSTANTS FbW, FbH,      \* the size of the frame buffer in pixels
          Leading,       \* rows between two lines (2 * font_scale)
          LogMax,        \* BS_LOG_MAX
          Word, Junk,    \* of MemLib
          FormatMax,     \* the buffer of log_printf
          Texts,         \* what the kernel logs: sequences of bytes
          Formats,       \* what it logs through log_printf
          MaxSaid,       \* bound: bytes printed on BS1 between two clears
          Counts,        \* how many pixels a program writes at once
          Colours,       \* the pixels a program draws
          MaxDraws       \* bound: what programs draw and read

Mem == INSTANCE MemLib

\* Regions and glyphs begin at even pixels, and programs write an even number.
ScreenAssumption == FbW % 4 = 0 /\ \A c \in Counts : c % 2 = 0

VARIABLES g, debug, said, draws

screenVars == <<g, debug, said, draws>>

Screens == {"BS1", "BS2", "BS3", "BS4"}
User    == "BS3"                             \* USER_SCREEN_MODE
Half    == FbW \div 2
Low     == FbH \div 2
CharHeight == 1
LineHeight == CharHeight + Leading

Zero  == "0"                                 \* memset
Black == "black"                             \* 0xff000000
Alarm == "alarm"                             \* PANIC_BG
Clear == "clear"                             \* a pixel of a program whose alpha is 0

Lesser(a, b) == IF a < b THEN a ELSE b
Region(x, y, w, h) == [x |-> x, y |-> y, w |-> w, h |-> h]
Origin == [x |-> 0, y |-> 0]

-----------------------------------------------------------------------------
(* boot.c: the buffers and the frame buffer                                *)

\* Rows r0 .. r1-1 and columns c0 .. c1-1 of a screen's buffer go to the
\* frame buffer at the place of its region.
Copied(h, s, r0, r1, c0, c1) ==
    LET a == h.area[s]
    IN [h EXCEPT !.fb = [p \in DOMAIN h.fb |->
            LET row == p \div FbW - a.y
                col == (p % FbW) - a.x
            IN IF row >= r0 /\ row < r1 /\ col >= c0 /\ col < c1
               THEN h.buf[s][row * a.w + col] ELSE h.fb[p]]]

bs_blit_screen(h, s) ==
    IF h.visible[s] THEN Copied(h, s, 0, h.area[s].h, 0, h.area[s].w) ELSE h

\* Whole rows of the active screen.
bs_flush_rows(h, y, count) ==
    IF h.visible[h.active]
    THEN Copied(h, h.active, y, Lesser(y + count, h.area[h.active].h),
                0, h.area[h.active].w)
    ELSE h

\* A rectangle of a screen, seen or not.
bs_flush_rect_screen(h, s, x, y, w, rows) ==
    Copied(h, s, y, Lesser(y + rows, h.area[s].h), x, Lesser(x + w, h.area[s].w))

bs_flush_rect(h, x, y, w, rows) ==
    IF h.visible[h.active] THEN bs_flush_rect_screen(h, h.active, x, y, w, rows)
    ELSE h

Filled(h, s, colour) ==
    [h EXCEPT !.buf[s] = [i \in DOMAIN @ |->
        IF i < h.area[s].w * h.area[s].h THEN colour ELSE @[i]]]

bs_clear_screen(h, s, colour) == bs_blit_screen(Filled(h, s, colour), s)

\* clear() of graph/graphics.c
clear(h, s, colour) == [bs_clear_screen(h, s, colour) EXCEPT !.cursor[s] = Origin]

bs_backbuf_clear(h, colour) == bs_clear_screen(h, h.active, colour)

bs_set_region(h, s, x, y, w, rows) == [h EXCEPT !.area[s] = Region(x, y, w, rows)]

draw_rect(h, x, y, w, rows, colour) ==
    LET a == h.area[h.active]
    IN bs_flush_rect(
         [h EXCEPT !.buf[h.active] = [i \in DOMAIN @ |->
            IF i % a.w \in x .. (x + w - 1) /\ i \div a.w \in y .. (y + rows - 1)
            THEN colour ELSE @[i]]], x, y, w, rows)

-----------------------------------------------------------------------------
(* The log kept of a screen                                                *)

Nul == "nul"
bs_log_start(h, s) ==
    [h EXCEPT !.logging[s] = TRUE, !.length[s] = 0, !.log[s] = [i \in 1 .. LogMax |-> Nul]]
bs_log_stop(h, s)  == [h EXCEPT !.logging[s] = FALSE]

\* The text goes behind the log by memcpy, then the end of the string.
bs_log_write(h, s, text) ==
    LET at  == h.length[s]
        len == IF at + Len(text) >= LogMax THEN LogMax - at - 1 ELSE Len(text)
    IN IF h.logging[s] /\ len > 0
       THEN [h EXCEPT !.length[s] = at + len,
                      !.log[s] = [Mem!memcpy(@, at, SubSeq(text, 1, len)) EXCEPT ![at + len + 1] = Nul]]
       ELSE h

\* The bytes up to the end of the string; fs_open with O_CREAT gives no file
\* when the directory is missing.
bs_log_save(h, s, dir) ==
    LET end == SelectInSeq(h.log[s], LAMBDA b : b = Nul)
    IN IF dir THEN [h EXCEPT !.file = SubSeq(h.log[s], 1, end - 1)] ELSE h

-----------------------------------------------------------------------------
(* print.c                                                                 *)

\* One character: its code and how many bytes it took.  A byte that starts no
\* whole sequence is a question mark.
utf8_next_codepoint(text) ==
    LET need == CASE Head(text) = "L2" -> 1 [] Head(text) = "L3" -> 2
                  [] Head(text) = "L4" -> 3 [] OTHER -> 0
        whole == Len(text) > need /\ \A i \in 2 .. (need + 1) : text[i] = "C"
    IN CASE Head(text) = "C"        -> [cp |-> "?", took |-> 1]
         [] need = 0                -> [cp |-> Head(text), took |-> 1]
         [] need > 0 /\ whole       -> [cp |-> "u", took |-> need + 1]
         [] OTHER                   -> [cp |-> "?", took |-> 1]

NoDirt == [from |-> FbH + 1, to |-> 0]
dirty_reset(h) == [h EXCEPT !.dirty = NoDirt]
dirty_mark(h, y, rows) ==
    [h EXCEPT !.dirty.from = Lesser(@, y),
              !.dirty.to   = IF y + rows > @ THEN y + rows ELSE @]
dirty_flush(h) ==
    IF h.dirty.from > h.dirty.to THEN h
    ELSE dirty_reset(bs_flush_rows(h, h.dirty.from, h.dirty.to - h.dirty.from))

putchar_at(h, cp, x, y) ==
    LET s == h.active
        a == h.area[s]
        drawn == IF y < a.h /\ x < a.w
                 THEN [h EXCEPT !.buf[s][y * a.w + x] = cp] ELSE h
    IN dirty_mark(drawn, y, CharHeight)

\* Everything moves up by a line, the last line is zeroed, and the whole
\* screen is copied: what was dirty is clean.
Shifted(h, by) ==
    LET s == h.active
        a == h.area[s]
    IN [h EXCEPT !.buf[s] = [i \in DOMAIN @ |->
            IF i >= a.w * a.h THEN @[i]
            ELSE IF i \div a.w < a.h - by THEN @[i + by * a.w] ELSE Zero]]
\* bug: only the line that was cleared is copied after a scroll
FaultScroll(h) ==
    LET a == h.area[h.active]
    IN dirty_reset(bs_flush_rect(Shifted(h, LineHeight), 0, a.h - LineHeight,
                                 a.w, LineHeight))

bs_scroll(h) ==
    LET a == h.area[h.active]
    IN dirty_reset(bs_flush_rect(Shifted(h, LineHeight), 0, 0, a.w, a.h))

\* The cursor goes to the next line; one that would not fit scrolls.
NextLine(h) ==
    LET s == h.active
        y == h.cursor[s].y + LineHeight
        moved == [h EXCEPT !.cursor[s] = [x |-> 0, y |-> y]]
    IN IF y + CharHeight > h.area[s].h
       THEN [bs_scroll(moved) EXCEPT !.cursor[s].y = y - LineHeight]
       ELSE moved

\* bug: a wrapped line takes the cursor down but never scrolls
WrapOnly(h) ==
    [h EXCEPT !.cursor[h.active] = [x |-> 0, y |-> @.y + LineHeight]]

FaultPutcodepoint(h, cp) ==
    IF cp = "nl" THEN NextLine(h)
    ELSE LET s == h.active
             t == IF h.cursor[s].x + 1 >= h.area[s].w THEN WrapOnly(h) ELSE h
         IN [putchar_at(t, cp, t.cursor[s].x, t.cursor[s].y)
                EXCEPT !.cursor[s].x = @ + 1]

putcodepoint(h, cp) ==
    IF cp = "nl" THEN NextLine(h)
    ELSE LET s == h.active
             t == IF h.cursor[s].x + 1 >= h.area[s].w THEN NextLine(h) ELSE h
         IN [putchar_at(t, cp, t.cursor[s].x, t.cursor[s].y)
                EXCEPT !.cursor[s].x = @ + 1]

\* The characters of a text, in order.
Codes(text) ==
    LET after[n \in 0 .. Len(text)] ==
            IF n = 0 THEN [rest |-> text, cps |-> <<>>]
            ELSE LET b == after[n - 1]
                     c == utf8_next_codepoint(b.rest)
                 IN IF b.rest = <<>> THEN b
                    ELSE [rest |-> SubSeq(b.rest, c.took + 1, Len(b.rest)),
                          cps  |-> Append(b.cps, c.cp)]
    IN after[Len(text)].cps

string(h, text) ==
    dirty_flush(FoldLeft(putcodepoint,
                         dirty_reset(bs_log_write(h, h.active, text)), Codes(text)))

print_to(h, s, text) ==
    [string([h EXCEPT !.active = s], text) EXCEPT !.active = h.active]

\* log.c; everything the kernel logs goes to BS1 (SCREENMODE)
log_message(h, tag, text) ==
    print_to(print_to(print_to(h, "BS1", tag), "BS1", <<" ">>), "BS1", text)

\* The pieces of a format and its arguments, put together and cut at the
\* size of the buffer.
Formatted(pieces) ==
    LET all == FlattenSeq(pieces)
    IN SubSeq(all, 1, Lesser(Len(all), FormatMax - 1))
log_printf(h, tag, pieces) == log_message(h, tag, Formatted(pieces))

Tag  == <<"t">>
Line == <<"m", "nl">>                        \* one of the kernel's own messages
Logged(text) == Tag \o <<" ">> \o text

bs_switch(h, s) == log_message(bs_blit_screen([h EXCEPT !.active = s], s), Tag, Line)

-----------------------------------------------------------------------------
(* Boot                                                                    *)

bs_init_screens(h) ==
    [h EXCEPT !.visible = [s \in Screens |-> TRUE],
              !.cursor  = [s \in Screens |-> Origin],
              !.area    = [s \in Screens |->
                             CASE s = "BS1" -> Region(0, 0, Half, FbH)
                               [] s = "BS2" -> Region(Half, 0, FbW - Half, FbH)
                               [] OTHER     -> Region(0, 0, FbW, FbH)],
              !.buf     = [s \in Screens |->
                             [i \in 0 .. ((IF s \in {"BS1", "BS2"} THEN FbW - Half ELSE FbW) * FbH - 1)
                                |-> Zero]]]

ClearAll(h, colour) == FoldLeft(LAMBDA a, s : clear(a, s, colour), h,
                                <<"BS1", "BS2", "BS3", "BS4">>)

\* The box, the logo and one line of text on BS4, which stays active.
loading_screen(h) ==
    LET t == log_message([bs_switch(h, "BS4") EXCEPT !.active = "BS4"], Tag, Line)
        u == draw_rect(Filled(t, "BS4", Zero), 1, 1, FbW - 2, FbH - 2, "logo")
        v == print_to([u EXCEPT !.cursor["BS4"] = [x |-> 1, y |-> 1]], "BS4", <<"l">>)
    IN bs_blit_screen(v, "BS4")

\* The logo and what is known of the machine, on BS2.
bs2_draw_info(h) ==
    LET t == [Filled(h, "BS2", Zero) EXCEPT !.active = "BS2",
                                            !.buf["BS2"][0] = "logo",
                                            !.cursor["BS2"] = [x |-> 0, y |-> LineHeight]]
        u == bs_flush_rect(print_to(t, "BS2", <<"i", "nl", "i">>), 0, 0,
                           t.area["BS2"].w, t.area["BS2"].h)
    IN [u EXCEPT !.active = h.active]

\* init_bootscreen, in three pieces: the buffers, what is on them, the log.
ClearedScreens(h) == ClearAll(log_message(bs_init_screens(h), Tag, Line), Black)

DrawnScreens(h) ==
    LET v == [h EXCEPT !.visible = [s \in Screens |-> debug \/ s \in {"BS3", "BS4"}]]
    IN IF debug THEN bs2_draw_info(bs_switch(v, "BS2")) ELSE loading_screen(bs_switch(v, "BS4"))

LoggedScreens(h) == bs_log_start(bs_switch(h, "BS1"), "BS1")

uninit_bootscreen(h, dir) ==
    bs_log_save(log_message(bs_log_stop(log_message(h, Tag, Line), "BS1"), Tag, Line),
                "BS1", dir)

\* uproc() of kernel/user.c, in two pieces.
BareScreens(h) ==
    bs_backbuf_clear(ClearAll([h EXCEPT !.visible = [s \in Screens |-> s # "BS4"]], Black), Zero)

HandedOver(h, dir) ==
    LET c == bs_set_region(uninit_bootscreen(h, dir), "BS1", 0, 0, Half, Low)
        d == bs_set_region(c, "BS2", 0, Low, Half, FbH - Low)
        e == bs_set_region(d, User, 0, 0, FbW, FbH)
    IN bs_switch(bs_set_region(e, "BS4", 0, 0, FbW, FbH), User)

-----------------------------------------------------------------------------
(* The steps                                                               *)

ScreenInit ==
    /\ debug \in BOOLEAN                        \* BS_DEBUG
    /\ said = <<>> /\ draws = 0
    /\ g = [phase |-> "off", active |-> "BS1", dirty |-> NoDirt,
            fb      |-> [p \in 0 .. (FbW * FbH - 1) |-> Zero],
            visible |-> [s \in Screens |-> FALSE],
            cursor  |-> [s \in Screens |-> Origin],
            area    |-> [s \in Screens |-> Region(0, 0, 0, 0)],
            buf     |-> [s \in Screens |-> [i \in {} |-> Zero]],
            logging |-> [s \in Screens |-> FALSE],
            length  |-> [s \in Screens |-> 0],
            log     |-> [s \in Screens |-> <<>>],
            file    |-> <<>>, wpos |-> 0, rpos |-> 0, got |-> <<>>, behind |-> {}]

\* said: what was logged since BS1 was cleared, in order.
ClearScreens ==
    /\ g.phase = "off"
    /\ g' = [ClearedScreens(g) EXCEPT !.phase = "cleared"]
    /\ UNCHANGED <<debug, said, draws>>

DrawScreens ==
    /\ g.phase = "cleared"
    /\ g' = [DrawnScreens(g) EXCEPT !.phase = "drawn"]
    /\ said' = FlattenSeq([i \in 1 .. (IF debug THEN 1 ELSE 3) |-> Logged(Line)])
    /\ UNCHANGED <<debug, draws>>

StartLog ==
    /\ g.phase = "drawn"
    /\ g' = [LoggedScreens(g) EXCEPT !.phase = "boot"]
    /\ said' = said \o Logged(Line)
    /\ UNCHANGED <<debug, draws>>

Room(text) == Len(said) + Len(text) <= MaxSaid

KernelLogs == \E text \in Texts :
    /\ g.phase \in {"boot", "user"} /\ Room(Logged(text))
    /\ g' = log_message(g, Tag, text)
    /\ said' = said \o Logged(text)
    /\ UNCHANGED <<debug, draws>>

KernelFormats == \E pieces \in Formats :
    /\ g.phase \in {"boot", "user"} /\ Room(Logged(Formatted(pieces)))
    /\ g' = log_printf(g, Tag, pieces)
    /\ said' = said \o Logged(Formatted(pieces))
    /\ UNCHANGED <<debug, draws>>

LeaveBoot ==
    /\ g.phase = "boot"
    /\ g' = [BareScreens(g) EXCEPT !.phase = "bare"]
    /\ said' = <<>>
    /\ UNCHANGED <<debug, draws>>

HandOver == \E dir \in BOOLEAN :
    /\ g.phase = "bare"
    /\ g' = [HandedOver(g, dir) EXCEPT !.phase = "user"]
    /\ said' = FlattenSeq([i \in 1 .. 3 |-> Logged(Line)])
    /\ UNCHANGED <<debug, draws>>

\* panic(): all four screens in one colour, then the message on BS1.
Panic ==
    /\ g.phase \in {"boot", "user"}
    /\ g' = [print_to(ClearAll(log_message(g, Tag, Line), Alarm), "BS1", <<"nl", "p", "nl">>)
               EXCEPT !.phase = "halted"]
    /\ said' = <<"nl", "p", "nl">>
    /\ UNCHANGED <<debug, draws>>

-----------------------------------------------------------------------------
(* /dev/fb0                                                                *)

fb0_open ==
    /\ g.phase = "user" /\ (g.wpos # 0 \/ g.rpos # 0)
    /\ g' = [g EXCEPT !.wpos = 0, !.rpos = 0]
    /\ UNCHANGED <<debug, said, draws>>

fb0_read == \E count \in Counts :
    /\ g.phase = "user" /\ draws < MaxDraws
    /\ LET n == Lesser(count, FbW * FbH - g.rpos)
       IN /\ n > 0
          /\ g' = [g EXCEPT !.got = [i \in 1 .. n |-> g.buf[User][g.rpos + i - 1]],
                            !.rpos = @ + n]
    /\ draws' = draws + 1
    /\ UNCHANGED <<debug, said>>

\* Pixels go into the user's screen from the shared position on; what is copied
\* is a rectangle that begins where they begin and is cut at the right edge.
\* A write from the middle of a row that goes past its end leaves behind what
\* lies to the left of its beginning in the rows after (history: behind).
LeftBehind(at, n) == {p \in at .. (at + n - 1) : p % FbW < at % FbW}

fb0_write == \E count \in Counts, c \in Colours :
    /\ g.phase = "user" /\ draws < MaxDraws
    /\ LET at == IF g.wpos >= FbW * FbH THEN 0 ELSE g.wpos
           n  == Lesser(count, FbW * FbH - at)
           h  == [g EXCEPT !.wpos = at + n,
                           !.behind = (@ \ (at .. (at + n - 1))) \cup LeftBehind(at, n),
                           !.buf[User] = [i \in DOMAIN @ |->
                               IF i >= at /\ i < at + n THEN c ELSE @[i]]]
       IN g' = bs_flush_rect_screen(h, User, at % FbW, at \div FbW,
                                    Lesser(n, FbW), (n + FbW - 1) \div FbW)
    /\ draws' = draws + 1
    /\ UNCHANGED <<debug, said>>

Rects == {Region(0, 0, 2, 2), Region(FbW - 1, FbH - 1, 2, 2)}
InRect(i, r) == /\ i % FbW \in r.x .. (r.x + r.w - 1)
                /\ i \div FbW \in r.y .. (r.y + r.h - 1)

\* FBIO_BLIT: into the buffer and the frame buffer at once; transparent pixels
\* and what lies outside are left.
Blit == \E r \in Rects, c \in Colours \cup {Clear} :
    /\ g.phase = "user" /\ draws < MaxDraws
    /\ LET Put(f) == [i \in DOMAIN f |-> IF InRect(i, r) /\ c # Clear THEN c ELSE f[i]]
       IN g' = [g EXCEPT !.fb = Put(@), !.buf[User] = Put(@)]
    /\ draws' = draws + 1
    /\ UNCHANGED <<debug, said>>

FBIO_RESET_POS ==
    /\ g.phase = "user" /\ g.wpos # 0
    /\ g' = [g EXCEPT !.wpos = 0]
    /\ UNCHANGED <<debug, said, draws>>

\* FBIO_READ_RECT reads the frame buffer, not the user's screen; rows below it
\* leave the caller's pixels as they were.
ReadRect == \E r \in Rects :
    /\ g.phase = "user" /\ draws < MaxDraws
    /\ g' = [g EXCEPT !.got = [i \in 1 .. (r.w * r.h) |->
                LET x == r.x + ((i - 1) % r.w)
                    y == r.y + (i - 1) \div r.w
                IN CASE y >= FbH -> Junk
                     [] y < FbH /\ x >= FbW -> Zero
                     [] OTHER -> g.fb[y * FbW + x]]]
    /\ draws' = draws + 1
    /\ UNCHANGED <<debug, said>>

ScreenNext == \/ ClearScreens \/ DrawScreens \/ StartLog \/ KernelLogs \/ KernelFormats
              \/ LeaveBoot \/ HandOver \/ Panic
              \/ fb0_open \/ fb0_read \/ fb0_write \/ FBIO_RESET_POS \/ Blit \/ ReadRect

ScreenSpec == ScreenInit /\ [][ScreenNext]_screenVars

-----------------------------------------------------------------------------
(* What must hold                                                          *)

\* The rows a text fills: a new one after each new line and whenever a
\* character finds only the last column left.
TextRows(text, cols) ==
    FoldLeft(LAMBDA rows, c :
                LET last == rows[Len(rows)]
                IN IF c = "nl" THEN Append(rows, <<>>)
                   ELSE IF Len(last) = cols THEN Append(rows, <<c>>)
                   ELSE [rows EXCEPT ![Len(rows)] = Append(@, c)],
             <<<<>>>>, Codes(text))

\* Whatever mixture of newlines, wraps, clears and changes of the region has
\* been, BS1's buffer shows the last rows of what the kernel printed, each
\* where it belongs, and nothing else.
PrintedShown ==
    g.phase # "off" =>
        LET a    == g.area["BS1"]
            fit  == Cardinality({n \in 0 .. (a.h - 1) : n * LineHeight + CharHeight <= a.h})
            rows == TextRows(said, a.w - 1)
            skip == IF Len(rows) > fit THEN Len(rows) - fit ELSE 0
        IN \A i \in 0 .. (a.w * a.h - 1) :
              LET row == i \div a.w
                  n   == row \div LineHeight + 1 + skip
                  x   == (i % a.w) + 1
              IN IF row % LineHeight = 0 /\ n <= Len(rows) /\ x <= Len(rows[n])
                 THEN g.buf["BS1"][i] = rows[n][x]
                 ELSE g.buf["BS1"][i] \in {Zero, Black, Alarm}

\* A pixel of the frame buffer is the one of the screen it belongs to: at
\* boot the two halves or the loading screen, later the user's screen, except
\* where the kernel has written over it since and but for the pixels a write
\* over the end of a row leaves behind.
Shown(s, p) ==
    LET a == g.area[s]
    IN g.fb[p] = g.buf[s][(p \div FbW - a.y) * a.w + ((p % FbW) - a.x)]
Within(s, p) ==
    LET a == g.area[s]
    IN /\ p % FbW \in a.x .. (a.x + a.w - 1)
       /\ p \div FbW \in a.y .. (a.y + a.h - 1)

FramebufferShows ==
    \A p \in 0 .. (FbW * FbH - 1) :
        CASE g.phase = "boot" /\ debug  -> \A s \in {"BS1", "BS2"} : Within(s, p) => Shown(s, p)
          [] g.phase = "boot" /\ ~debug -> Shown("BS4", p)
          [] g.phase = "user"           -> \/ p \in g.behind
                                           \/ Shown(User, p)
                                           \/ Within("BS1", p) /\ Shown("BS1", p)
          [] g.phase = "halted"         -> \/ ~g.visible["BS1"] /\ Shown("BS4", p)
                                           \/ g.visible["BS1"] /\ Within("BS1", p) /\ Shown("BS1", p)
                                           \/ g.visible["BS1"] /\ ~Within("BS1", p) /\ Shown(User, p)
          [] OTHER                      -> TRUE

\* The screen shows what was printed, and each of its owners what it drew.
ScreenShows == PrintedShown /\ FramebufferShows

=============================================================================
