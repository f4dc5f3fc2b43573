------------------------------ MODULE Desktop ------------------------------
(***************************************************************************)
(* The desktop (user/apps/desktop): one process that, frame by frame,      *)
(* takes the commands of programs, takes the mouse events that queued up,  *)
(* and repaints what it thinks has changed on a framebuffer that keeps     *)
(* everything else.  Windows are one place wide, and a press says which    *)
(* part of a window it hit; windows at one place overlap.  Resizing is     *)
(* compiled out (DT_ENABLE_RESIZING 0), the edges only change the cursor.  *)
(* The files commands and events travel in are module SharedFiles.         *)
(***************************************************************************)
EXTENDS Integers, Sequences, SequencesExt, FiniteSets

CONSTANTS
    Owners,      \* pids of programs that open windows
    WinMax,      \* DT_WIN_MAX
    MaxRects,    \* CMD_DIRTY_MAX
    Popups,      \* bound: whether popups (DT_POPUP) are opened, windows, or both
    LastPlace,   \* bound: places 0..LastPlace of the screen
    MaxCommands, \* bound: commands taken in a frame
    MaxMouse     \* bound: mouse events taken in a frame

DesktopAssumption == WinMax \in Nat \ {0} /\ LastPlace \in Nat /\ 0 \notin Owners

VARIABLES
    wins,     \* wins[i]: the window in slot i
    order,    \* the slots in use, by z
    focus,    \* g_focused_pid and g_focused_idx
    drag,     \* g_drag_idx
    lastBtn,  \* g_last_btn
    band,     \* the rubber band: its ends, the far end of the last frame, whether that one painted it
    marks,    \* places to clear: those of commands, and g_input_drag_prev
    cursor,   \* where the mouse is, the shape it has; where it is painted, in which shape, over what
    screen,   \* screen[p]: what the framebuffer shows at p
    frame,    \* the step of the frame, the inputs it took, whether anything changed
    pressed,  \* history: the slot pressed last, while its window is there
    crowded,  \* history: a frame gave up more places than it can clear
    several   \* history: programs that opened a second window

deskVars == <<wins, order, focus, drag, lastBtn, band, marks, cursor, screen, frame,
              pressed, crowded, several>>

Slots  == 0..WinMax-1
Places == 0..LastPlace
None   == -1
NoWin  == [pid |-> 0, at |-> 0, home |-> 0, popup |-> FALSE, focused |-> FALSE]
Used(i) == i \in Slots /\ wins[i].pid # 0
Span(a, b) == {p \in Places : (a <= p /\ p <= b) \/ (b <= p /\ p <= a)}

Paint(who) == [pid |-> who, focused |-> FALSE]
Bg == Paint(0)
Band == Paint(-1)
Arrow == Paint(-2)
Torn == Paint(-3)     \* the cursor's background put back with the rows of another shape

(* A band that is not active: where its ends were does not matter any more. *)
NoBand == [active |-> FALSE, x0 |-> 0, x1 |-> 0, px1 |-> 0, painted |-> FALSE]

Step(step, n, changed) == frame' = [step |-> step, n |-> n, changed |-> changed]

(* win_find_pid: the first slot of a program, whichever window was meant.   *)
win_find_pid(pid) ==
    LET mine == {i \in Slots : wins[i].pid = pid}
    IN  IF mine = {} THEN None ELSE CHOOSE i \in mine : \A j \in mine : i <= j

(* render_all's order, and the window a press at p hits.                    *)
TopAt(p, ord, ws) ==
    LET here == {k \in DOMAIN ord : ws[ord[k]].at = p} IN IF here = {} THEN None ELSE ord[Max(here)]

FaultRaise(i) == order
Raise(i) == Append(RemoveFirst(order, i), i)

(* win_focus: nobody else is focused, and i comes to the front.             *)
Focused(ws, i) == [j \in Slots |-> [ws[j] EXCEPT !.focused = j = i /\ ws[j].pid # 0]]

win_remove(i) ==
    /\ wins' = [wins EXCEPT ![i] = NoWin]
    /\ order' = RemoveFirst(order, i)
    /\ pressed' = IF pressed = i THEN None ELSE pressed

-----------------------------------------------------------------------------
(* cmd_process: the commands of a frame, before its events.  Rectangles     *)
(* beyond CMD_DIRTY_MAX are not remembered.                                 *)
push_rect(p) ==
    IF Len(marks.cmds) < MaxRects THEN [marks EXCEPT !.cmds = Append(@, p)] ELSE marks

Command ==
    /\ frame.step = "commands" /\ frame.n < MaxCommands
    /\ Step("commands", frame.n + 1, TRUE)
    /\ UNCHANGED <<focus, drag, lastBtn, band, cursor, screen>>

(* O: the first free slot, on top and focused; with none left everybody     *)
(* loses the focus.  Mouse events stay with the window they went to.        *)
OpenWindow(pid, p, popup) ==
    LET i == SelectInSeq([k \in 1..WinMax |-> wins[k - 1].pid], LAMBDA w : w = 0) - 1
        opened == [pid |-> pid, at |-> p, home |-> p, popup |-> popup, focused |-> FALSE]
    IN  /\ Command
        /\ wins' = Focused(IF i = None THEN wins ELSE [wins EXCEPT ![i] = opened], i)
        /\ order' = IF i = None THEN order ELSE Append(order, i)
        /\ several' = IF pid \in {wins[j].pid : j \in Slots} \cup {focus.pid} THEN several \cup {pid} ELSE several
        /\ UNCHANGED <<marks, pressed, crowded>>

CloseWindow(pid) ==
    /\ Command
    /\ LET i == win_find_pid(pid)
       IN  IF i = None
           THEN UNCHANGED <<wins, order, pressed, marks, crowded>>
           ELSE /\ win_remove(i)
                /\ marks' = push_rect(wins[i].at)
                /\ crowded' = (crowded \/ Len(marks.cmds) = MaxRects)
    /\ UNCHANGED several

MoveWindow(pid, p) ==
    /\ Command
    /\ LET i == win_find_pid(pid)
       IN  /\ wins' = IF i = None THEN wins ELSE [wins EXCEPT ![i].at = p]
           /\ marks' = IF i = None THEN marks ELSE push_rect(wins[i].at)
           /\ crowded' = (crowded \/ (i # None /\ Len(marks.cmds) = MaxRects))
    /\ UNCHANGED <<order, pressed, several>>

(* input_frame_begin.                                                       *)
input_frame_begin ==
    /\ frame.step = "commands"
    /\ Step("events", 0, frame.changed)
    /\ band' = [band EXCEPT !.px1 = band.x1]
    /\ UNCHANGED <<wins, order, focus, drag, lastBtn, marks, cursor, screen, pressed, crowded, several>>

-----------------------------------------------------------------------------
(* handle_one: one mouse event at p, with the left button down or not.      *)
Event(p, btn, change) ==
    /\ frame.step = "events" /\ frame.n < MaxMouse
    /\ Step("events", frame.n + 1, frame.changed \/ change)
    /\ lastBtn' = btn
    /\ UNCHANGED <<screen, several>>

At(p) == cursor' = [cursor EXCEPT !.mouse = p]

(* A press on a taskbar button starts a program and nothing else.           *)
TaskbarClick(p) ==
    /\ ~lastBtn /\ Event(p, TRUE, FALSE) /\ At(p)
    /\ UNCHANGED <<wins, order, focus, drag, band, marks, pressed, crowded>>

(* A press on a window raises and focuses it; then its close box removes a  *)
(* window of its program, its title starts a drag.                          *)
FaultPressedFocus(i) == IF focus.pid = 0 THEN [pid |-> wins[i].pid, idx |-> i] ELSE focus

PressedFocus(i) ==
    IF wins[i].pid # focus.pid THEN [pid |-> wins[i].pid, idx |-> i] ELSE focus

ClickClose(p) ==
    LET i == TopAt(p, order, wins)
        gone == win_find_pid(wins[i].pid)
        ord == Raise(i)
    IN  /\ ~lastBtn /\ i # None /\ ~wins[i].popup
        /\ Event(p, TRUE, TRUE) /\ At(p)
        /\ wins' = [Focused(wins, i) EXCEPT ![gone] = NoWin]
        /\ order' = RemoveFirst(ord, gone)
        /\ focus' = [pid |-> 0, idx |-> None]
        /\ pressed' = None
        /\ marks' = [marks EXCEPT !.prev = wins[i].at]
        /\ crowded' = (crowded \/ marks.prev # None \/ gone # i \/ wins[i].home # wins[i].at)
        /\ UNCHANGED <<drag, band>>

Press(p, title) ==
    LET i == TopAt(p, order, wins)
    IN  /\ ~lastBtn /\ i # None
        /\ Event(p, TRUE, TRUE) /\ At(p)
        /\ wins' = Focused(wins, i)
        /\ order' = Raise(i)
        /\ focus' = PressedFocus(i)
        /\ pressed' = i
        /\ drag' = IF title /\ ~wins[i].popup THEN i ELSE drag
        /\ UNCHANGED <<band, marks, crowded>>

PressDesktop(p) ==
    /\ ~lastBtn /\ TopAt(p, order, wins) = None
    /\ Event(p, TRUE, TRUE) /\ At(p)
    /\ band' = [band EXCEPT !.active = TRUE, !.x0 = p, !.x1 = p]
    /\ crowded' = (crowded \/ band.painted)
    /\ UNCHANGED <<wins, order, focus, drag, marks, pressed>>

(* The button is held: the window in the dragged slot moves, whoever has    *)
(* the slot by now; the band follows.                                       *)
Held(p) ==
    /\ lastBtn /\ Event(p, TRUE, drag # None \/ band.active) /\ At(p)
    /\ wins' = IF Used(drag) THEN [wins EXCEPT ![drag].at = p] ELSE wins
    /\ band' = IF band.active THEN [band EXCEPT !.x1 = p] ELSE band
    /\ UNCHANGED <<order, focus, drag, marks, pressed, crowded>>

(* The button is up: the shape under the mouse is that of the last slot     *)
(* there, band and drag end.                                                *)
Hover(p, edge) ==
    /\ Event(p, FALSE, band.active)
    /\ cursor' = [cursor EXCEPT !.mouse = p,
                     !.shape = IF drag # None \/ band.active THEN @
                               ELSE IF edge /\ \E i \in Slots : Used(i) /\ wins[i].at = p THEN "resize" ELSE "normal"]
    /\ band' = [band EXCEPT !.active = FALSE]
    /\ drag' = None
    /\ UNCHANGED <<wins, order, focus, marks, pressed, crowded>>

-----------------------------------------------------------------------------
(* cur_undo_from_backbuf and cur_erase_fb put back what was under the       *)
(* cursor, with the rows of the shape it has now.                           *)
Undone(s) ==
    IF cursor.valid THEN [s EXCEPT ![cursor.old] = IF cursor.shape = cursor.drawn THEN cursor.saved ELSE Torn] ELSE s

(* cur_bake, cur_draw_fb.                                                   *)
Baked(s) ==
    /\ cursor' = [cursor EXCEPT !.valid = TRUE, !.old = cursor.mouse, !.drawn = cursor.shape, !.saved = s[cursor.mouse]]
    /\ screen' = [s EXCEPT ![cursor.mouse] = Arrow]
    /\ crowded' = (crowded \/ (cursor.valid /\ cursor.shape # cursor.drawn))

(* What a full frame gives back to the background: the band of the last     *)
(* frame, the homes of windows that moved, the marked places.               *)
FaultGivenBack == Range(marks.cmds) \cup {marks.prev}
                  \cup (IF band.painted THEN Span(band.x0, band.px1) ELSE {})
GivenBack == Range(marks.cmds) \cup {marks.prev}
             \cup (IF band.painted THEN Span(band.x0, band.px1) ELSE {})
             \cup {wins[i].home : i \in {j \in Slots : Used(j) /\ wins[j].home # wins[j].at}}

BandShown(p) == band.active /\ band.x0 # band.x1 /\ p \in Span(band.x0, band.x1)

(* render_all over the background and the band.                             *)
Composed(s) ==
    [p \in Places |->
        LET i == TopAt(p, order, wins)
        IN  CASE i # None -> [pid |-> wins[i].pid, focused |-> wins[i].focused]
              [] i = None /\ BandShown(p) -> Band
              [] i = None /\ ~BandShown(p) /\ p \in GivenBack -> Bg
              [] OTHER -> s[p]]

EndOfFrame ==
    /\ band' = IF band.active THEN [band EXCEPT !.painted = TRUE] ELSE NoBand
    /\ Step("commands", 0, FALSE)
    /\ UNCHANGED <<order, focus, drag, lastBtn, pressed, several>>

DrawAll(damaged) ==
    /\ frame.step = "events"
    /\ frame.changed \/ damaged \/ band.active \/ band.painted
    /\ wins' = [i \in Slots |-> [wins[i] EXCEPT !.home = wins[i].at]]
    /\ marks' = [cmds |-> <<>>, prev |-> None]
    /\ Baked(Composed(Undone(screen)))
    /\ EndOfFrame

DrawCursor ==
    /\ frame.step = "events"
    /\ ~(frame.changed \/ band.active \/ band.painted)
    /\ IF frame.n = 0 THEN UNCHANGED <<screen, cursor, crowded>> ELSE Baked(Undone(screen))
    /\ EndOfFrame
    /\ UNCHANGED <<wins, marks>>

DeskInit ==
    /\ wins = [i \in Slots |-> NoWin] /\ order = <<>>
    /\ focus = [pid |-> 0, idx |-> None] /\ drag = None /\ lastBtn = FALSE
    /\ band = NoBand
    /\ marks = [cmds |-> <<>>, prev |-> None]
    /\ cursor = [mouse |-> 0, shape |-> "normal", valid |-> TRUE, old |-> 0, drawn |-> "normal", saved |-> Bg]
    /\ screen = [p \in Places |-> IF p = 0 THEN Arrow ELSE Bg]
    /\ frame = [step |-> "commands", n |-> 0, changed |-> FALSE]
    /\ pressed = None /\ crowded = FALSE /\ several = {}

DeskNext ==
    \/ \E pid \in Owners, p \in Places, popup \in Popups : OpenWindow(pid, p, popup)
    \/ \E pid \in Owners : CloseWindow(pid)
    \/ \E pid \in Owners, p \in Places : MoveWindow(pid, p)
    \/ input_frame_begin
    \/ \E p \in Places : TaskbarClick(p) \/ ClickClose(p) \/ PressDesktop(p) \/ Held(p)
    \/ \E p \in Places, part \in BOOLEAN : Press(p, part) \/ Hover(p, part)
    \/ \E damaged \in BOOLEAN : DrawAll(damaged)
    \/ DrawCursor

DeskSpec == DeskInit /\ [][DeskNext]_deskVars

-----------------------------------------------------------------------------
(* The window painted as focused is the one in front, and the only one.     *)
FocusedOnTop ==
    \A i \in Slots : wins[i].focused => Used(i) /\ order # <<>> /\ Last(order) = i

(* Between frames the framebuffer shows the windows where they are, in      *)
(* their order, and the background elsewhere: no frame leaves the image of  *)
(* a window that moved or went, unless one frame closed a window by mouse   *)
(* after moving it or after another, or started a second band, or the       *)
(* cursor changed its shape (crowded).                                      *)
ScreenFollows ==
    frame.step = "commands" /\ frame.n = 0 /\ ~crowded =>
        screen = [[p \in Places |->
                     LET i == TopAt(p, order, wins)
                     IN  CASE i # None -> [pid |-> wins[i].pid, focused |-> wins[i].focused]
                           [] i = None /\ BandShown(p) -> Band
                           [] OTHER -> Bg] EXCEPT ![cursor.old] = Arrow]

(* The window that was pressed last gets the mouse events from then on,     *)
(* unless its program has opened windows more than once: the focused slot   *)
(* is only looked at when the press changes the program.                    *)
PressedGetsEvents ==
    pressed # None /\ wins[pressed].pid \notin several =>
        focus = [pid |-> wins[pressed].pid, idx |-> pressed]

(* Focus, order and mouse events are about one window.                      *)
FocusSound == FocusedOnTop /\ PressedGetsEvents

=============================================================================
