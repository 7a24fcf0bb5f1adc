------------------------------ MODULE Drawing ------------------------------
(***************************************************************************)
(* VgaPutPixel and VgaFillRect of drivers/video/vga/vga_screen.c, used by  *)
(* two kinds of callers at once: the GUI thread, which the timer preempts  *)
(* anywhere, and the drawing system calls, which run with interrupts off   *)
(* and so as one step.  The GUI thread also moves the cursor, with         *)
(* CursorErase and CursorDraw of vga_cursor.c, which keep what the cursor  *)
(* covers and put it back.                                                 *)
(*                                                                         *)
(* The screen is held twice: g_shadow has a colour per pixel, the adapter  *)
(* a bit per pixel in each plane, and a store to the frame buffer goes to  *)
(* the planes selected in the sequencer.  A colour is the set of planes    *)
(* whose bit is set.  A call is the sequence of accesses it makes, in      *)
(* program order; the eight reads of g_shadow for one plane are one        *)
(* access, and so are the two port writes that select planes (nobody uses  *)
(* another index of the sequencer once the mode is set).  The    *)
(* device is in graphics mode, and coordinates are not negative.           *)
(***************************************************************************)
EXTENDS Integers, Sequences, SequencesExt

CONSTANTS
  PLANES,       \* number of planes
  BITS,         \* pixels of a byte
  ROW_BYTES, HEIGHT,
  VRAM,         \* bytes of the frame buffer, those below the screen included
  CURSOR,       \* cursor_bitmap: rows of 0 (transparent), 1 and 2
  Start,        \* the call that draws the cursor first
  GuiCalls,     \* the drawing calls of the GUI thread
  UserCalls     \* the drawing calls processes make

Planes == 1 .. PLANES
Colors == SUBSET Planes
Width == ROW_BYTES * BITS
Xs == 0 .. Width - 1
Ys == 0 .. HEIGHT - 1
Bits == 0 .. BITS - 1
ScreenBytes == 0 .. ROW_BYTES * HEIGHT - 1

ASSUME ScreenAssumption ==
  /\ {PLANES, BITS, ROW_BYTES, HEIGHT, VRAM} \subseteq Nat \ {0}
  /\ ScreenBytes \subseteq 0 .. VRAM - 1
  /\ \A c \in {Start} \cup GuiCalls \cup UserCalls :
       /\ {c.x, c.y, c.w, c.h} \subseteq Nat /\ c.c \in Colors
       /\ c.op \in {"put", "fill", "move"}
       /\ c.op = "put" => c.w = 1 /\ c.h = 1
       /\ c.op = "move" =>
            c.h = Len(CURSOR) /\ \A i \in DOMAIN CURSOR : Len(CURSOR[i]) = c.w
  /\ Start.op = "move" /\ \A c \in UserCalls : c.op # "move"
  /\ CURSOR \in Seq(Seq(0 .. 2))

VARIABLES
  g_shadow,    \* colour of each pixel, by row and column
  vram,        \* the planes set at each bit of each byte
  mask,        \* the planes selected in the sequencer
  call, todo,  \* of the GUI thread: what it draws and the accesses left
  planeValue,  \* of the GUI thread: the bits gathered for the next store
  g_cursor_bg, \* the colours under the cursor, by row and column of it
  prev,        \* the call that drew the cursor where it is: prev_x, prev_y
  disturbed,   \* a system call has drawn since the GUI thread's call began
  picture,     \* the colours without a cursor (an observer)
  spoiled      \* pixels whose colour a cursor does not give back (an observer)

screen == <<g_shadow, vram, mask, planeValue, g_cursor_bg>>
vars == <<screen, call, todo, prev, disturbed, picture, spoiled>>

-----------------------------------------------------------------------------
(* Accesses, as the two functions issue them.                              *)
ByteOfNext(x, y) == y * ROW_BYTES + (x + 1) \div BITS
ByteOf(x, y) == y * ROW_BYTES + x \div BITS
OnScreen(x, y) == x \in Xs /\ y \in Ys

Store(x, y, c) == [op |-> "store", x |-> x, y |-> y, c |-> c]
Gather(x, y, p) == [op |-> "gather", x |-> x, y |-> y, p |-> p]
Select(ps) == [op |-> "select", planes |-> ps]
Write(b) == [op |-> "write", byte |-> b]
Fill(b, c, p) == [op |-> "fill", byte |-> b, set |-> p \in c]

PlaneByPlane(x, y) ==
  FlattenSeq([p \in Planes |-> <<Gather(x, y, p), Select({p}), Write(ByteOf(x, y))>>])
Rebuild(x, y) == PlaneByPlane(x, y) \o <<Select(Planes)>>

PutPixel(x, y, c) ==
  IF OnScreen(x, y) THEN <<Store(x, y, c)>> \o Rebuild(x, y) ELSE <<>>

StoreRow(r, y) ==
  FlattenSeq([k \in 1 .. r.w |->
    IF OnScreen(r.x + k - 1, y) THEN <<Store(r.x + k - 1, y, r.c)>> ELSE <<>>])
Stores(r) == FlattenSeq([k \in 1 .. r.h |-> StoreRow(r, r.y + k - 1)])

PutPixels(first, last, y, c) ==
  FlattenSeq([k \in 1 .. last - first + 1 |-> PutPixel(first + k - 1, y, c)])

(* Whole bytes of one row, plane after plane.  They are not clipped on the *)
(* right: what does not fit goes to the next row.                          *)
FullBytes(first, n, y, c) ==
  IF n = 0 THEN <<>>
  ELSE FlattenSeq([p \in Planes |->
         <<Select({p})>> \o [k \in 1 .. n |-> Fill(y * ROW_BYTES + first + k - 1, c, p)]])
       \o <<Select(Planes)>>

Aligned(r) == ((r.x + BITS - 1) \div BITS) * BITS
HeadEnd(r) == IF Aligned(r) < r.x + r.w THEN Aligned(r) ELSE r.x + r.w
FullCount(r) == (r.x + r.w - HeadEnd(r)) \div BITS
TailStart(r) == HeadEnd(r) + FullCount(r) * BITS

FillRow(r, y) ==
  IF y \notin Ys THEN <<>>
  ELSE PutPixels(r.x, HeadEnd(r) - 1, y, r.c)
         \o FullBytes(HeadEnd(r) \div BITS, FullCount(r), y, r.c)
         \o PutPixels(TailStart(r), r.x + r.w - 1, y, r.c)

FillRect(r) ==
  IF r.w = 0 \/ r.h = 0 THEN <<>>
  ELSE Stores(r) \o FlattenSeq([k \in 1 .. r.h |-> FillRow(r, r.y + k - 1)])

DrawAccesses ==
  [c \in {d \in GuiCalls \cup UserCalls : d.op # "move"} |->
     IF c.op = "put" THEN PutPixel(c.x, c.y, c.c) ELSE FillRect(c)]

(* The cursor at the place of c: VgaGetPixel of all it covers, then the    *)
(* arrow, in the colour of c and its inverse.                              *)
Cells == FlattenSeq([i \in DOMAIN CURSOR |->
           [j \in DOMAIN CURSOR[i] |-> [row |-> i, col |-> j]]])
X(c, cell) == c.x + cell.col - 1
Y(c, cell) == c.y + cell.row - 1
Opaque(cell) == CURSOR[cell.row][cell.col] # 0

Save(x, y, cell) == [op |-> "save", x |-> x, y |-> y, cell |-> cell]

SaveAll(c) ==
  [k \in DOMAIN Cells |-> Save(X(c, Cells[k]), Y(c, Cells[k]), Cells[k])]
Arrow(c) ==
  LET Color(cell) == IF CURSOR[cell.row][cell.col] = 1 THEN c.c ELSE Planes \ c.c
  IN  FlattenSeq([k \in DOMAIN Cells |->
        IF Opaque(Cells[k])
        THEN PutPixel(X(c, Cells[k]), Y(c, Cells[k]), Color(Cells[k])) ELSE <<>>])

CursorDrawUnsaved(c) == Arrow(c) \o SaveAll(c)
CursorDraw(c) == SaveAll(c) \o Arrow(c)

(* What was saved goes back.  MouseRead keeps the cursor above the row     *)
(* where CursorErase would return at once.                                 *)
CursorErase(c) ==
  FlattenSeq([k \in DOMAIN Cells |->
    PutPixel(X(c, Cells[k]), Y(c, Cells[k]), g_cursor_bg[Cells[k].row][Cells[k].col])])

MoveCursor(c) == CursorErase(prev) \o CursorDraw(c)

Accesses(c) == IF c.op = "move" THEN MoveCursor(c) ELSE DrawAccesses[c]

-----------------------------------------------------------------------------
(* What an access does.                                                    *)
Stored(s, value, b) ==
  [s EXCEPT !.vram[b] =
     [i \in Bits |-> (@[i] \ s.mask) \cup (IF i \in value THEN s.mask ELSE {})]]

GatheredOwn(s, a) == {i \in Bits : i = a.x % BITS /\ a.p \in s.shadow[a.y][a.x]}
Gathered(s, a) == {i \in Bits : a.p \in s.shadow[a.y][(a.x \div BITS) * BITS + i]}

Effect(s, a) ==
  CASE a.op = "store" -> [s EXCEPT !.shadow[a.y][a.x] = a.c]
    [] a.op = "save" -> [s EXCEPT !.bg[a.cell.row][a.cell.col] =
                           IF OnScreen(a.x, a.y) THEN s.shadow[a.y][a.x] ELSE {}]
    [] a.op = "gather" -> [s EXCEPT !.value = Gathered(s, a)]
    [] a.op = "select" -> [s EXCEPT !.mask = a.planes]
    [] a.op = "write" -> [Stored(s, s.value, a.byte) EXCEPT !.value = {}]
    [] a.op = "fill" -> Stored(s, IF a.set THEN Bits ELSE {}, a.byte)

(* All of a call, one access after the other.                              *)
Run(s, accesses) ==
  LET run[k \in 0 .. Len(accesses)] ==
        IF k = 0 THEN s ELSE Effect(run[k - 1], accesses[k])
  IN  run[Len(accesses)]

Screen(value) == [shadow |-> g_shadow, vram |-> vram, mask |-> mask,
                  value |-> value, bg |-> g_cursor_bg]
ScreenBecomes(s) ==
  /\ g_shadow' = s.shadow
  /\ vram' = s.vram
  /\ mask' = s.mask
  /\ g_cursor_bg' = s.bg

-----------------------------------------------------------------------------
(* The observers.  A pixel drawn while a cursor covers it is spoiled, and  *)
(* has no colour in the picture; drawing it with no cursor there mends it. *)
PixelsOf(c) == {q \in Xs \X Ys : /\ q[1] \in c.x .. c.x + c.w - 1
                                  /\ q[2] \in c.y .. c.y + c.h - 1}
ArrowAt(c) == {q \in PixelsOf(c) : CURSOR[q[2] - c.y + 1][q[1] - c.x + 1] # 0}
Moving == todo # <<>> /\ call.op = "move"
UnderCursor == PixelsOf(prev) \cup (IF Moving THEN PixelsOf(call) ELSE {})

Draws(pixels, c) ==
  /\ picture' = [y \in Ys |-> [x \in Xs |->
       IF <<x, y>> \notin pixels THEN picture[y][x]
       ELSE IF <<x, y>> \in UnderCursor THEN {} ELSE c]]
  /\ spoiled' = (spoiled \ pixels) \cup (pixels \cap UnderCursor)

-----------------------------------------------------------------------------
(* GuiDrawDesktop has painted the whole screen, and the GUI thread is to   *)
(* draw the cursor for the first time.                                     *)
Init ==
  /\ g_shadow = [y \in Ys |-> [x \in Xs |-> {}]]
  /\ vram = [b \in 0 .. VRAM - 1 |-> [i \in Bits |-> {}]]
  /\ mask = Planes
  /\ call = Start
  /\ todo = CursorDraw(Start)
  /\ planeValue = {}
  /\ g_cursor_bg = [i \in DOMAIN CURSOR |-> [j \in DOMAIN CURSOR[i] |-> {}]]
  /\ prev = Start
  /\ disturbed = FALSE
  /\ picture = g_shadow
  /\ spoiled = {}

GuiCall ==
  /\ todo = <<>>
  /\ call' \in GuiCalls
  /\ todo' = Accesses(call')
  /\ disturbed' = FALSE
  /\ UNCHANGED <<screen, prev, picture, spoiled>>

GuiAccess ==
  /\ todo # <<>>
  /\ LET a == Head(todo)
         s == Effect(Screen(planeValue), a)
     IN  /\ ScreenBecomes(s) /\ planeValue' = s.value
         /\ IF a.op = "store" /\ call.op # "move"
            THEN Draws({<<a.x, a.y>>}, a.c)
            ELSE UNCHANGED <<picture, spoiled>>
  /\ todo' = Tail(todo)
  /\ prev' = IF call.op = "move" /\ todo' = <<>> THEN call ELSE prev
  /\ UNCHANGED <<call, disturbed>>

(* SYS_DRAW_PIXEL and SYS_FILL_RECT.                                       *)
SystemCall(c) ==
  /\ ScreenBecomes(Run(Screen({}), DrawAccesses[c]))
  /\ Draws(PixelsOf(c), c.c)
  /\ disturbed' = TRUE
  /\ UNCHANGED <<call, todo, planeValue, prev>>

Next == GuiCall \/ GuiAccess \/ \E c \in UserCalls : SystemCall(c)

Spec == Init /\ [][Next]_vars

-----------------------------------------------------------------------------
Shows(b) == \A i \in Bits :
  vram[b][i] = g_shadow[b \div ROW_BYTES][(b % ROW_BYTES) * BITS + i]

BytesOf(pixels) == {q[2] * ROW_BYTES + q[1] \div BITS : q \in pixels}

(* The pixels the call in progress draws: a move draws the arrow, and what *)
(* was under the old one.                                                  *)
Target ==
  IF call.op # "move" THEN PixelsOf(call)
  ELSE ArrowAt(call) \cup PixelsOf(prev)

(* The bytes beyond the right border that a rectangle writes nevertheless. *)
Overrun(c) ==
  IF c.op # "fill" THEN {}
  ELSE {b \in ScreenBytes : \E y \in Ys \cap (c.y .. c.y + c.h - 1) :
          b \in (y + 1) * ROW_BYTES .. y * ROW_BYTES + (TailStart(c) \div BITS) - 1}

(* When the GUI thread ends a call no system call has drawn into, every    *)
(* byte of the call shows the shadow, whatever it showed before.  And a    *)
(* drawing system call leaves every byte it covers showing the shadow, at  *)
(* whatever access the GUI thread was preempted.                           *)
CallsDrawRight ==
  [][/\ todo # <<>> /\ todo' = <<>> /\ ~disturbed => \A b \in BytesOf(Target) : Shows(b)'
     /\ \A c \in UserCalls : SystemCall(c) => \A b \in BytesOf(PixelsOf(c)) : Shows(b)']_vars

(* A byte stops showing the shadow only by an access of the GUI thread to  *)
(* a byte of the call it is making, or beyond the right border.  So what a *)
(* preemption spoils is confined to the call it interrupted.               *)
DamageConfined ==
  [][\A b \in ScreenBytes : Shows(b) /\ ~Shows(b)' =>
       \/ todo' # todo /\ b \in BytesOf(Target) \cup Overrun(call)
       \/ \E c \in UserCalls : SystemCall(c) /\ b \in Overrun(c)]_vars

(* The cursor leaves no trace: between calls, wherever the arrow is not,   *)
(* the shadow holds the picture, but for the pixels somebody drew while    *)
(* the cursor was over them.  So what is saved under the cursor is right   *)
(* for every pixel nobody drew since, across moves that overlap, the       *)
(* border of the screen, and preemptions.                                  *)
CursorLeavesNoTrace ==
  todo = <<>> => \A q \in (Xs \X Ys) \ (ArrowAt(prev) \cup spoiled) :
                   g_shadow[q[2]][q[1]] = picture[q[2]][q[1]]

(* vga_screen.c:25: VgaPutPixel and VgaFillRect update the shadow together *)
(* with the hardware, so that the two agree when no call is in progress.   *)
ScreenMirrorsShadow == todo = <<>> => \A b \in ScreenBytes : Shows(b)
=============================================================================
