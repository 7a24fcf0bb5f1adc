------------------------------ MODULE Desktop ------------------------------
(***************************************************************************)
(* What the loop of the GUI thread does with the mouse (GuiMainLoop in     *)
(* vga_gui.c, MouseRead in ps2mouse.c): the pointer, the fading trail it   *)
(* leaves on the desktop and the Start menu.  An iteration follows an      *)
(* interrupt, of the timer or of the keyboard; the trail fades when the    *)
(* ticks have changed, and at most one packet of the mouse is read.        *)
(*                                                                         *)
(* How a packet is put together is in Ps2Mouse, what becomes of the event  *)
(* in MouseRing, the clock in the taskbar in WallClock, and the picture    *)
(* under the pointer in Drawing.                                           *)
(***************************************************************************)
EXTENDS Integers, Sequences, FiniteSetsExt

CONSTANTS
  TRAIL_MAX, TRAIL_LIFE,
  Deltas,   \* the movements a packet may tell, in pixels
  Buttons,  \* the states of the buttons it may tell
  KEY_GAP   \* ticks there are at least between two packets read after a key

VARIABLES
  pointer, buttons,     \* g_mouse
  prev, prev_buttons,   \* as of the last event
  aimed,     \* where the last packet would have put the pointer
  trail,     \* the newest dot first
  painted,   \* the dots on the desktop (an observer)
  menu_open,
  quiet      \* ticks since the last such packet, up to KEY_GAP

mouseVars == <<pointer, buttons, prev, prev_buttons, aimed>>
deskVars == <<mouseVars, trail, painted, menu_open, quiet>>

Places == 1 .. TRAIL_MAX
Taskbar == 470

(* A tick: every living dot ages and is painted again, or erased at last.  *)
(* Where a dead one was is not looked at again.                            *)
Dead == [at |-> <<320, 240>>, life |-> 0]
Alive == {i \in Places : trail[i].life > 0}

Fade ==
  [i \in Places |-> IF trail[i].life > 1 THEN [trail[i] EXCEPT !.life = @ - 1] ELSE Dead]

(* Where dots coincide the oldest is the last to be painted or erased.     *)
FadedPicture ==
  LET At(p) == {i \in Alive : trail[i].at = p}
      Touched == {trail[i].at : i \in Alive}
      Kept(p) == trail[Max(At(p))].life > 1
  IN  (painted \ Touched) \cup {p \in Touched : p[2] < Taskbar /\ Kept(p)}

(* An event leaves a dot where the pointer was.                            *)
NewDot == [at |-> prev, life |-> TRAIL_LIFE]
PushedFromSecond(dots) == <<NewDot, dots[2]>> \o SubSeq(dots, 2, TRAIL_MAX - 1)
Pushed(dots) == <<NewDot>> \o SubSeq(dots, 1, TRAIL_MAX - 1)

Clamp(v, high) == IF v < 0 THEN 0 ELSE IF v > high THEN high ELSE v

MouseRead(d, b) ==
  /\ aimed' = <<pointer[1] + d[1], pointer[2] - d[2]>>
  /\ pointer' = <<Clamp(aimed'[1], 631), Clamp(aimed'[2], 468)>>
  /\ buttons' = b

OnStart(p) == p[1] \in 2 .. 37 /\ p[2] \in 471 .. 478

LeftPressed == buttons' % 2 = 1 /\ prev_buttons = 0

(* One iteration, after a tick or not.                                     *)
Iterate(tick) ==
  /\ \/ \E d \in Deltas, b \in Buttons : MouseRead(d, b)
     \/ UNCHANGED <<pointer, buttons, aimed>>
  /\ LET faded == IF tick THEN Fade ELSE trail
         event == pointer' # prev \/ buttons' # prev_buttons
     IN  trail' = IF event THEN Pushed(faded) ELSE faded
  /\ painted' = IF tick THEN FadedPicture ELSE painted
  /\ prev' = pointer'
  /\ prev_buttons' = buttons'
  /\ menu_open' = IF ~LeftPressed THEN menu_open ELSE OnStart(pointer') /\ ~menu_open

AfterTick ==
  /\ Iterate(TRUE)
  /\ quiet' = IF quiet < KEY_GAP THEN quiet + 1 ELSE quiet

(* Without a packet this changes nothing.                                  *)
AfterKey ==
  /\ quiet = KEY_GAP
  /\ Iterate(FALSE)
  /\ quiet' = 0

DeskInit ==
  /\ pointer = <<320, 240>> /\ prev = pointer /\ aimed = pointer
  /\ buttons = 0 /\ prev_buttons = 0
  /\ trail = [i \in Places |-> Dead]
  /\ painted = {}
  /\ menu_open = FALSE
  /\ quiet = KEY_GAP

DeskNext == AfterTick \/ AfterKey

DeskSpec == DeskInit /\ [][DeskNext]_deskVars

-----------------------------------------------------------------------------
(* The trail fades out (vga_gui.c:506): no dot leaves the buffer, which    *)
(* every event shifts, before the ticks have erased it from the desktop.   *)
TrailErased == \A p \in painted : \E i \in Alive : trail[i].at = p

(* A dot is at most as far down the buffer as there were events since: one *)
(* a tick and one a key, with KEY_GAP ticks between two keys.  TRAIL_MAX   *)
(* is then enough for the dots of TRAIL_LIFE - 1 ticks.                    *)
ConstantsOK ==
  /\ {TRAIL_MAX, TRAIL_LIFE, KEY_GAP} \subseteq Nat \ {0}
  /\ Deltas \subseteq Int \X Int

LongTrail == KEY_GAP * (TRAIL_MAX - 1) > (KEY_GAP + 1) * (TRAIL_LIFE - 1)

Screen == Int \X Int

DeskTypeOK ==
  /\ pointer \in Screen
  /\ prev \in Screen
  /\ trail \in [Places -> [at : Screen, life : 0 .. TRAIL_LIFE]]
  /\ quiet \in 0 .. KEY_GAP

Crowded(place, age) == KEY_GAP * (place - 1 - age) <= age + KEY_GAP - quiet

TrailInv ==
  /\ DeskTypeOK
  /\ \A i \in Alive : Crowded(i, TRAIL_LIFE - trail[i].life)
  /\ TrailErased

(* vga_gui.c:611: a left click on the Start button toggles the menu.       *)
StartToggles ==
  [][OnStart(aimed') /\ pointer' # pointer /\ LeftPressed => menu_open' # menu_open]_deskVars
=============================================================================
