--------------------------- MODULE MCMouseService ---------------------------
(***************************************************************************)
(* The two sides of the mouse, each explored on its own: the way of an     *)
(* event to the processes (MouseService), in which a packet's movement is  *)
(* left open, and what the GUI thread itself does with movements (Desktop).*)
(* A behaviour is one of a single side.                                    *)
(***************************************************************************)
EXTENDS MouseService

CONSTANTS TRAIL_MAX, TRAIL_LIFE, Deltas, Buttons, KEY_GAP

VARIABLES side,
          pointer, buttons, last, prev_buttons, aimed, trail, painted, menu_open, quiet

deskVars == <<pointer, buttons, last, prev_buttons, aimed, trail, painted, menu_open, quiet>>

Desk == INSTANCE Desktop WITH prev <- last

ASSUME TrailAssumption == Desk!ConstantsOK

MCInit == side \in {"events", "desktop"} /\ ServiceInit /\ Desk!DeskInit

EventsMove == side = "events" /\ ServiceNext /\ UNCHANGED <<side, deskVars>>
DeskMoves == side = "desktop" /\ Desk!DeskNext /\ UNCHANGED <<side, serviceVars>>

MCSpec == MCInit /\ [][EventsMove \/ DeskMoves]_<<side, serviceVars, deskVars>>

-----------------------------------------------------------------------------
At(n, b) == [x |-> n, y |-> n, buttons |-> b]

\* the pointer moves and a button goes down and up; no two events agree in y
ThreeEvents == {At(1, 0), At(2, 1), At(3, 0)}
StartEvent == At(1, 0)

\* the order of the source
SourceOrder == <<"x", "y", "buttons", "head">>

\* no movement, or down and to the left: the third aims at the Start button
MCDeltas == {<<0, 0>>, <<-100, -77>>}

-----------------------------------------------------------------------------
(* vga_gui.c: see Desktop.                                                 *)
TrailErased == Desk!TrailErased

(* vga_gui.c: see Desktop.                                                 *)
StartToggles == Desk!StartToggles
=============================================================================
