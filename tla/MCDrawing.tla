------------------------------ MODULE MCDrawing ------------------------------
(* A screen of two rows of two bytes of two pixels, in four colours, and   *)
(* the calls drawn on it: a single pixel, a rectangle that begins and ends *)
(* inside a byte, and the one of the clock, which passes the right border. *)
(* The cursor is a row of two pixels, one of them transparent; its places  *)
(* overlap, and at one of them it passes the right border.                 *)
EXTENDS Drawing

PutCall(x, y, c) == [op |-> "put", x |-> x, y |-> y, w |-> 1, h |-> 1, c |-> c]
FillCall(x, y, w, h, c) == [op |-> "fill", x |-> x, y |-> y, w |-> w, h |-> h, c |-> c]
MoveCall(x, y, c) == [op |-> "move", x |-> x, y |-> y, w |-> 2, h |-> 1, c |-> c]

MCCursor == <<<<1, 0>>>>
MCStart == MoveCall(2, 0, {1, 2})
Clock == FillCall(2, 0, 4, 2, {1})

MCGuiCalls == {PutCall(2, 0, {}), Clock, MCStart, MoveCall(3, 0, {1, 2})}
MCUserCalls == {PutCall(1, 0, {1, 2}), FillCall(1, 0, 2, 2, {1})}

ClockOnly == {Clock}
NoCalls == {}
=============================================================================
