------------------------------ MODULE Terminal ------------------------------
(***************************************************************************)
(* What the console promises its user: a line to edit, and above it the    *)
(* last Rows lines of the dialogue since it was opened or cleared.         *)
(***************************************************************************)
EXTENDS Naturals, Sequences

CONSTANTS
  Rows,
  Limit,           \* characters the line to edit can hold
  Letters,
  Welcome,         \* the lines of an opened console
  Clearing,        \* the command that empties it
  Answer(_)        \* the lines any other command is answered with

VARIABLES open, lines, line

vars == <<open, lines, line>>

LastRows(s) == SubSeq(s, IF Len(s) > Rows THEN Len(s) - Rows + 1 ELSE 1, Len(s))

Init == ~open /\ lines = <<>> /\ line = <<>>

Open == ~open /\ open' /\ lines' = LastRows(Welcome) /\ line' = <<>>

Close == open /\ ~open' /\ lines' = <<>> /\ line' = <<>>

Type ==
  /\ open /\ Len(line) < Limit
  /\ \E ch \in Letters : line' = Append(line, ch)
  /\ UNCHANGED <<open, lines>>

Erase ==
  /\ open /\ line # <<>>
  /\ line' = SubSeq(line, 1, Len(line) - 1)
  /\ UNCHANGED <<open, lines>>

Enter ==
  /\ open
  /\ lines' = IF line = Clearing THEN <<>>
              ELSE LastRows(lines \o <<line>> \o Answer(line))
  /\ line' = <<>>
  /\ UNCHANGED open

Next == Open \/ Close \/ Type \/ Erase \/ Enter

Spec == Init /\ [][Next]_vars
=============================================================================
