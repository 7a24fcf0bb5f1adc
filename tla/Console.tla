------------------------------ MODULE Console ------------------------------
(***************************************************************************)
(* The console of drivers/video/vga/vga_gui.c behind the keyboard buffer:  *)
(* ConsoleProcess takes the keys out of KeyboardRing one by one and hands  *)
(* each to ConsoleProcessChar.  Only the GUI thread touches the console,   *)
(* so that processing a key is one step with taking it out, while IRQ1     *)
(* still strikes between any two accesses to the buffer.                   *)
(*                                                                         *)
(* A line of text is a sequence of characters; the texts of the source are *)
(* constants.  cons_input is terminated at cons_input_pos after every key, *)
(* so that the sequence stands for both.  console_win.visible always       *)
(* equals console_active.                                                  *)
(***************************************************************************)
EXTENDS KeyboardRing, SequencesExt

CONSTANTS
  CONS_ROWS, CONS_COLS,
  F1, ENTER, BACKSPACE,
  HelpCommand, ClearCommand,
  HelpText, Banner,   \* what ConsolePrint is given, line by line
  Prefix,             \* "comando desconocido: "
  Chars               \* what a line of text is made of

ASSUME ConsoleAssumption ==
  /\ {CONS_ROWS, CONS_COLS} \subseteq Nat \ {0}
  /\ {F1, ENTER, BACKSPACE} \subseteq Keys
  /\ F1 # ENTER /\ F1 # BACKSPACE /\ ENTER # BACKSPACE
  /\ HelpCommand # ClearCommand
  /\ Keys \subseteq Chars
  /\ HelpText \in Seq(Seq(Chars)) /\ Banner \in Seq(Seq(Chars)) /\ Prefix \in Seq(Chars)

VARIABLE console  \* the statics of the console and what its window shows

consoleVars == <<vars, console>>

Rows == 0 .. CONS_ROWS - 1
Closed == [lines |-> <<>>, prompt |-> <<>>]

Cut(text, n) == SubSeq(text, 1, IF Len(text) < n THEN Len(text) ELSE n)

(* ConsoleRedraw.                                                          *)
Lines(s) == [k \in 1 .. s.count |-> s.history[(s.start + k - 1) % CONS_ROWS]]
Redrawn(s) ==
  IF s.active THEN [s EXCEPT !.window = [lines |-> Lines(s), prompt |-> s.input]] ELSE s

Cleared(s) ==
  Redrawn([s EXCEPT !.history = [i \in Rows |-> <<>>],
                    !.start = 0, !.count = 0, !.input = <<>>])

(* ConsoleAddLine: a free row, or the oldest one.                          *)
OldestKept(s) == s.start
OldestAfter(s) == (s.start + 1) % CONS_ROWS

AddLine(s, text) ==
  Redrawn(
    IF s.count < CONS_ROWS
    THEN [s EXCEPT !.history[(s.start + s.count) % CONS_ROWS] = Cut(text, CONS_COLS),
                   !.count = @ + 1]
    ELSE [s EXCEPT !.history[s.start] = Cut(text, CONS_COLS), !.start = OldestAfter(s)])

(* ConsolePrint, after each of the lines of its text.                      *)
PrintSteps(s, text) ==
  LET step[n \in 0 .. Len(text)] ==
        IF n = 0 THEN s ELSE AddLine(step[n - 1], Cut(text[n], CONS_COLS - 1))
  IN  step

ConsolePrint(s, text) == PrintSteps(s, text)[Len(text)]

Execute(s, cmd) ==
  CASE cmd = HelpCommand -> ConsolePrint(s, HelpText)
    [] cmd = ClearCommand -> Cleared(s)
    [] OTHER -> AddLine(s, Cut(Prefix \o cmd, CONS_COLS))

(* ConsoleProcessChar, key by key.                                         *)
Toggled(s) ==
  IF s.active THEN [s EXCEPT !.active = FALSE, !.window = Closed]
  ELSE ConsolePrint(Cleared([s EXCEPT !.active = TRUE]), Banner)

Entered(s) == [Execute(AddLine(s, s.input), s.input) EXCEPT !.input = <<>>]

ErasedUnseen(s) == IF s.input = <<>> THEN s ELSE [s EXCEPT !.input = Front(@)]
Erased(s) == IF s.input = <<>> THEN s ELSE Redrawn([s EXCEPT !.input = Front(@)])

HasRoom(s) == Len(s.input) < CONS_COLS - 1
Typed(s, ch) == IF HasRoom(s) THEN Redrawn([s EXCEPT !.input = Append(@, ch)]) ELSE s

ConsoleProcessChar(s, ch) ==
  CASE ch = F1 -> Toggled(s)
    [] ch # F1 /\ ~s.active -> s
    [] ch = ENTER /\ s.active -> Entered(s)
    [] ch = BACKSPACE /\ s.active -> Erased(s)
    [] OTHER -> Typed(s, ch)

-----------------------------------------------------------------------------
ConsoleInit ==
  /\ Init
  /\ console = [history |-> [i \in Rows |-> <<>>], start |-> 0, count |-> 0,
                input |-> <<>>, active |-> FALSE, window |-> Closed]

(* GuiInit ends with ConsoleClear.                                         *)
GuiInit == ResetHead /\ console' = Cleared(console)

ProcessKey == Advance /\ console' = ConsoleProcessChar(console, c)

GuiStep ==
  \/ (ResetTail \/ GetNothing \/ Load) /\ UNCHANGED console
  \/ GuiInit
  \/ ProcessKey

Irq1 == \E key \in Keys : Put(key) /\ UNCHANGED console

ConsoleNext == GuiStep \/ Irq1

ConsoleSpec == ConsoleInit /\ [][ConsoleNext]_consoleVars

(* GuiMainLoop wakes at every tick and drains the buffer.                  *)
ConsoleFairSpec == ConsoleSpec /\ WF_consoleVars(GuiStep)

-----------------------------------------------------------------------------
Printed(text) == [i \in DOMAIN text |-> Cut(text[i], CONS_COLS - 1)]
AnswerTo(cmd) ==
  IF cmd = HelpCommand THEN Printed(HelpText)
  ELSE <<Cut(Prefix \o cmd, CONS_COLS)>>

User == INSTANCE Terminal
  WITH Rows <- CONS_ROWS, Limit <- CONS_COLS - 1,
       Letters <- Keys \ {F1, ENTER, BACKSPACE},
       Welcome <- Printed(Banner), Clearing <- ClearCommand, Answer <- AnswerTo,
       open <- console.active,
       lines <- IF console.active THEN Lines(console) ELSE <<>>,
       line <- IF console.active THEN console.input ELSE <<>>

(* The ring of rows, with its start and count, is a terminal: the last     *)
(* CONS_ROWS lines of the dialogue in order, whatever is typed.            *)
ImplementsTerminal == User!Spec

(* The window shows the lines and the text being typed after every key.    *)
(* Only an empty input line can be stale: Enter redraws before it empties  *)
(* the line (vga_gui.c:202), so that the executed command stays on screen. *)
WindowCurrent ==
  IF console.active
  THEN /\ console.window.lines = Lines(console)
       /\ console.input # <<>> => console.window.prompt = console.input
  ELSE console.window = Closed
=============================================================================
