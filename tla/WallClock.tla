----------------------------- MODULE WallClock -----------------------------
(***************************************************************************)
(* The clock of the taskbar: the GUI thread reads the six registers of the *)
(* clock chip one by one, with interrupts off (read_rtc and the date in    *)
(* GuiMainLoop, vga_gui.c).  The chip goes on meanwhile.                   *)
(*                                                                         *)
(* A time is its six registers, the seconds first and each below RADIX,    *)
(* and a reading takes less than a second.                                 *)
(***************************************************************************)
EXTENDS Integers, Sequences

CONSTANT RADIX

VARIABLES
  time,     \* of the chip
  reading,  \* the registers read so far
  began,    \* when the reading began (an observer)
  shown     \* in the taskbar

clockVars == <<time, reading, began, shown>>

Times == [1 .. 6 -> 0 .. RADIX - 1]

(* A register moves when all before it overflow.                           *)
Later(t) == [k \in 1 .. 6 |->
  IF \E l \in 1 .. k - 1 : t[l] < RADIX - 1 THEN t[k]
  ELSE IF t[k] < RADIX - 1 THEN t[k] + 1 ELSE 0]

(* The order of the reading: 0, 2, 4 for the time and 7, 8, 9 for the      *)
(* date, which are these.                                                  *)
RegistersMonthFirst == <<1, 2, 3, 5, 4, 6>>
Registers == <<1, 2, 3, 4, 5, 6>>

ClockInit ==
  /\ time \in Times
  /\ reading = <<>>
  /\ began = time
  /\ shown = time

Second ==
  /\ reading # <<>> => time = began
  /\ time' = Later(time)
  /\ UNCHANGED <<reading, began, shown>>

Value == time[Registers[Len(reading) + 1]]

ReadRegister ==
  /\ Len(reading) < 5
  /\ reading' = Append(reading, Value)
  /\ began' = IF reading = <<>> THEN time ELSE began
  /\ UNCHANGED <<time, shown>>

(* The last one, and the drawing of the string.                            *)
Refresh ==
  /\ Len(reading) = 5
  /\ shown' = Append(reading, Value)
  /\ reading' = <<>>
  /\ UNCHANGED <<time, began>>

ClockNext == Second \/ ReadRegister \/ Refresh

ClockSpec == ClockInit /\ [][ClockNext]_clockVars

-----------------------------------------------------------------------------
(* Although nothing waits for the chip (vga_gui.c:304), what is shown is   *)
(* the time it had when the reading began, unless a minute began in the    *)
(* middle of that; the next reading then sets it right.                    *)
ShownWasTime ==
  [][Refresh => shown' = began \/ (time # began /\ time[1] = 0)]_clockVars

(* A second that does not begin a minute changes the register that was     *)
(* read first, and no other.                                               *)
NoCarry == time = began \/ (time[1] # 0 /\ \A k \in 2 .. 6 : time[k] = began[k])

ClockInv ==
  /\ time \in Times /\ began \in Times
  /\ reading \in Seq(0 .. RADIX - 1) /\ Len(reading) <= 5
  /\ reading = <<>> \/ NoCarry \/ (time # began /\ time[1] = 0)
  /\ NoCarry => \A k \in 1 .. Len(reading) : reading[k] = began[k]
=============================================================================
