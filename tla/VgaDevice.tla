----------------------------- MODULE VgaDevice -----------------------------
(***************************************************************************)
(* The VGA as the kernel programs it: through the index and data ports of  *)
(* the sequencer, the CRT controller, the graphics controller and the      *)
(* attribute controller, the DAC, and the memory at A0000.                 *)
(*                                                                         *)
(* Three things make programming it harder than filling tables.  Registers *)
(* 0 to 7 of the CRT controller are read-only while bit 7 of register 17   *)
(* is set.  The attribute controller has one port for index and data, and  *)
(* only a read of the input status says which comes next; its palette can  *)
(* be written only while the picture is off.  And the glyphs of text mode  *)
(* are in plane 2 of the memory, which a byte reaches only through the     *)
(* right settings of two of the other parts.                               *)
(***************************************************************************)
EXTENDS Integers, Sequences

VARIABLES
  misc, seq, crtc, gc, ac, \* the registers
  acIndex, atData, shown,  \* of the attribute controller's port
  dac,                     \* the colours the kernel deals with, by name
  plane2                   \* whose bytes are in plane 2

acPort == <<acIndex, atData, shown>>
vgaVars == <<misc, seq, crtc, gc, ac, acPort, dac, plane2>>

Bit(v, b) == (v \div 2^b) % 2

(* A program is a sequence of such accesses, an output unless the port     *)
(* says otherwise.                                                         *)
Out(port, reg, value) == [port |-> port, reg |-> reg, value |-> value]

(* Register i gets the value at place i + 1 of a table.                    *)
OutTable(port, table) == [i \in 1 .. Len(table) |-> Out(port, i - 1, table[i])]

Colours ==
  <<"black", "blue", "green", "cyan", "red", "magenta", "brown", "light_gray",
    "dark_gray", "light_blue", "light_green", "light_cyan", "light_red",
    "light_magenta", "yellow", "white">>
DacUsed == 0 .. 15 \cup {20, 21} \cup 56 .. 63

(* The DAC as the firmware leaves it for text: the 64 colours of the EGA.  *)
TextDac ==
  [i \in DacUsed |->
     CASE i = 20 -> "brown"
       [] i >= 56 -> Colours[i - 56 + 9]
       [] i \in 0 .. 7 \ {6} -> Colours[i + 1]
       [] OTHER -> "other"]

-----------------------------------------------------------------------------
(* The effect of one access.                                               *)
Locked == Bit(crtc[17], 7) = 1

CrtcWrite(r, v) ==
  crtc' = IF r > 7 \/ ~Locked THEN [crtc EXCEPT ![r] = v]
          ELSE IF r = 7 THEN [crtc EXCEPT ![7] = @ + 16 * (Bit(v, 4) - Bit(@, 4))]
          ELSE crtc

AcWrite(v) ==
  /\ atData' = ~atData
  /\ IF atData
     THEN /\ ac' = IF acIndex > 20 \/ (acIndex < 16 /\ shown) THEN ac
                   ELSE [ac EXCEPT ![acIndex] = v]
          /\ UNCHANGED <<acIndex, shown>>
     ELSE /\ acIndex' = v % 32
          /\ shown' = (Bit(v, 5) = 1)
          /\ UNCHANGED ac

(* A byte written at A0000 is the byte found in plane 2 at its place.      *)
Plane2Alone ==
  /\ seq[0] = 3 /\ seq[2] = 4 /\ Bit(seq[4], 2) = 1 /\ Bit(seq[4], 3) = 0
  /\ gc[1] = 0 /\ gc[3] = 0 /\ gc[8] = 255
  /\ gc[5] % 4 = 0 /\ Bit(gc[5], 4) = 0
  /\ Bit(gc[6], 1) = 0 /\ (gc[6] \div 4) % 4 = 1

Access(o) ==
  \/ /\ o.port = "misc" /\ misc' = o.value
     /\ UNCHANGED <<seq, crtc, gc, ac, acPort, dac, plane2>>
  \/ /\ o.port = "seq" /\ seq' = [seq EXCEPT ![o.reg] = o.value]
     /\ UNCHANGED <<misc, crtc, gc, ac, acPort, dac, plane2>>
  \/ /\ o.port = "crtc" /\ CrtcWrite(o.reg, o.value)
     /\ UNCHANGED <<misc, seq, gc, ac, acPort, dac, plane2>>
  \/ /\ o.port = "crtc_and" /\ CrtcWrite(o.reg, crtc[o.reg] % o.value)
     /\ UNCHANGED <<misc, seq, gc, ac, acPort, dac, plane2>>
  \/ /\ o.port = "gc" /\ gc' = [gc EXCEPT ![o.reg] = o.value]
     /\ UNCHANGED <<misc, seq, crtc, ac, acPort, dac, plane2>>
  \/ /\ o.port = "status_in" /\ atData' = FALSE
     /\ UNCHANGED <<misc, seq, crtc, gc, ac, acIndex, shown, dac, plane2>>
  \/ /\ o.port = "ac" /\ AcWrite(o.value)
     /\ UNCHANGED <<misc, seq, crtc, gc, dac, plane2>>
  \/ /\ o.port = "dac" /\ dac' = [dac EXCEPT ![o.reg] = o.value]
     /\ UNCHANGED <<misc, seq, crtc, gc, ac, acPort, plane2>>
  \/ /\ o.port = "memory"
     /\ plane2' = IF o.value = "font" /\ ~Plane2Alone THEN "garbage" ELSE o.value
     /\ UNCHANGED <<misc, seq, crtc, gc, ac, acPort, dac>>

(* As the firmware and the boot loader may leave it.                       *)
VgaStart(fills) ==
  \E f \in fills, b \in BOOLEAN :
    /\ misc = f
    /\ seq = [r \in 0 .. 4 |-> f]
    /\ crtc = [r \in 0 .. 24 |-> f]
    /\ gc = [r \in 0 .. 8 |-> f]
    /\ ac = [r \in 0 .. 20 |-> f]
    /\ acIndex = 0 /\ atData = b /\ shown = TRUE
    /\ dac = TextDac
    /\ plane2 = "bios"
=============================================================================
