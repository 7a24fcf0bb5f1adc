------------------------------ MODULE VgaModes ------------------------------
(***************************************************************************)
(* The three mode changes of the kernel as programs for the VGA: mode 13h  *)
(* for the splash screen and back to text (boot_splash.c), then 640x480    *)
(* with 16 colours for the desktop (vga_init.c).                           *)
(***************************************************************************)
EXTENDS VgaDevice

(* Mode 13h.                                                               *)
Crtc13h == <<\h5F, \h4F, \h50, \h82, \h54, \h80, \hBF, \h1F, 0, \h41, 0, 0, 0, 0, 0, 0,
             \h9C, \h8E, \h8F, \h28, \h40, \h96, \hB9, \hA3, \hFF>>
Gc13h == <<0, 0, 0, 0, 0, \h40, 5, \h0F, \hFF>>
Ac13h == <<0, 1, 2, 3, 4, 5, 6, 7, 8, 9, 10, 11, 12, 13, 14, 15, \h41, 0, \h0F, 0, 0>>

(* Text.                                                                   *)
SeqText == <<3, 0, 3, 0, 2>>
CrtcText == <<\h5F, \h4F, \h50, \h82, \h55, \h81, \hBF, \h1F, 0, \h4F, \h0D, \h0E, 0, 0, 0, 0,
              \h9C, \h8E, \h8F, \h28, \h1F, \h96, \hB9, \hA3, \hFF>>
GcText == <<0, 0, 0, 0, 0, \h10, \h0E, 0, \hFF>>
AcText == <<0, 1, 2, 3, 4, 5, \h14, 7, \h38, \h39, \h3A, \h3B, \h3C, \h3D, \h3E, \h3F,
            \h0C, 0, \h0F, 8, 0>>

(* 640x480.                                                                *)
seq_regs == <<3, 1, \h0F, 0, 6>>
crtc_regs == <<\h5F, \h4F, \h50, \h82, \h54, \h80, \h0D, \h3E, 0, \h40, 0, 0, 0, 0, 0, 0,
               \hEA, \h8C, \hDF, \h28, 0, \hE7, 4, \hE3, \hFF>>
gc_regs == <<0, 0, 0, 0, 0, 0, 5, \h0F, \hFF>>
ac_regs == <<0, 1, 2, 3, 4, 5, 6, 7, 8, 9, 10, 11, 12, 13, 14, 15, 1, 0, \h0F, 0, 0>>

-----------------------------------------------------------------------------
NoUnlock == <<>>
Unlock == <<Out("crtc_and", 17, 128)>>

(* The port is set to take an index once, then index and value alternate.  *)
AttributesUnset(table) ==
  [i \in 1 .. 2 * Len(table) |->
     Out("ac", 0, IF i % 2 = 1 THEN i \div 2 ELSE table[i \div 2])]
PictureOn == <<Out("status_in", 0, 0), Out("ac", 0, 32)>>
Attributes(table) == <<Out("status_in", 0, 0)>> \o AttributesUnset(table) \o PictureOn

(* Sequencer registers change between these two.                           *)
UnderReset(outs) == <<Out("seq", 0, 1)>> \o outs \o <<Out("seq", 0, 3)>>

set_mode13h ==
  <<Out("misc", 0, \h63)>>
  \o UnderReset(<<Out("seq", 1, 1), Out("seq", 2, \h0F), Out("seq", 3, 0), Out("seq", 4, \h0E)>>)
  \o Unlock \o OutTable("crtc", Crtc13h) \o OutTable("gc", Gc13h) \o Attributes(Ac13h)

(* setup_palette replaces these colours and nobody puts them back.         *)
setup_palette ==
  <<Out("dac", 0, "black"), Out("dac", 1, "UG_blue"), Out("dac", 2, "UG_mid_blue"),
    Out("dac", 3, "UG_yellow"), Out("dac", 4, "pale_yellow"), Out("dac", 7, "gray"),
    Out("dac", 8, "darker_gray"), Out("dac", 10, "bar_green"), Out("dac", 11, "pale_green"),
    Out("dac", 15, "white"), Out("dac", 20, "high_blue"), Out("dac", 21, "low_blue")>>

(* The logo and the bar, drawn through all four planes.                    *)
draw_splash == <<Out("memory", 0, "pixels")>>

load_font ==
  <<Out("gc", 4, 2), Out("gc", 5, 0), Out("gc", 6, 4), Out("gc", 7, 0), Out("gc", 8, 255)>>
  \o UnderReset(<<Out("seq", 2, 4), Out("seq", 4, 6)>>)
  \o <<Out("memory", 0, "font")>>

set_mode3 ==
  <<Out("misc", 0, \h67)>>
  \o UnderReset(<<Out("seq", 1, 0), Out("seq", 2, 3), Out("seq", 3, 0), Out("seq", 4, 2)>>)
  \o load_font
  \o UnderReset(<<Out("seq", 2, 3), Out("seq", 4, 2)>>)
  \o Unlock \o OutTable("crtc", CrtcText) \o OutTable("gc", GcText) \o Attributes(AcText)
  \o <<Out("crtc", 15, 0), Out("crtc", 14, 0)>>

VgaSetMode ==
  UnderReset(<<>>) \o Unlock \o <<Out("misc", 0, \hE3)>>
  \o OutTable("seq", seq_regs) \o OutTable("crtc", crtc_regs) \o OutTable("gc", gc_regs)
  \o Attributes(ac_regs)

VgaInitializePalette == OutTable("dac", Colours)

-----------------------------------------------------------------------------
Holds(regs, table) == \A r \in DOMAIN regs : regs[r] = table[r + 1]

(* The picture is text, with glyphs, or the desktop's in its colours.      *)
InTextMode ==
  /\ misc = \h67 /\ shown /\ plane2 = "font"
  /\ Holds(seq, SeqText) /\ Holds(crtc, CrtcText) /\ Holds(gc, GcText) /\ Holds(ac, AcText)

InGraphicsMode ==
  /\ misc = \hE3 /\ shown
  /\ Holds(seq, seq_regs) /\ Holds(crtc, crtc_regs) /\ Holds(gc, gc_regs) /\ Holds(ac, ac_regs)
  /\ \A i \in 0 .. 15 : dac[i] = Colours[i + 1]

(* The colour text of the given attribute colour has on the screen.        *)
ColourOf(c) == dac[ac[c]]
=============================================================================
