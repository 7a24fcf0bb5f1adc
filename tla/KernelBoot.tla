----------------------------- MODULE KernelBoot -----------------------------
(***************************************************************************)
(* kernel_main from boot.asm to the idle loop: Interrupts, with the mode   *)
(* changes of the VGA where kernel_main has them and the messages it       *)
(* writes to the text screen in between.  Two stages drive the VGA, the    *)
(* splash screen and the driver; they end when the last access is made.    *)
(* While they run interrupts are off, and requests wait.                   *)
(***************************************************************************)
EXTENDS Interrupts, VgaModes

CONSTANT Fills  \* what may be in the registers of the VGA before

ASSUME FillsAssumption == Fills \subseteq 0 .. 255

VARIABLES
  done,  \* accesses of the stage that have been made
  said   \* the stage of the last message on the text screen

bootVars == <<vars, vgaVars, done, said>>

KernelShowBootSplash == set_mode13h \o setup_palette \o draw_splash \o set_mode3

ProgramOf(s) ==
  CASE s = "splash" -> KernelShowBootSplash
    [] s = "vga_mode" -> VgaSetMode \o VgaInitializePalette
    [] OTHER -> <<>>

Pending == done < Len(ProgramOf(stage))

VgaStep ==
  /\ Pending
  /\ Access(ProgramOf(stage)[done + 1])
  /\ done' = done + 1
  /\ UNCHANGED <<vars, said>>

(* The stages that end in a message, kernel_panic's included.              *)
Speaking ==
  {"header", "hal_init", "io_init", "pmm_init", "vmm_init", "tss_init", "proc_init",
   "mouse_init"}

Says ==
  IF stage' = "panic" /\ stage # "panic" THEN "panic"
  ELSE IF stage' # stage /\ stage \in Speaking THEN stage ELSE said

Goes(A) ==
  /\ ~Pending
  /\ A
  /\ done' = IF stage' = stage THEN done ELSE 0
  /\ said' = Says
  /\ UNCHANGED vgaVars

Waits ==
  /\ Pending
  /\ \E l \in Lines : Raise(l)
  /\ UNCHANGED <<vgaVars, done, said>>

KernelInit ==
  /\ Init
  /\ VgaStart(Fills)
  /\ done = 0 /\ said = "none"

KernelNext == VgaStep \/ Goes(Next) \/ Waits

(* The fairness of Interrupts, and the processor goes on with a program.   *)
KernelSpec ==
  /\ KernelInit /\ [][KernelNext]_bootVars
  /\ WF_bootVars(VgaStep)
  /\ WF_bootVars(Goes(BootStep))
  /\ WF_bootVars(Goes(Accept))
  /\ WF_bootVars(Goes(StubStep))
  /\ WF_bootVars(Goes(Sti \/ SyscallReturn \/ Exit))

-----------------------------------------------------------------------------
(* What kernel_main or kernel_panic writes can be read: it is written      *)
(* before the change to graphics (main.c:252) and in a text mode that has  *)
(* all its values (boot_splash.c:327), with glyphs although the splash was *)
(* drawn over them, whatever the boot loader left in the registers.        *)
MessagesReadable == [][said' # said => InTextMode]_bootVars

(* The threads draw for a screen in mode 12h, in the standard colours: no  *)
(* value went to another register, which vga_init.c:129 says mirrored the  *)
(* picture, and none was refused.                                          *)
DesktopShows ==
  stage \in {"processes", "scheduler_init", "sti", "running"} => InGraphicsMode

(* The colours of text are the standard ones, as boot_splash.c:381 has it: *)
(* kernel_panic writes white on red, main.c:46.                            *)
PanicColours == said = "panic" => ColourOf(15) = "white" /\ ColourOf(4) = "red"
=============================================================================
