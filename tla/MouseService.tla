---------------------------- MODULE MouseService ----------------------------
(***************************************************************************)
(* The way of a mouse event: GuiMainLoop polls the driver (Ps2Mouse),      *)
(* compares the state with the last one and puts an event in the queue     *)
(* (MouseRing), from which processes take it with system calls.  Which     *)
(* movement a packet stands for is left open.                              *)
(***************************************************************************)
EXTENDS MouseRing

VARIABLES sending, streaming, output, port, irq1, pc, taken, inPlace, smooth, gaveUp

Driver == INSTANCE Ps2Mouse

driverVars == <<sending, streaming, output, port, irq1, pc, taken, inPlace, smooth, gaveUp>>

serviceVars == <<vars, driverVars>>

ServiceInit == Init /\ Driver!Init

(* The mouse, the keyboard and IRQ1, and MouseInit at boot.                *)
Hardware ==
  /\ Driver!Deliver \/ Driver!Move \/ Driver!KeyPressed \/ Driver!Irq1 \/ Driver!MouseInit
  /\ UNCHANGED vars

(* The GUI thread polls when it has no event to store.                     *)
Poll ==
  /\ stores = <<>>
  /\ Driver!MouseRead
  /\ \/ UNCHANGED vars
     \/ /\ taken' = 3
        /\ \E ev \in Events : Discard(ev) \/ Begin(ev)

QueueStore == Store /\ UNCHANGED driverVars

(* Processes run once the boot is over.                                    *)
SystemCall == ~Driver!InMouseInit /\ GuiGetMouseEvent /\ UNCHANGED driverVars

ServiceNext == Hardware \/ Poll \/ QueueStore \/ SystemCall

ServiceSpec == ServiceInit /\ [][ServiceNext]_serviceVars

-----------------------------------------------------------------------------
(* See Ps2Mouse.                                                           *)
PromptPacketsWhole == Driver!PromptPacketsWhole

(* See Ps2Mouse.                                                           *)
PacketsWhole == Driver!PacketsWhole
=============================================================================
