--------------------------- MODULE MCKernelParts ---------------------------
(***************************************************************************)
(* The parts of the kernel that do not act on one another in the models:   *)
(* the frames of pmm.c, the address spaces of vmm.c, the ready queue of    *)
(* scheduler.c, the system call stub, and the clock of the taskbar.  A     *)
(* behaviour is one of a single part, the others keeping the state they    *)
(* start in, so that one run explores each part on its own.                *)
(***************************************************************************)
EXTENDS Pmm, Vmm, ReadyQueue, TLC

CONSTANT RADIX

ASSUME RadixAssumption == RADIX \in Nat \ {0}

VARIABLES part,  \* the one that moves
          regs, stub_stack, at, call, before, used, result,
          time, reading, began, shown

stubVars == <<regs, stub_stack, at, call, before, used, result>>

clockVars == <<time, reading, began, shown>>

Clock == INSTANCE WallClock
Stub == INSTANCE Syscall WITH kstack <- stub_stack

kernelVars == <<vars, vmmVars, ringVars, stubVars>>

MCInit ==
  /\ part \in {"pmm", "vmm", "ready queue", "system call", "clock"}
  /\ Init
  /\ VmmInit
  /\ part # "vmm" => free = PoolFrames
  /\ RingInit
  /\ Stub!Init
  /\ Clock!ClockInit
  /\ part # "clock" => time = [k \in 1 .. 6 |-> 0]

PmmMoves ==
  part = "pmm" /\ Next /\ UNCHANGED <<part, vmmVars, ringVars, stubVars, clockVars>>
VmmMoves ==
  part = "vmm" /\ VmmNext /\ UNCHANGED <<part, vars, ringVars, stubVars, clockVars>>
RingMoves ==
  part = "ready queue" /\ RingNext /\ UNCHANGED <<part, vars, vmmVars, stubVars, clockVars>>
StubMoves ==
  part = "system call" /\ Stub!Next /\ UNCHANGED <<part, vars, vmmVars, ringVars, clockVars>>
ClockMoves ==
  part = "clock" /\ Clock!ClockNext /\ UNCHANGED <<part, kernelVars>>

MCNext == PmmMoves \/ VmmMoves \/ RingMoves \/ StubMoves \/ ClockMoves

MCSpec == MCInit /\ [][MCNext]_<<part, kernelVars, clockVars>>

-----------------------------------------------------------------------------
(* Memory maps for pmm_init, one unit being a quarter of the real page:    *)
(* the pool starts at page 2 and ends at page 8, the word has 64 pages.    *)
(* From no pool at all, over ends inside a page, to more RAM than is used. *)
EnoughMemory == BASE_KB - LOW_KB .. END_KB + 5

(* An address space: six entries a table and five kernel tables, so that   *)
(* pages 0-29 are the kernel's.  The pool may end so early that only the   *)
(* kernel fits, and so late that two processes do.                         *)
MCPool == 2 .. 29
MCPoolEnds == 11 .. 30

(* ReadyQueue tells threads apart by their links only, and the other parts *)
(* have none, so that a permutation of threads changes nothing.            *)
ThreadSymmetry == Permutations(Threads)

-----------------------------------------------------------------------------
(* syscall.c: see Syscall.                                                 *)
StubTransparent == Stub!StubTransparent

(* vga_gui.c: see WallClock.                                               *)
ShownWasTime == Clock!ShownWasTime
=============================================================================
