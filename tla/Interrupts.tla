----------------------------- MODULE Interrupts -----------------------------
(***************************************************************************)
(* Interrupts from the entry of the kernel on: the tables of gdt.c, idt.c  *)
(* and tss.c, the 8259 controllers, the stubs of idt.c, and the order in   *)
(* which kernel_main sets them up.                                         *)
(*                                                                         *)
(* boot.asm turns interrupts off and kernel_main turns them on as its last *)
(* act.  From there on the threads run: they are not told apart, Scheduler *)
(* does that, and of what they do there is what interrupts notice.  mode   *)
(* says what the processor is in the middle of; while a stub runs it is    *)
(* the mode of the code the stub interrupted.                              *)
(*                                                                         *)
(* The controllers are what the code's use of them relies on: fully nested *)
(* priorities, non-specific EOI, the second chip on line 2 of the first,   *)
(* and line 7 for a request that is withdrawn before it is acknowledged.   *)
(***************************************************************************)
EXTENDS Integers

CONSTANTS
  Lines,      \* that may be raised
  BiosMasks,  \* the lines the firmware may leave masked
  Faults      \* vectors of the exceptions threads may raise

AllLines == 0 .. 15
Vectors == 0 .. 255
TIMER == 0
KEYBOARD == 1
CASCADE == 2
SPURIOUS == 7
NoLine == -1

ASSUME InputsAssumption ==
  /\ Lines \subseteq AllLines \ {CASCADE}
  /\ BiosMasks \subseteq SUBSET AllLines
  /\ Faults \subseteq 0 .. 31

VARIABLES
  stage,         \* of kernel_main: what it does next
  mode, enabled, \* what the processor does, and the interrupt flag
  handler, step, \* the stub that runs, and where it is
  line,          \* the line it was entered for
  mark,          \* the two letters at the corner of the text screen
  gdt, idt,      \* as loaded
  tr, tss, paging,
  base, icw,     \* first vectors of the controllers; what a data port expects
  irr, imr, isr, \* lines requested, masked, in service
  withdrawn      \* a request has gone before it was acknowledged

cpuVars == <<mode, enabled, handler, step, line, mark>>
tableVars == <<gdt, idt, tr, tss, paging>>
picVars == <<base, icw, irr, imr, isr, withdrawn>>
vars == <<stage, cpuVars, tableVars, picVars>>

-----------------------------------------------------------------------------
(* The 8259s.                                                              *)
Slot(l) == IF l >= 8 THEN CASCADE ELSE l
Before(k, l) == Slot(k) < Slot(l) \/ (Slot(k) = Slot(l) /\ k < l)

(* The lines that may interrupt the processor, and the one that does.      *)
Wanting ==
  {l \in irr \ imr : /\ l >= 8 => CASCADE \notin imr
                     /\ \A k \in isr : k # l /\ Before(l, k)}
First(l, S) == l \in S /\ \A k \in S : k = l \/ Before(l, k)

Vector(l) == IF l >= 8 THEN base[2] + l - 8 ELSE base[1] + l

Served(l) == IF l >= 8 THEN {l, CASCADE} ELSE {l}

(* The EOI command to a chip ends its first line in service.               *)
Chip(c) == IF c = 1 THEN 0 .. 7 ELSE 8 .. 15
Ended(c) == {l \in isr \cap Chip(c) : \A k \in isr \cap Chip(c) : l <= k}
Eoi(c) == isr' = isr \ Ended(c)

(* pic_remap, each write going to both chips with io_wait between.         *)
BiosBases == <<8, 112>>
Bases == <<32, 40>>

Icw1 ==
  /\ stage = "pic_remap" /\ icw = "ready"
  /\ icw' = "icw2"
  /\ imr' = {} /\ irr' = {} /\ isr' = {} /\ withdrawn' = FALSE
  /\ UNCHANGED <<stage, cpuVars, tableVars, base>>

Icw2 ==
  /\ icw = "icw2"
  /\ base' = Bases
  /\ icw' = "icw3"
  /\ UNCHANGED <<stage, cpuVars, tableVars, irr, imr, isr, withdrawn>>

Icw3and4 ==
  /\ icw \in {"icw3", "icw4"}
  /\ icw' = IF icw = "icw3" THEN "icw4" ELSE "mask"
  /\ UNCHANGED <<stage, cpuVars, tableVars, base, irr, imr, isr, withdrawn>>

MaskAll ==
  /\ icw = "mask"
  /\ imr' = AllLines
  /\ icw' = "ready"
  /\ stage' = "idt"
  /\ UNCHANGED <<cpuVars, tableVars, base, irr, isr, withdrawn>>

-----------------------------------------------------------------------------
(* The tables.                                                             *)
GdtInit ==
  /\ stage = "gdt_init"
  /\ gdt' = <<"code0", "data0", "code3", "data3", "null">>
  /\ stage' = "pic_remap"
  /\ UNCHANGED <<cpuVars, idt, tr, tss, paging, picVars>>

ExceptionStub(v) ==
  IF v = 0 THEN "exc_divide_error"
  ELSE IF v = 6 THEN "exc_invalid_opcode"
  ELSE IF v = 8 THEN "exc_double_fault"
  ELSE IF v = 13 THEN "exc_gpf"
  ELSE IF v = 14 THEN "exc_page_fault"
  ELSE "exc_generic"

IrqStub(v) ==
  IF v = 32 THEN "irq0_timer_handler"
  ELSE IF v = 33 THEN "irq1_keyboard_handler"
  ELSE "irq_generic_handler"

HandlerAt(v) ==
  IF v = 48 THEN "syscall_entry"
  ELSE IF v \in 32 .. 47 THEN IrqStub(v)
  ELSE ExceptionStub(v)

DplKernelOnly(v) == 0
Dpl(v) == IF v = 48 THEN 3 ELSE 0

(* The rest of idt_init, up to lidt.                                       *)
IdtInit ==
  /\ stage = "idt"
  /\ idt' = [v \in Vectors |-> [handler |-> HandlerAt(v), dpl |-> Dpl(v)]]
  /\ stage' = "unmask"
  /\ UNCHANGED <<cpuVars, gdt, tr, tss, paging, picVars>>

UnmaskTimer ==
  /\ stage = "unmask"
  /\ imr' = AllLines \ {TIMER}
  /\ stage' = "splash"
  /\ UNCHANGED <<cpuVars, tableVars, base, icw, irr, isr, withdrawn>>

VmmInit ==
  /\ stage = "vmm_init"
  /\ paging' = TRUE
  /\ stage' = "tss_init"
  /\ UNCHANGED <<cpuVars, gdt, idt, tr, tss, picVars>>

(* tss_init installs the descriptor and loads it.                          *)
Cleared == [ss0 |-> 0, esp0 |-> FALSE]

TssInit ==
  /\ stage = "tss_init"
  /\ tss' = [Cleared EXCEPT !.ss0 = 16]
  /\ gdt' = [gdt EXCEPT ![5] = "tss"]
  /\ tr' = 5
  /\ stage' = "proc_init"
  /\ UNCHANGED <<cpuVars, idt, paging, picVars>>

(* proc_init and tss_set_esp0 with the stack of the idle thread.           *)
ProcInit ==
  /\ stage = "proc_init"
  /\ tss' = [tss EXCEPT !.esp0 = TRUE]
  /\ stage' = "mouse_init"
  /\ UNCHANGED <<cpuVars, gdt, idt, tr, paging, picVars>>

UnmaskOnlyKeyboard == AllLines \ {KEYBOARD}
UnmaskKeyboard == imr \ {KEYBOARD}

MouseInit ==
  /\ stage = "mouse_init"
  /\ imr' = UnmaskKeyboard
  /\ stage' = "mouse_poll"
  /\ UNCHANGED <<cpuVars, tableVars, base, icw, irr, isr, withdrawn>>

(* The stages of kernel_main that no interrupt notices.                    *)
Follows ==
  [splash |-> "header",
   header |-> "multiboot",
   multiboot |-> "hal_init",
   hal_init |-> "io_init",
   io_init |-> "pmm_init",
   pmm_init |-> "vmm_init",
   mouse_poll |-> "driver",
   driver |-> "vga_mode",
   vga_mode |-> "processes",
   processes |-> "scheduler_init",
   scheduler_init |-> "sti"]

Quiet ==
  /\ stage \in DOMAIN Follows
  /\ stage' = Follows[stage]
  /\ UNCHANGED <<cpuVars, tableVars, picVars>>

(* kernel_panic, which halts with interrupts off: a boot loader that is    *)
(* not multiboot, a driver there is no memory for.                         *)
Panic ==
  /\ stage \in {"multiboot", "driver"}
  /\ stage' = "panic"
  /\ UNCHANGED <<cpuVars, tableVars, picVars>>

IdleLoop ==
  /\ stage = "sti"
  /\ stage' = "running"
  /\ mode' = "kernel"
  /\ enabled' = TRUE
  /\ UNCHANGED <<handler, step, line, mark, tableVars, picVars>>

BootStep ==
  \/ GdtInit \/ Icw1 \/ Icw2 \/ Icw3and4 \/ MaskAll \/ IdtInit \/ UnmaskTimer
  \/ VmmInit \/ TssInit \/ ProcInit \/ MouseInit \/ Quiet \/ Panic \/ IdleLoop

-----------------------------------------------------------------------------
(* Entering a gate: from ring 3 the processor takes the stack of the TSS.  *)
(* Without a gate, a segment or a stack it resets the machine.             *)
StackFound == mode = "user" => tr = 5 /\ gdt[5] = "tss" /\ tss = [ss0 |-> 16, esp0 |-> TRUE]
GateFound(v) == v \in DOMAIN idt /\ 1 \in DOMAIN gdt /\ gdt[1] = "code0"

Enter(v, l) ==
  /\ handler' = IF GateFound(v) /\ StackFound THEN idt[v].handler ELSE "reset"
  /\ step' = "entered"
  /\ line' = l
  /\ enabled' = FALSE
  /\ UNCHANGED <<stage, mark, tableVars>>

Raise(l) ==
  /\ l \notin irr
  /\ irr' = irr \cup {l}
  /\ UNCHANGED <<stage, cpuVars, tableVars, base, icw, imr, isr, withdrawn>>

(* MouseRead and mouse_read take the byte of a key from the port.          *)
Withdraw ==
  /\ KEYBOARD \in irr
  /\ \/ stage = "mouse_poll"
     \/ stage = "running" /\ mode = "kernel" /\ handler = "none"
  /\ irr' = irr \ {KEYBOARD}
  /\ withdrawn' = (KEYBOARD \notin imr)
  /\ UNCHANGED <<stage, cpuVars, tableVars, base, icw, imr, isr>>

Accept ==
  /\ enabled
  /\ withdrawn' = FALSE
  /\ \/ \E l \in Wanting :
          /\ First(l, Wanting)
          /\ isr' = isr \cup Served(l)
          /\ irr' = irr \ {l}
          /\ Enter(Vector(l), l)
     \/ /\ Wanting = {} /\ withdrawn
        /\ Enter(Vector(SPURIOUS), SPURIOUS)
        /\ UNCHANGED <<irr, isr>>
  /\ UNCHANGED <<mode, base, icw, imr>>

-----------------------------------------------------------------------------
(* The stubs.                                                              *)
EoiMasterNever == UNCHANGED isr
EoiMaster == Eoi(1)

Acknowledge ==
  /\ \/ /\ handler \in {"irq0_timer_handler", "irq1_keyboard_handler"}
        /\ step = "entered"
        /\ step' = "acknowledged"
        /\ EoiMaster
     \/ /\ handler = "irq_generic_handler"
        /\ \/ step = "entered" /\ step' = "slave" /\ Eoi(1)
           \/ step = "slave" /\ step' = "acknowledged" /\ Eoi(2)
  /\ UNCHANGED <<stage, mode, enabled, handler, line, mark, tableVars, base, icw, irr, imr, withdrawn>>

(* scheduler_tick returns to a thread that was interrupted or has yielded  *)
(* in a system call, with its stack in the TSS; the other stubs return to  *)
(* what they interrupted.                                                  *)
Resumable == {"kernel", "user", "sysret"}

Return ==
  /\ step = "acknowledged"
  /\ \/ /\ handler = "irq0_timer_handler"
        /\ mode' \in Resumable
        /\ tss' = [tss EXCEPT !.esp0 = TRUE]
     \/ /\ handler # "irq0_timer_handler"
        /\ UNCHANGED <<mode, tss>>
  /\ enabled' = (mode' # "sysret")
  /\ handler' = "none" /\ step' = "none" /\ line' = NoLine
  /\ UNCHANGED <<stage, mark, gdt, idt, tr, paging, picVars>>

(* The exception stubs write two letters and halt with interrupts off.     *)
Letters ==
  [exc_divide_error |-> "DZ", exc_invalid_opcode |-> "UD", exc_double_fault |-> "DF",
   exc_gpf |-> "GP", exc_page_fault |-> "PF", exc_generic |-> "EX"]

Halt ==
  /\ handler \in DOMAIN Letters
  /\ step = "entered"
  /\ mark' = Letters[handler]
  /\ step' = "halted"
  /\ UNCHANGED <<stage, mode, enabled, handler, line, tableVars, picVars>>

-----------------------------------------------------------------------------
(* What threads do.  A request that waits is taken before their next       *)
(* instruction.                                                            *)
Executing(m) ==
  /\ stage = "running" /\ handler = "none" /\ mode = m
  /\ ~(enabled /\ (Wanting # {} \/ withdrawn))

(* The sections of the GUI thread that turn interrupts off.                *)
Cli ==
  /\ Executing("kernel")
  /\ mode' = "cli" /\ enabled' = FALSE
  /\ UNCHANGED <<stage, handler, step, line, mark, tableVars, picVars>>

Sti ==
  /\ Executing("cli")
  /\ mode' = "kernel" /\ enabled' = TRUE
  /\ UNCHANGED <<stage, handler, step, line, mark, tableVars, picVars>>

(* INT n of a thread: a gate it may not use is a protection fault.         *)
IntN(v, ring) ==
  IF v \in DOMAIN idt /\ ring <= idt[v].dpl THEN Enter(v, NoLine) ELSE Enter(13, NoLine)

SyscallEnter ==
  /\ Executing("user")
  /\ IntN(48, 3)
  /\ UNCHANGED <<mode, picVars>>

(* syscall_entry, in the kernel with interrupts off.                       *)
SyscallStub ==
  /\ handler = "syscall_entry"
  /\ mode' = "syscall"
  /\ handler' = "none" /\ step' = "none"
  /\ UNCHANGED <<stage, enabled, line, mark, tableVars, picVars>>

(* scheduler_yield enters the timer's stub; a system call yields once.     *)
Yield ==
  /\ Executing("syscall")
  /\ IntN(32, 0)
  /\ UNCHANGED <<mode, picVars>>

SyscallReturn ==
  /\ Executing("syscall") \/ Executing("sysret")
  /\ mode' = "user" /\ enabled' = TRUE
  /\ UNCHANGED <<stage, handler, step, line, mark, tableVars, picVars>>

(* proc_exit: the thread waits with interrupts on for its last tick.       *)
Exit ==
  /\ Executing("syscall")
  /\ mode' = "kernel" /\ enabled' = TRUE
  /\ UNCHANGED <<stage, handler, step, line, mark, tableVars, picVars>>

Fault(v) ==
  /\ \E m \in {"kernel", "user", "syscall", "cli"} : Executing(m)
  /\ Enter(v, NoLine)
  /\ UNCHANGED <<mode, picVars>>

ThreadStep ==
  \/ Cli \/ Sti \/ SyscallEnter \/ Yield \/ SyscallReturn \/ Exit
  \/ \E v \in Faults : Fault(v)

StubStep == Acknowledge \/ Return \/ Halt \/ SyscallStub

Init ==
  /\ stage = "gdt_init"
  /\ mode = "boot" /\ enabled = FALSE
  /\ handler = "none" /\ step = "none" /\ line = NoLine
  /\ mark = ""
  /\ gdt = <<>> /\ idt = <<>>
  /\ tr = 0 /\ tss = Cleared /\ paging = FALSE
  /\ base = BiosBases /\ icw = "ready"
  /\ irr = {} /\ imr \in BiosMasks /\ isr = {} /\ withdrawn = FALSE

Stopped == stage = "panic" \/ step = "halted"

Next ==
  \/ BootStep
  \/ \E l \in Lines : Raise(l)
  \/ Withdraw \/ Accept
  \/ StubStep \/ ThreadStep
  \/ Stopped /\ UNCHANGED vars

Spec == Init /\ [][Next]_vars

(* The processor goes on: kernel_main, the stubs and the sections that     *)
(* turn interrupts off end, and it takes the requests there are.           *)
Fairness ==
  /\ WF_vars(BootStep)
  /\ WF_vars(Accept)
  /\ WF_vars(StubStep)
  /\ WF_vars(Sti \/ SyscallReturn \/ Exit)

-----------------------------------------------------------------------------
(* idt.c:12: the lines of the first chip arrive at vectors 0x20-0x27 and   *)
(* those of the second at 0x28-0x2F.  Whatever line is raised, withdrawn   *)
(* or never there, at whatever time, the stub for it runs, no interrupt    *)
(* is taken for an exception, none finds the tables unfinished, and the    *)
(* running kernel lets no line through but the two it serves.              *)
RoutineOf(l) ==
  IF l = TIMER THEN "irq0_timer_handler"
  ELSE IF l = KEYBOARD THEN "irq1_keyboard_handler"
  ELSE "irq_generic_handler"

InterruptsRouted ==
  /\ handler # "reset"
  /\ line # NoLine => handler = RoutineOf(line)
  /\ stage = "running" => imr = AllLines \ {TIMER, KEYBOARD}

(* The EOIs are right in number and order: when a stub has returned no     *)
(* line is left in service, which would block it and those after it for    *)
(* good, and no EOI of a withdrawn request or of a yield ends the service  *)
(* of another line.                                                        *)
NothingLeftInService ==
  /\ handler = "none" => isr = {}
  /\ line # NoLine /\ step = "entered" => isr = Served(line) \/ (line = SPURIOUS /\ isr = {})

(* No thread is in ring 3 before everything that its first interrupt, its  *)
(* first system call and its memory need is in place: main.c:182-188.      *)
RingThreeReady ==
  mode = "user" =>
    /\ paging /\ StackFound
    /\ gdt[3] = "code3" /\ gdt[4] = "data3"
    /\ idt[48] = [handler |-> "syscall_entry", dpl |-> 3]

(* A tick that is due is served unless the machine has stopped.            *)
TicksGoOn == TIMER \in irr /\ stage = "running" ~> handler = "irq0_timer_handler" \/ Stopped
=============================================================================
