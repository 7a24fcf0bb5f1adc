-------------------------- MODULE KernelBootProofs --------------------------
(***************************************************************************)
(* For every set of lines, masks and faults: no interrupt goes astray, no  *)
(* line stays in service, and ring 3 finds everything in place.  The       *)
(* invariant has two halves: what kernel_main has set up at each stage,    *)
(* and how far each stub has got with the lines in service.                *)
(*                                                                         *)
(* For every setting the registers of the VGA are found in: each message   *)
(* is written in a complete text mode, and the threads find a complete     *)
(* desktop.  That invariant says, for every number of accesses a stage has *)
(* made, which registers have the values of its tables.                    *)
(***************************************************************************)
EXTENDS KernelBoot, CommonTheorems

(* The stages, by what is done before them.                                *)
AfterMouse ==
  {"mouse_poll", "driver", "vga_mode", "processes", "scheduler_init", "sti", "running"}
AfterProc == {"mouse_init"} \cup AfterMouse
AfterTss == {"proc_init"} \cup AfterProc
AfterVmm == {"tss_init"} \cup AfterTss
AfterUnmask ==
  {"splash", "header", "multiboot", "hal_init", "io_init", "pmm_init", "vmm_init"} \cup AfterVmm
AfterIdt == {"unmask"} \cup AfterUnmask
AfterPic == {"idt"} \cup AfterIdt

Segments == {"code0", "data0", "code3", "data3", "null", "tss"}

Table == [v \in Vectors |-> [handler |-> HandlerAt(v), dpl |-> Dpl(v)]]

BootInv ==
  /\ stage \in AfterPic \cup {"gdt_init", "pic_remap", "panic"}
  /\ stage # "gdt_init" =>
       /\ gdt \in [1 .. 5 -> Segments]
       /\ gdt[1] = "code0" /\ gdt[3] = "code3" /\ gdt[4] = "data3"
  /\ icw \in {"ready", "icw2", "icw3", "icw4", "mask"}
  /\ icw # "ready" => stage = "pic_remap"
  /\ icw \in {"icw3", "icw4", "mask"} \/ stage \in AfterPic => base = Bases
  /\ stage \in AfterIdt => idt = Table
  /\ stage \in AfterUnmask \ AfterMouse => imr = AllLines \ {TIMER}
  /\ stage \in AfterMouse => imr = AllLines \ {TIMER, KEYBOARD}
  /\ stage \in AfterVmm => paging
  /\ stage \in AfterTss => tr = 5 /\ gdt[5] = "tss" /\ tss \in [ss0 : {16}, esp0 : BOOLEAN]
  /\ stage \in AfterProc => tss.esp0 = TRUE

Exceptions == DOMAIN Letters

StubInv ==
  /\ (mode = "boot") <=> (stage # "running")
  /\ irr \subseteq AllLines
  /\ enabled \in BOOLEAN
  /\ enabled => stage = "running" /\ handler = "none"
  /\ handler # "none" => stage = "running"
  /\ \/ handler = "none" /\ step = "none" /\ line = NoLine /\ isr = {}
     \/ /\ handler = "irq0_timer_handler" /\ step = "entered"
        /\ \/ line = TIMER /\ isr = {TIMER}
           \/ line = NoLine /\ isr = {}
     \/ /\ handler = "irq0_timer_handler" /\ step = "acknowledged"
        /\ line \in {TIMER, NoLine} /\ isr = {}
     \/ /\ handler = "irq1_keyboard_handler" /\ line = KEYBOARD
        /\ \/ step = "entered" /\ isr = {KEYBOARD}
           \/ step = "acknowledged" /\ isr = {}
     \/ /\ handler = "irq_generic_handler" /\ line = SPURIOUS
        /\ step \in {"entered", "slave", "acknowledged"} /\ isr = {}
     \/ /\ handler \in Exceptions \cup {"syscall_entry"} /\ line = NoLine
        /\ step \in {"entered", "halted"} /\ isr = {}

IInv == BootInv /\ StubInv

-----------------------------------------------------------------------------
(* The handlers in the table, by idt_init.                                 *)
LEMMA Handlers ==
  /\ HandlerAt(32) = "irq0_timer_handler"
  /\ HandlerAt(33) = "irq1_keyboard_handler"
  /\ HandlerAt(39) = "irq_generic_handler"
  /\ HandlerAt(48) = "syscall_entry"
  /\ \A v \in 0 .. 31 : HandlerAt(v) \in Exceptions
  BY DEF HandlerAt, IrqStub, ExceptionStub, Exceptions, Letters

(* Once the kernel runs, every vector leads to its handler in every mode.  *)
LEMMA GatesReady ==
  ASSUME IInv, stage = "running"
  PROVE  StackFound /\ (\A v \in Vectors : GateFound(v) /\ idt[v].handler = HandlerAt(v))
<1> USE DEF IInv, BootInv, AfterPic, AfterIdt, AfterUnmask, AfterVmm, AfterTss, AfterProc,
            AfterMouse
<1>1. 1 \in DOMAIN gdt /\ gdt[1] = "code0"
  OBVIOUS
<1>2. StackFound
  BY DEF StackFound
<1>3. \A v \in Vectors : v \in DOMAIN idt /\ idt[v].handler = HandlerAt(v)
  BY DEF Table
<1> QED BY <1>1, <1>2, <1>3 DEF GateFound

-----------------------------------------------------------------------------
LEMMA InitInv == Init => IInv
<1> SUFFICES ASSUME Init PROVE IInv
  OBVIOUS
<1>1. BootInv
  BY DEF Init, BootInv, AfterPic, AfterIdt, AfterUnmask, AfterVmm, AfterTss, AfterProc, AfterMouse
<1>2. StubInv
  BY DEF Init, StubInv
<1> QED BY <1>1, <1>2 DEF IInv

(* kernel_main before the idle loop: the next stage asks for one thing     *)
(* more, which the step has just done.                                     *)
LEMMA BootKeepsBoot ==
  ASSUME IInv, BootStep
  PROVE  BootInv'
<1> USE DEF IInv, BootInv, AfterPic, AfterIdt, AfterUnmask, AfterVmm, AfterTss, AfterProc,
            AfterMouse
<1>1. CASE GdtInit
  BY <1>1 DEF GdtInit, picVars, cpuVars, Segments
<1>2. CASE Icw1
  BY <1>2 DEF Icw1, tableVars, cpuVars
<1>3. CASE Icw2
  BY <1>3 DEF Icw2, tableVars, cpuVars
<1>4. CASE Icw3and4
  BY <1>4 DEF Icw3and4, tableVars, cpuVars
<1>5. CASE MaskAll
  BY <1>5 DEF MaskAll, tableVars, cpuVars
<1>6. CASE IdtInit
  BY <1>6 DEF IdtInit, picVars, cpuVars, Table
<1>7. CASE UnmaskTimer
  BY <1>7 DEF UnmaskTimer, tableVars, cpuVars
<1>8. CASE VmmInit
  BY <1>8 DEF VmmInit, picVars, cpuVars
<1>9. CASE TssInit
  <2>1. gdt' \in [1 .. 5 -> Segments] /\ gdt'[1] = "code0" /\ gdt'[3] = "code3" /\ gdt'[4] = "data3"
        /\ gdt'[5] = "tss"
    BY <1>9 DEF TssInit, Segments
  <2>2. tss' \in [ss0 : {16}, esp0 : BOOLEAN]
    BY <1>9 DEF TssInit, Cleared
  <2> QED BY <1>9, <2>1, <2>2 DEF TssInit, picVars, cpuVars
<1>10. CASE ProcInit
  BY <1>10 DEF ProcInit, picVars, cpuVars
<1>11. CASE MouseInit
  <2>1. imr' = AllLines \ {TIMER, KEYBOARD}
    BY <1>11 DEF MouseInit, UnmaskKeyboard
  <2> QED BY <1>11, <2>1 DEF MouseInit, tableVars, cpuVars
<1>12. CASE Quiet
  BY <1>12 DEF Quiet, Follows, tableVars, cpuVars, picVars
<1>13. CASE Panic
  BY <1>13 DEF Panic, tableVars, cpuVars, picVars
<1>14. CASE IdleLoop
  BY <1>14 DEF IdleLoop, tableVars, picVars
<1> QED
  BY <1>1, <1>2, <1>3, <1>4, <1>5, <1>6, <1>7, <1>8, <1>9, <1>10, <1>11, <1>12, <1>13, <1>14
  DEF BootStep

(* Interrupts stay off until the last step, and no stub runs.              *)
LEMMA BootKeepsStubs ==
  ASSUME IInv, BootStep
  PROVE  StubInv'
<1>1. stage # "running"
  BY DEF IInv, BootInv, BootStep, GdtInit, Icw1, Icw2, Icw3and4, MaskAll, IdtInit, UnmaskTimer, VmmInit,
         TssInit, ProcInit, MouseInit, Quiet, Follows, Panic, IdleLoop
<1>2. handler = "none" /\ step = "none" /\ line = NoLine /\ isr = {} /\ mode = "boot"
      /\ enabled = FALSE
  BY <1>1 DEF IInv, StubInv, Exceptions, Letters
<1>3. CASE IdleLoop
  BY <1>2, <1>3 DEF IdleLoop, IInv, StubInv, picVars
<1>4. CASE ~IdleLoop
  <2>1. stage' # "running" /\ isr' = {} /\ irr' \subseteq AllLines /\ UNCHANGED cpuVars
    BY <1>1, <1>2, <1>4 DEF IInv, BootInv, BootStep, GdtInit, Icw1, Icw2, Icw3and4, MaskAll, IdtInit,
       UnmaskTimer, VmmInit, TssInit, ProcInit, MouseInit, Quiet, Follows, Panic, picVars, StubInv
  <2> QED BY <1>2, <2>1 DEF cpuVars, StubInv
<1> QED BY <1>3, <1>4

-----------------------------------------------------------------------------
(* What the processor and the threads do once the kernel runs leaves what  *)
(* was set up alone, but for the stack in the TSS, which a tick renews.    *)
LEMMA RunningKeepsBoot ==
  ASSUME IInv, UNCHANGED <<stage, gdt, idt, tr, paging, base, icw, imr>>,
         tss' = tss \/ (stage = "running" /\ tss' = [tss EXCEPT !.esp0 = TRUE])
  PROVE  BootInv'
  BY DEF IInv, BootInv, AfterPic, AfterIdt, AfterUnmask, AfterVmm, AfterTss, AfterProc, AfterMouse

(* A line that interrupts is one of the two that are let through.          *)
LEMMA AcceptInv ==
  ASSUME IInv, Accept
  PROVE  IInv'
<1> USE DEF TIMER, KEYBOARD, SPURIOUS, CASCADE, AllLines
<1>1. enabled /\ stage = "running" /\ handler = "none" /\ isr = {} /\ mode # "boot"
  BY DEF Accept, IInv, StubInv
<1>2. imr = AllLines \ {TIMER, KEYBOARD} /\ base = Bases
  BY <1>1 DEF IInv, BootInv, AfterPic, AfterIdt, AfterUnmask, AfterVmm, AfterTss, AfterProc,
              AfterMouse
<1>3. UNCHANGED <<stage, mode, tableVars, base, icw, imr>> /\ irr' \subseteq AllLines
  BY DEF Accept, Enter, IInv, StubInv
<1>4. BootInv'
  BY <1>3, RunningKeepsBoot DEF tableVars
<1>5. ASSUME NEW l \in Wanting, isr' = isr \cup Served(l), Enter(Vector(l), l)
      PROVE  StubInv'
  <2>1. l \in {TIMER, KEYBOARD}
    BY <1>2, <1>5 DEF Wanting, IInv, StubInv
  <2>2. CASE l = TIMER
    <3>1. Vector(l) = 32 /\ isr' = {TIMER}
      BY <1>1, <1>2, <1>5, <2>2 DEF Vector, Bases, Served
    <3>2. handler' = "irq0_timer_handler" /\ step' = "entered" /\ line' = TIMER /\ enabled' = FALSE
      <4>1. Enter(32, TIMER) /\ 32 \in Vectors
        BY <1>5, <2>2, <3>1 DEF Vectors
      <4> QED BY <1>1, <4>1, GatesReady, Handlers DEF Enter
    <3>3. mode' # "boot" /\ stage' = "running" /\ irr' \subseteq AllLines
      BY <1>1, <1>3
    <3> QED BY <3>1, <3>2, <3>3 DEF StubInv
  <2>3. CASE l = KEYBOARD
    <3>1. Vector(l) = 33 /\ isr' = {KEYBOARD}
      BY <1>1, <1>2, <1>5, <2>3 DEF Vector, Bases, Served
    <3>2. handler' = "irq1_keyboard_handler" /\ step' = "entered" /\ line' = KEYBOARD
          /\ enabled' = FALSE
      <4>1. Enter(33, KEYBOARD) /\ 33 \in Vectors
        BY <1>5, <2>3, <3>1 DEF Vectors
      <4> QED BY <1>1, <4>1, GatesReady, Handlers DEF Enter
    <3>3. mode' # "boot" /\ stage' = "running" /\ irr' \subseteq AllLines
      BY <1>1, <1>3
    <3> QED BY <3>1, <3>2, <3>3 DEF StubInv
  <2> QED BY <2>1, <2>2, <2>3
<1>6. ASSUME Enter(Vector(SPURIOUS), SPURIOUS), UNCHANGED isr
      PROVE  StubInv'
  <2>1. Vector(SPURIOUS) = 39
    BY <1>2 DEF Vector, Bases
  <2>2. handler' = "irq_generic_handler" /\ step' = "entered" /\ line' = SPURIOUS
        /\ enabled' = FALSE
    <3>1. Enter(39, SPURIOUS) /\ 39 \in Vectors
      BY <1>6, <2>1 DEF Vectors
    <3> QED BY <1>1, <3>1, GatesReady, Handlers DEF Enter
  <2>3. mode' # "boot" /\ stage' = "running" /\ irr' \subseteq AllLines /\ isr' = {}
    BY <1>1, <1>3, <1>6
  <2> QED BY <2>2, <2>3 DEF StubInv
<1> QED BY <1>4, <1>5, <1>6 DEF Accept, IInv

(* The EOIs end the one line in service, or find none.                     *)
LEMMA EoiEnds ==
  ASSUME NEW l \in 0 .. 7, isr = {l} \/ isr = {}, Eoi(1)
  PROVE  isr' = {}
  BY DEF Eoi, Ended, Chip

LEMMA StubStepInv ==
  ASSUME IInv, StubStep
  PROVE  IInv'
<1>1. CASE Acknowledge
  <2>1. BootInv'
    BY <1>1, RunningKeepsBoot DEF Acknowledge, tableVars
  <2>2. isr' = {}
    <3>1. CASE isr = {}
      BY <1>1, <3>1 DEF Acknowledge, EoiMaster, Eoi, Ended, Chip
    <3>2. CASE isr # {}
      <4>1. handler # "irq_generic_handler"
        BY <3>2 DEF IInv, StubInv
      <4>2. Eoi(1)
        BY <1>1, <4>1 DEF Acknowledge, EoiMaster
      <4>3. isr = {TIMER} \/ isr = {KEYBOARD}
        BY <3>2 DEF IInv, StubInv
      <4> QED BY <4>2, <4>3, EoiEnds DEF TIMER, KEYBOARD
    <3> QED BY <3>1, <3>2
  <2>3. StubInv'
    BY <1>1, <2>2 DEF Acknowledge, IInv, StubInv, Exceptions, Letters
  <2> QED BY <2>1, <2>3 DEF IInv
<1>2. CASE Return
  <2>1. stage = "running" /\ isr = {}
    BY <1>2 DEF Return, IInv, StubInv
  <2>2. BootInv'
    BY <1>2, <2>1, RunningKeepsBoot DEF Return, picVars
  <2>3. mode' # "boot"
    BY <1>2, <2>1 DEF Return, Resumable, IInv, StubInv
  <2>4. StubInv'
    BY <1>2, <2>1, <2>3 DEF Return, IInv, StubInv, picVars
  <2> QED BY <2>2, <2>4 DEF IInv
<1>3. CASE Halt
  <2>1. BootInv'
    BY <1>3, RunningKeepsBoot DEF Halt, tableVars, picVars
  <2>2. StubInv'
    BY <1>3 DEF Halt, IInv, StubInv, Exceptions, Letters, picVars
  <2> QED BY <2>1, <2>2 DEF IInv
<1>4. CASE SyscallStub
  <2>1. BootInv'
    BY <1>4, RunningKeepsBoot DEF SyscallStub, tableVars, picVars
  <2>2. StubInv'
    BY <1>4 DEF SyscallStub, IInv, StubInv, Exceptions, Letters, picVars
  <2> QED BY <2>1, <2>2 DEF IInv
<1> QED BY <1>1, <1>2, <1>3, <1>4 DEF StubStep

(* A software interrupt and a fault find their gates.                      *)
LEMMA EnterInv ==
  ASSUME IInv, stage = "running", handler = "none", NEW v \in 0 .. 31 \cup {32, 48},
         Enter(v, NoLine), UNCHANGED <<mode, picVars>>
  PROVE  IInv'
<1>1. isr = {} /\ mode # "boot"
  BY DEF IInv, StubInv
<1>2. handler' = HandlerAt(v) /\ step' = "entered" /\ line' = NoLine /\ enabled' = FALSE
  <2>1. v \in Vectors
    BY DEF Vectors
  <2> QED BY <2>1, GatesReady DEF Enter
<1>3. handler' \in Exceptions \cup {"syscall_entry", "irq0_timer_handler"}
  BY <1>2, Handlers
<1>4. BootInv'
  BY RunningKeepsBoot DEF Enter, tableVars, picVars
<1>5. StubInv'
  BY <1>1, <1>2, <1>3 DEF Enter, IInv, StubInv, picVars
<1> QED BY <1>4, <1>5 DEF IInv

LEMMA ThreadStepInv ==
  ASSUME IInv, ThreadStep
  PROVE  IInv'
<1>1. stage = "running" /\ handler = "none"
  BY DEF ThreadStep, Cli, Sti, SyscallEnter, Yield, SyscallReturn, Exit, Fault, Executing
<1>2. isr = {} /\ step = "none" /\ line = NoLine
  BY <1>1 DEF IInv, StubInv, Exceptions, Letters
<1>3. idt = Table
  BY <1>1 DEF IInv, BootInv, AfterIdt, AfterUnmask, AfterVmm, AfterTss, AfterProc, AfterMouse
<1>4. CASE Cli \/ Sti \/ SyscallReturn \/ Exit
  <2>1. UNCHANGED <<stage, handler, step, line, tableVars, picVars>> /\ mode' # "boot"
        /\ enabled' \in BOOLEAN
    BY <1>4 DEF Cli, Sti, SyscallReturn, Exit
  <2>2. BootInv'
    BY <2>1, RunningKeepsBoot DEF tableVars, picVars
  <2>3. StubInv'
    BY <1>1, <1>2, <2>1 DEF IInv, StubInv, picVars
  <2> QED BY <2>2, <2>3 DEF IInv
<1>5. CASE SyscallEnter
  <2>1. Enter(48, NoLine) \/ Enter(13, NoLine)
    BY <1>5 DEF SyscallEnter, IntN
  <2> QED BY <1>1, <1>5, <2>1, EnterInv DEF SyscallEnter
<1>6. CASE Yield
  <2>1. Enter(32, NoLine) \/ Enter(13, NoLine)
    BY <1>6 DEF Yield, IntN
  <2> QED BY <1>1, <1>6, <2>1, EnterInv DEF Yield
<1>7. ASSUME NEW v \in Faults, Fault(v) PROVE IInv'
  <2>1. v \in 0 .. 31
    BY InputsAssumption
  <2> QED BY <1>1, <1>7, <2>1, EnterInv DEF Fault
<1> QED BY <1>4, <1>5, <1>6, <1>7 DEF ThreadStep

-----------------------------------------------------------------------------
LEMMA StepInv == IInv /\ [Next]_vars => IInv'
<1> SUFFICES ASSUME IInv, [Next]_vars PROVE IInv'
  OBVIOUS
<1>1. CASE BootStep
  BY <1>1, BootKeepsBoot, BootKeepsStubs DEF IInv
<1>2. ASSUME NEW l \in Lines, Raise(l) PROVE IInv'
  <2>1. BootInv'
    BY <1>2, RunningKeepsBoot DEF Raise, tableVars
  <2>2. StubInv'
    BY <1>2, InputsAssumption DEF Raise, IInv, StubInv, cpuVars
  <2> QED BY <2>1, <2>2 DEF IInv
<1>3. CASE Withdraw
  <2>1. BootInv'
    BY <1>3, RunningKeepsBoot DEF Withdraw, tableVars
  <2>2. StubInv'
    BY <1>3 DEF Withdraw, IInv, StubInv, cpuVars
  <2> QED BY <2>1, <2>2 DEF IInv
<1>4. CASE Accept
  BY <1>4, AcceptInv
<1>5. CASE StubStep
  BY <1>5, StubStepInv
<1>6. CASE ThreadStep
  BY <1>6, ThreadStepInv
<1>7. CASE UNCHANGED vars
  <2>1. BootInv'
    BY <1>7, RunningKeepsBoot DEF vars, tableVars, picVars
  <2>2. StubInv'
    BY <1>7 DEF IInv, StubInv, vars, cpuVars, picVars
  <2> QED BY <2>1, <2>2 DEF IInv
<1> QED BY <1>1, <1>2, <1>3, <1>4, <1>5, <1>6, <1>7 DEF Next

LEMMA Inductive == Spec => []IInv
  BY InitInv, StepInv, PTL DEF Spec

-----------------------------------------------------------------------------
(* The boot with its messages and mode changes is one of Interrupts: what  *)
(* the VGA needs leaves the interrupts alone.                              *)
THEOREM BootImplementsInterrupts == KernelSpec => Spec
<1>1. KernelInit => Init
  BY DEF KernelInit
<1>2. [KernelNext]_bootVars => [Next]_vars
  <2>1. CASE VgaStep
    BY <2>1 DEF VgaStep
  <2>2. CASE Goes(Next)
    BY <2>2 DEF Goes
  <2>3. CASE Waits
    BY <2>3 DEF Waits, Next
  <2>4. CASE UNCHANGED bootVars
    BY <2>4 DEF bootVars
  <2> QED BY <2>1, <2>2, <2>3, <2>4 DEF KernelNext
<1> QED BY <1>1, <1>2, PTL DEF KernelSpec, Spec

(* idt.c:12: every interrupt runs the stub of its line, whatever is raised *)
(* or withdrawn when, none resets the machine, and the running kernel is   *)
(* interrupted by the timer and the keyboard only.                         *)
THEOREM Routed == KernelSpec => []InterruptsRouted
<1>1. IInv => InterruptsRouted
  BY DEF IInv, BootInv, AfterMouse, StubInv, InterruptsRouted, RoutineOf, TIMER, KEYBOARD, SPURIOUS, NoLine, Exceptions,
         Letters
<1> QED BY <1>1, Inductive, BootImplementsInterrupts, PTL

(* The EOIs of idt.c: a stub that is entered is the only one in service,   *)
(* and none is when it has returned.                                       *)
THEOREM ServiceEnds == KernelSpec => []NothingLeftInService
<1>1. IInv => NothingLeftInService
  BY DEF IInv, StubInv, NothingLeftInService, Served, TIMER, KEYBOARD, SPURIOUS, NoLine, Exceptions,
         Letters
<1> QED BY <1>1, Inductive, BootImplementsInterrupts, PTL

(* main.c:182-195: paging, the TSS with its stack, the segments of ring 3  *)
(* and the gate of system calls are in place before ring 3 is entered.     *)
THEOREM UserReady == KernelSpec => []RingThreeReady
<1>1. ASSUME IInv PROVE RingThreeReady
  <2>1. mode = "user" => stage = "running"
    BY <1>1 DEF IInv, StubInv
  <2>2. stage = "running" => paging /\ StackFound /\ gdt[3] = "code3" /\ gdt[4] = "data3" /\ idt = Table
    BY <1>1, GatesReady DEF IInv, BootInv, AfterIdt, AfterUnmask, AfterVmm, AfterTss, AfterProc,
       AfterMouse
  <2>3. Table[48] = [handler |-> "syscall_entry", dpl |-> 3]
    BY Handlers DEF Table, Vectors, Dpl
  <2> QED BY <2>1, <2>2, <2>3 DEF RingThreeReady
<1> QED BY <1>1, Inductive, BootImplementsInterrupts, PTL

-----------------------------------------------------------------------------
(* The programs of VgaModes, access by access.                             *)
Names ==
  {Colours[i] : i \in 1 .. 16}
  \cup {"UG_blue", "UG_mid_blue", "UG_yellow", "pale_yellow", "gray", "darker_gray", "bar_green",
        "pale_green", "high_blue", "low_blue", "brown", "other", "pixels", "font"}

IsAccesses(S) ==
  /\ \A v \in Int : Out("misc", 0, v) \in S /\ Out("ac", 0, v) \in S
  /\ \A r \in 0 .. 4, v \in Int : Out("seq", r, v) \in S
  /\ \A r \in 0 .. 24, v \in Int : Out("crtc", r, v) \in S
  /\ \A r \in 0 .. 8, v \in Int : Out("gc", r, v) \in S
  /\ Out("crtc_and", 17, 128) \in S /\ Out("status_in", 0, 0) \in S
  /\ \A r \in DacUsed, v \in Names : Out("dac", r, v) \in S
  /\ \A v \in Names : Out("memory", 0, v) \in S

Joined(S, q, p, n, t, m) ==
  p \in Seq(S) /\ t \in Seq(S) /\ Len(p) = n /\ Len(t) = m /\ q = p \o t

Parts(S, q, p, n, t, m) ==
  /\ q \in Seq(S) /\ Len(q) = n + m
  /\ \A k \in 1 .. n : q[k] = p[k]
  /\ \A k \in 1 .. m : q[n + k] = t[k]

(* What is known of the parts of a concatenation.                          *)
LEMMA Join ==
  ASSUME NEW S, NEW q, NEW p, NEW n, NEW t, NEW m, Joined(S, q, p, n, t, m)
  PROVE  Parts(S, q, p, n, t, m)
<1>1. p \in Seq(S) /\ t \in Seq(S) /\ q = p \o t
  BY DEF Joined
<1>2. /\ q \in Seq(S) /\ Len(q) = Len(p) + Len(t)
      /\ \A k \in 1 .. Len(p) : q[k] = p[k]
      /\ \A k \in 1 .. Len(t) : q[Len(p) + k] = t[k]
  BY <1>1, ConcatParts
<1>3. Len(p) = n /\ Len(t) = m
  BY DEF Joined
<1> QED
  BY <1>2, <1>3 DEF Parts

(* What is sent between the two accesses that reset the sequencer.         *)
ResetAround(S, w, outs, m) ==
  /\ w \in Seq(S) /\ Len(w) = m + 2
  /\ w[1] = Out("seq", 0, 1)
  /\ \A k \in 1 .. m : w[1 + k] = outs[k]
  /\ w[m + 2] = Out("seq", 0, 3)

(* The two accesses go before and after.                                   *)
LEMMA ResetParts ==
  ASSUME NEW S, IsAccesses(S), NEW outs \in Seq(S), NEW m \in Nat, Len(outs) = m,
         NEW w, w = UnderReset(outs)
  PROVE  ResetAround(S, w, outs, m)
<1>1. PICK first : first = <<Out("seq", 0, 1)>>
  OBVIOUS
<1>2. PICK last : last = <<Out("seq", 0, 3)>>
  OBVIOUS
<1>3. /\ first \in Seq(S) /\ Len(first) = 1 /\ first[1] = Out("seq", 0, 1)
      /\ last \in Seq(S) /\ Len(last) = 1 /\ last[1] = Out("seq", 0, 3)
  BY <1>1, <1>2 DEF IsAccesses
<1>4. PICK u : u = first \o outs
  OBVIOUS
<1>5. Joined(S, u, first, 1, outs, m)
  BY <1>3, <1>4 DEF Joined
<1>6. Parts(S, u, first, 1, outs, m)
  BY <1>5, Join
<1>7. u \in Seq(S) /\ Len(u) = 1 + m
  BY <1>6 DEF Parts
<1>8. w = u \o last
  BY <1>1, <1>2, <1>4 DEF UnderReset
<1>9. Joined(S, w, u, 1 + m, last, 1)
  BY <1>3, <1>7, <1>8 DEF Joined
<1>10. Parts(S, w, u, 1 + m, last, 1)
  BY <1>9, Join
<1>11. w \in Seq(S) /\ Len(w) = m + 2 /\ w[1] = first[1] /\ w[m + 2] = last[1]
  BY <1>6, <1>10 DEF Parts
<1>12. \A k \in 1 .. m : w[1 + k] = outs[k]
  BY <1>6, <1>10 DEF Parts
<1> QED
  BY <1>3, <1>11, <1>12 DEF ResetAround

(* The access for one value of a table, and for one step of the port that  *)
(* takes index and value in turn.                                          *)
OutAt(port, table, k) == Out(port, k - 1, table[k])
InTurn(A, k) == Out("ac", 0, IF k % 2 = 1 THEN k \div 2 ELSE A[k \div 2])

(* A table of n registers is sent by n accesses.                           *)
Carries(S, port, table, n) == \A k \in 1 .. n : OutAt(port, table, k) \in S

Lists(S, c, port, table, n) ==
  /\ c \in Seq(S) /\ Len(c) = n
  /\ \A k \in 1 .. n : c[k] = OutAt(port, table, k)

(* OutTable makes them.                                                    *)
LEMMA TableParts ==
  ASSUME NEW n \in Nat, NEW table, Len(table) = n, NEW port,
         NEW S, Carries(S, port, table, n), NEW c, c = OutTable(port, table)
  PROVE  Lists(S, c, port, table, n)
<1>1. c = [k \in 1 .. n |-> OutAt(port, table, k)]
  BY DEF OutTable, OutAt
<1> QED
  BY <1>1 DEF Carries, Lists

(* The accesses that fill the last three parts of the VGA and turn the     *)
(* picture on, which all three mode changes make.                          *)
FillAt(C, G, A, i) ==
  IF i <= 25 THEN OutAt("crtc", C, i)
  ELSE IF i <= 34 THEN OutAt("gc", G, i - 25)
  ELSE IF i \in {35, 78} THEN Out("status_in", 0, 0)
  ELSE IF i = 79 THEN Out("ac", 0, 32)
  ELSE InTurn(A, i - 35)

IsTable(t, n) == Len(t) = n /\ \A k \in 1 .. n : t[k] \in Int

IsTables(C, G, A) ==
  IsTable(C, 25) /\ IsTable(G, 9) /\ IsTable(A, 21)

(* The tables are used through these two facts.                            *)
LEMMA TableEntries ==
  ASSUME NEW t, NEW n, IsTable(t, n), NEW k \in 1 .. n
  PROVE  t[k] \in Int
  BY DEF IsTable

LEMMA TableLength ==
  ASSUME NEW t, NEW n, IsTable(t, n)
  PROVE  Len(t) = n
  BY DEF IsTable

(* The three modes have tables of these lengths.                           *)
LEMMA TablesOfModes ==
  /\ IsTables(Crtc13h, Gc13h, Ac13h)
  /\ IsTables(CrtcText, GcText, AcText)
  /\ IsTables(crtc_regs, gc_regs, ac_regs)
BY DEF IsTables, IsTable, Crtc13h, Gc13h, Ac13h, CrtcText, GcText, AcText, crtc_regs, gc_regs, ac_regs

(* FillAt part by part.                                                    *)
LEMMA FillCases ==
  ASSUME NEW C, NEW G, NEW A
  PROVE  /\ \A k \in 1 .. 25 : FillAt(C, G, A, k) = OutAt("crtc", C, k)
         /\ \A k \in 1 .. 9 : FillAt(C, G, A, k + 25) = OutAt("gc", G, k)
         /\ FillAt(C, G, A, 35) = Out("status_in", 0, 0)
         /\ \A k \in 1 .. 42 : FillAt(C, G, A, k + 35) = InTurn(A, k)
         /\ FillAt(C, G, A, 78) = Out("status_in", 0, 0)
         /\ FillAt(C, G, A, 79) = Out("ac", 0, 32)
<1>1. ASSUME NEW k \in 1 .. 25 PROVE FillAt(C, G, A, k) = OutAt("crtc", C, k)
  BY DEF FillAt
<1>2. ASSUME NEW k \in 1 .. 9 PROVE FillAt(C, G, A, k + 25) = OutAt("gc", G, k)
  BY DEF FillAt
<1>3. ASSUME NEW k \in 1 .. 42 PROVE FillAt(C, G, A, k + 35) = InTurn(A, k)
  BY DEF FillAt
<1>4. /\ FillAt(C, G, A, 35) = Out("status_in", 0, 0)
      /\ FillAt(C, G, A, 78) = Out("status_in", 0, 0)
      /\ FillAt(C, G, A, 79) = Out("ac", 0, 32)
  BY DEF FillAt
<1> QED
  BY <1>1, <1>2, <1>3, <1>4

(* Index and value take turns at the port of the attribute controller.     *)
AttributesSent(S, w, A) ==
  /\ w \in Seq(S) /\ Len(w) = 45
  /\ w[1] = Out("status_in", 0, 0)
  /\ \A k \in 1 .. 42 : w[1 + k] = InTurn(A, k)
  /\ w[44] = Out("status_in", 0, 0)
  /\ w[45] = Out("ac", 0, 32)

LEMMA AttributesParts ==
  ASSUME NEW S, IsAccesses(S), NEW A, IsTable(A, 21), NEW w, w = Attributes(A)
  PROVE  AttributesSent(S, w, A)
<1>1. PICK first : first = <<Out("status_in", 0, 0)>>
  OBVIOUS
<1>2. first \in Seq(S) /\ Len(first) = 1 /\ first[1] = Out("status_in", 0, 0)
  BY <1>1 DEF IsAccesses
<1>3. PICK last : last = PictureOn
  OBVIOUS
<1>4. /\ last \in Seq(S) /\ Len(last) = 2
      /\ last[1] = Out("status_in", 0, 0) /\ last[2] = Out("ac", 0, 32)
  BY <1>3 DEF PictureOn, IsAccesses
<1>5. PICK pairs : pairs = AttributesUnset(A)
  OBVIOUS
<1>6. pairs = [k \in 1 .. 42 |-> InTurn(A, k)]
  BY <1>5 DEF AttributesUnset, IsTable, InTurn
<1>7. ASSUME NEW k \in 1 .. 42 PROVE InTurn(A, k) \in S
  <2>1. (IF k % 2 = 1 THEN k \div 2 ELSE A[k \div 2]) \in Int
    <3>1. CASE k % 2 = 1
      BY <3>1
    <3>2. CASE k % 2 # 1
      <4>1. k \div 2 \in 1 .. 21
        BY <3>2
      <4> QED
        BY <3>2, <4>1 DEF IsTable
    <3> QED
      BY <3>1, <3>2
  <2>2. PICK v \in Int : v = IF k % 2 = 1 THEN k \div 2 ELSE A[k \div 2]
    BY <2>1
  <2>3. Out("ac", 0, v) \in S
    BY DEF IsAccesses
  <2> QED
    BY <2>2, <2>3 DEF InTurn
<1>8. /\ pairs \in Seq(S) /\ Len(pairs) = 42
      /\ \A k \in 1 .. 42 : pairs[k] = InTurn(A, k)
  BY <1>6, <1>7
<1>9. PICK u : u = first \o pairs
  OBVIOUS
<1>10. Joined(S, u, first, 1, pairs, 42)
  BY <1>2, <1>8, <1>9 DEF Joined
<1>11. Parts(S, u, first, 1, pairs, 42)
  BY <1>10, Join
<1>12. u \in Seq(S) /\ Len(u) = 43
  BY <1>11 DEF Parts
<1>13. w = u \o last
  BY <1>1, <1>3, <1>5, <1>9 DEF Attributes
<1>14. Joined(S, w, u, 43, last, 2)
  BY <1>4, <1>12, <1>13 DEF Joined
<1>15. Parts(S, w, u, 43, last, 2)
  BY <1>14, Join
<1>16. /\ w \in Seq(S) /\ Len(w) = 45
       /\ \A k \in 1 .. 43 : w[k] = u[k]
       /\ \A k \in 1 .. 2 : w[43 + k] = last[k]
  BY <1>15 DEF Parts
<1>17. w[44] = last[1] /\ w[45] = last[2]
  BY <1>16
<1>18. u[1] = first[1] /\ \A k \in 1 .. 42 : u[1 + k] = pairs[k]
  BY <1>11 DEF Parts
<1>19. w[1] = first[1]
  <2>1. w[1] = u[1]
    BY <1>16
  <2> QED
    BY <1>18, <2>1
<1>20. ASSUME NEW k \in 1 .. 42 PROVE w[1 + k] = pairs[k]
  <2>1. PICK j \in 1 .. 43 : j = 1 + k
    OBVIOUS
  <2> QED
    BY <1>16, <1>18, <2>1
<1> QED
  BY <1>2, <1>4, <1>8, <1>16, <1>17, <1>19, <1>20 DEF AttributesSent

FilledBy(q, p, C, G, A) ==
  q = p \o OutTable("crtc", C) \o OutTable("gc", G) \o Attributes(A)

FilledUp(S, q, p, n, C, G, A) ==
  /\ q \in Seq(S) /\ Len(q) = n + 79
  /\ \A k \in 1 .. n : q[k] = p[k]
  /\ \A k \in 1 .. 79 : q[n + k] = FillAt(C, G, A, k)

(* They follow what a mode change begins with.                             *)
LEMMA FillParts ==
  ASSUME NEW S, IsAccesses(S), NEW p \in Seq(S), NEW n \in Nat, Len(p) = n,
         NEW C, NEW G, NEW A, IsTables(C, G, A),
         NEW q, FilledBy(q, p, C, G, A)
  PROVE  FilledUp(S, q, p, n, C, G, A)
<1>1. PICK c : c = OutTable("crtc", C)
  OBVIOUS
<1>2. PICK g : g = OutTable("gc", G)
  OBVIOUS
<1>3. PICK a : a = Attributes(A)
  OBVIOUS
<1>4. IsTable(C, 25) /\ IsTable(G, 9) /\ IsTable(A, 21)
  BY DEF IsTables
<1>5. Lists(S, c, "crtc", C, 25)
  <2>1. ASSUME NEW k \in 1 .. 25 PROVE OutAt("crtc", C, k) \in S
    <3>1. C[k] \in Int /\ k - 1 \in 0 .. 24
      BY <1>4, TableEntries
    <3> QED
      BY <3>1 DEF OutAt, IsAccesses
  <2>3. Carries(S, "crtc", C, 25)
    BY <2>1 DEF Carries
  <2>2. Len(C) = 25 /\ 25 \in Nat
    BY <1>4, TableLength
  <2> QED
    BY <1>1, <2>3, <2>2, TableParts
<1>6. Lists(S, g, "gc", G, 9)
  <2>1. ASSUME NEW k \in 1 .. 9 PROVE OutAt("gc", G, k) \in S
    <3>1. G[k] \in Int /\ k - 1 \in 0 .. 8
      BY <1>4, TableEntries
    <3> QED
      BY <3>1 DEF OutAt, IsAccesses
  <2>3. Carries(S, "gc", G, 9)
    BY <2>1 DEF Carries
  <2>2. Len(G) = 9 /\ 9 \in Nat
    BY <1>4, TableLength
  <2> QED
    BY <1>2, <2>3, <2>2, TableParts
<1>7. /\ a \in Seq(S) /\ Len(a) = 45
      /\ a[1] = Out("status_in", 0, 0)
      /\ \A k \in 1 .. 42 : a[1 + k] = InTurn(A, k)
      /\ a[44] = Out("status_in", 0, 0)
      /\ a[45] = Out("ac", 0, 32)
  <2>1. AttributesSent(S, a, A)
    BY <1>3, <1>4, AttributesParts
  <2> QED
    BY <2>1 DEF AttributesSent
<1>8. PICK u : u = p \o c
  OBVIOUS
<1>9. PICK v : v = u \o g
  OBVIOUS
<1>10. Parts(S, u, p, n, c, 25)
  <2>1. Joined(S, u, p, n, c, 25)
    BY <1>5, <1>8 DEF Joined, Lists
  <2> QED
    BY <2>1, Join
<1>11. Parts(S, v, u, n + 25, g, 9)
  <2>1. Joined(S, v, u, n + 25, g, 9)
    BY <1>6, <1>9, <1>10 DEF Joined, Parts, Lists
  <2> QED
    BY <2>1, Join
<1>12. Parts(S, q, v, n + 34, a, 45)
  <2>1. q = v \o a
    BY <1>1, <1>2, <1>3, <1>8, <1>9 DEF FilledBy
  <2>2. v \in Seq(S) /\ Len(v) = n + 34
    BY <1>11 DEF Parts
  <2>3. Joined(S, q, v, n + 34, a, 45)
    BY <1>7, <2>1, <2>2 DEF Joined
  <2> QED
    BY <2>3, Join
<1>13. q \in Seq(S) /\ Len(q) = n + 79
  BY <1>12 DEF Parts
<1>14. ASSUME NEW k \in 1 .. n PROVE q[k] = p[k]
  <2>1. k \in 1 .. n + 25 /\ k \in 1 .. n + 34
    OBVIOUS
  <2>2. q[k] = v[k]
    BY <1>12, <2>1 DEF Parts
  <2>3. v[k] = u[k]
    BY <1>11, <2>1 DEF Parts
  <2>4. u[k] = p[k]
    BY <1>10 DEF Parts
  <2> QED
    BY <2>2, <2>3, <2>4
<1>15. ASSUME NEW k \in 1 .. 79 PROVE q[n + k] = FillAt(C, G, A, k)
  <2>1. CASE k <= 25
    <3>0. k \in 1 .. 25
      BY <2>1
    <3>1. PICK i \in 1 .. n + 25 : i = n + k
      BY <3>0
    <3>2. u[n + k] = c[k]
      BY <1>10, <3>0 DEF Parts
    <3>3. v[i] = u[i]
      BY <1>11, <3>1 DEF Parts
    <3>4. i \in 1 .. n + 34
      BY <3>1
    <3>5. q[i] = v[i]
      BY <1>12, <3>4 DEF Parts
    <3>6. c[k] = FillAt(C, G, A, k)
      <4>1. FillAt(C, G, A, k) = OutAt("crtc", C, k)
        BY <3>0, FillCases
      <4> QED
        BY <1>5, <3>0, <4>1 DEF Lists
    <3> QED
      BY <3>1, <3>2, <3>3, <3>5, <3>6
  <2>2. CASE k \in 26 .. 34
    <3>1. PICK j \in 1 .. 9 : j = k - 25
      BY <2>2
    <3>2. v[n + 25 + j] = g[j]
      BY <1>11 DEF Parts
    <3>3. n + k \in 1 .. n + 34 /\ n + k = n + 25 + j
      BY <2>2, <3>1
    <3>4. q[n + k] = g[j]
      BY <1>12, <3>2, <3>3 DEF Parts
    <3>5. k = j + 25
      BY <2>2, <3>1
    <3>6. g[j] = FillAt(C, G, A, k)
      BY <1>6, <3>5, FillCases DEF Lists
    <3> QED
      BY <3>4, <3>6
  <2>3. CASE k \in 35 .. 79
    <3>1. PICK j \in 1 .. 45 : j = k - 34
      BY <2>3
    <3>2. n + k = n + 34 + j
      BY <2>3, <3>1
    <3>3. q[n + k] = a[j]
      BY <1>12, <3>2 DEF Parts
    <3>4. CASE k \in {35, 78, 79}
      <4>1. (k = 35 /\ j = 1) \/ (k = 78 /\ j = 44) \/ (k = 79 /\ j = 45)
        BY <3>1, <3>4
      <4>2. a[j] = FillAt(C, G, A, k)
        <5>1. CASE k = 35 /\ j = 1
          BY <1>7, <5>1, FillCases
        <5>2. CASE k = 78 /\ j = 44
          BY <1>7, <5>2, FillCases
        <5>3. CASE k = 79 /\ j = 45
          BY <1>7, <5>3, FillCases
        <5> QED
          BY <4>1, <5>1, <5>2, <5>3
      <4> QED
        BY <3>3, <4>2
    <3>5. CASE k \in 36 .. 77
      <4>1. PICK i \in 1 .. 42 : i = k - 35 /\ j = 1 + i
        BY <3>1, <3>5
      <4>2. k = i + 35
        BY <3>5, <4>1
      <4>3. a[j] = InTurn(A, i)
        BY <1>7, <4>1
      <4>4. FillAt(C, G, A, k) = InTurn(A, i)
        BY <4>2, FillCases
      <4> QED
        BY <3>3, <4>3, <4>4
    <3> QED
      BY <2>3, <3>4, <3>5
  <2> QED
    BY <2>1, <2>2, <2>3
<1> QED
  BY <1>13, <1>14, <1>15 DEF FilledUp

(* What the changes to text and to the desktop begin with.                 *)
BeginText ==
  <<Out("misc", 0, \h67)>>
  \o UnderReset(<<Out("seq", 1, 0), Out("seq", 2, 3), Out("seq", 3, 0), Out("seq", 4, 2)>>)
  \o load_font
  \o UnderReset(<<Out("seq", 2, 3), Out("seq", 4, 2)>>)
  \o Unlock

BeginDesktop ==
  UnderReset(<<>>) \o Unlock \o <<Out("misc", 0, \hE3)>> \o OutTable("seq", seq_regs)

IsProgram(S, q, n) == q \in Seq(S) /\ Len(q) = n

(* load_font.                                                              *)
LEMMA FontProgram ==
  ASSUME NEW S, IsAccesses(S), NEW q, q = load_font
  PROVE  /\ IsProgram(S, q, 10)
         /\ q[1] = Out("gc", 4, 2) /\ q[2] = Out("gc", 5, 0) /\ q[3] = Out("gc", 6, 4)
         /\ q[4] = Out("gc", 7, 0) /\ q[5] = Out("gc", 8, 255)
         /\ q[6] = Out("seq", 0, 1) /\ q[7] = Out("seq", 2, 4) /\ q[8] = Out("seq", 4, 6)
         /\ q[9] = Out("seq", 0, 3) /\ q[10] = Out("memory", 0, "font")
<1>1. PICK g : g = <<Out("gc", 4, 2), Out("gc", 5, 0), Out("gc", 6, 4), Out("gc", 7, 0),
                     Out("gc", 8, 255)>>
  OBVIOUS
<1>2. PICK m : m = <<Out("memory", 0, "font")>>
  OBVIOUS
<1>3. PICK r : r = <<Out("seq", 2, 4), Out("seq", 4, 6)>>
  OBVIOUS
<1>4. /\ g \in Seq(S) /\ Len(g) = 5
      /\ g[1] = Out("gc", 4, 2) /\ g[2] = Out("gc", 5, 0) /\ g[3] = Out("gc", 6, 4)
      /\ g[4] = Out("gc", 7, 0) /\ g[5] = Out("gc", 8, 255)
  BY <1>1 DEF IsAccesses
<1>5. /\ m \in Seq(S) /\ Len(m) = 1 /\ m[1] = Out("memory", 0, "font")
  BY <1>2 DEF IsAccesses, Names
<1>6. /\ r \in Seq(S) /\ Len(r) = 2 /\ r[1] = Out("seq", 2, 4) /\ r[2] = Out("seq", 4, 6)
  BY <1>3 DEF IsAccesses
<1>7. PICK w : w = UnderReset(r)
  OBVIOUS
<1>8. 2 \in Nat
  OBVIOUS
<1>9. ResetAround(S, w, r, 2)
  BY <1>6, <1>7, <1>8, ResetParts
<1>10. w[2] = r[1] /\ w[3] = r[2] /\ w[4] = Out("seq", 0, 3) /\ Len(w) = 4
      /\ w[1] = Out("seq", 0, 1) /\ w \in Seq(S)
  BY <1>9 DEF ResetAround
<1>11. PICK u : u = g \o w
  OBVIOUS
<1>12. Parts(S, u, g, 5, w, 4)
  <2>1. Joined(S, u, g, 5, w, 4)
    BY <1>4, <1>9, <1>10, <1>11 DEF Joined
  <2> QED
    BY <2>1, Join
<1>13. Parts(S, q, u, 9, m, 1)
  <2>1. q = u \o m
    BY <1>1, <1>2, <1>3, <1>7, <1>11 DEF load_font
  <2>2. Joined(S, q, u, 9, m, 1)
    BY <1>5, <1>12, <2>1 DEF Joined, Parts
  <2> QED
    BY <2>2, Join
<1>14. u[1] = g[1] /\ u[2] = g[2] /\ u[3] = g[3] /\ u[4] = g[4] /\ u[5] = g[5]
  BY <1>12 DEF Parts
<1>15. u[6] = w[1] /\ u[7] = w[2] /\ u[8] = w[3] /\ u[9] = w[4]
  BY <1>12 DEF Parts
<1>16. /\ q[1] = u[1] /\ q[2] = u[2] /\ q[3] = u[3] /\ q[4] = u[4] /\ q[5] = u[5]
       /\ q[6] = u[6] /\ q[7] = u[7] /\ q[8] = u[8] /\ q[9] = u[9] /\ q[10] = m[1]
  BY <1>13 DEF Parts
<1>17. IsProgram(S, q, 10)
  BY <1>13 DEF Parts, IsProgram
<1> QED
  BY <1>4, <1>5, <1>6, <1>9, <1>10, <1>14, <1>15, <1>16, <1>17

(* set_mode3 before it fills the tables.                                   *)
LEMMA TextBegins ==
  ASSUME NEW S, IsAccesses(S), NEW q, q = BeginText
  PROVE  /\ IsProgram(S, q, 22)
         /\ q[1] = Out("misc", 0, \h67) /\ q[2] = Out("seq", 0, 1) /\ q[3] = Out("seq", 1, 0)
         /\ q[4] = Out("seq", 2, 3) /\ q[5] = Out("seq", 3, 0) /\ q[6] = Out("seq", 4, 2)
         /\ q[7] = Out("seq", 0, 3)
         /\ q[8] = Out("gc", 4, 2) /\ q[9] = Out("gc", 5, 0) /\ q[10] = Out("gc", 6, 4)
         /\ q[11] = Out("gc", 7, 0) /\ q[12] = Out("gc", 8, 255)
         /\ q[13] = Out("seq", 0, 1) /\ q[14] = Out("seq", 2, 4) /\ q[15] = Out("seq", 4, 6)
         /\ q[16] = Out("seq", 0, 3) /\ q[17] = Out("memory", 0, "font")
         /\ q[18] = Out("seq", 0, 1) /\ q[19] = Out("seq", 2, 3) /\ q[20] = Out("seq", 4, 2)
         /\ q[21] = Out("seq", 0, 3) /\ q[22] = Out("crtc_and", 17, 128)
<1>1. PICK a : a = <<Out("misc", 0, \h67)>>
  OBVIOUS
<1>2. PICK b : b = <<Out("seq", 1, 0), Out("seq", 2, 3), Out("seq", 3, 0), Out("seq", 4, 2)>>
  OBVIOUS
<1>3. PICK c : c = <<Out("seq", 2, 3), Out("seq", 4, 2)>>
  OBVIOUS
<1>4. PICK d : d = Unlock
  OBVIOUS
<1>5. PICK f : f = load_font
  OBVIOUS
<1>6. PICK v : v = UnderReset(b)
  OBVIOUS
<1>7. PICK w : w = UnderReset(c)
  OBVIOUS
<1>8. a \in Seq(S) /\ Len(a) = 1 /\ a[1] = Out("misc", 0, \h67)
  BY <1>1 DEF IsAccesses
<1>9. /\ b \in Seq(S) /\ Len(b) = 4 /\ b[1] = Out("seq", 1, 0) /\ b[2] = Out("seq", 2, 3)
      /\ b[3] = Out("seq", 3, 0) /\ b[4] = Out("seq", 4, 2)
  BY <1>2 DEF IsAccesses
<1>10. c \in Seq(S) /\ Len(c) = 2 /\ c[1] = Out("seq", 2, 3) /\ c[2] = Out("seq", 4, 2)
  BY <1>3 DEF IsAccesses
<1>11. d \in Seq(S) /\ Len(d) = 1 /\ d[1] = Out("crtc_and", 17, 128)
  BY <1>4 DEF IsAccesses, Unlock
<1>12. 2 \in Nat /\ 4 \in Nat
  OBVIOUS
<1>13. ResetAround(S, v, b, 4)
  BY <1>6, <1>9, <1>12, ResetParts
<1>14. ResetAround(S, w, c, 2)
  BY <1>7, <1>10, <1>12, ResetParts
<1>15. /\ v \in Seq(S) /\ Len(v) = 6
       /\ v[1] = Out("seq", 0, 1) /\ v[2] = b[1] /\ v[3] = b[2] /\ v[4] = b[3] /\ v[5] = b[4]
       /\ v[6] = Out("seq", 0, 3)
  BY <1>13 DEF ResetAround
<1>16. /\ w \in Seq(S) /\ Len(w) = 4
       /\ w[1] = Out("seq", 0, 1) /\ w[2] = c[1] /\ w[3] = c[2] /\ w[4] = Out("seq", 0, 3)
  BY <1>14 DEF ResetAround
<1>17. /\ IsProgram(S, f, 10)
       /\ f[1] = Out("gc", 4, 2) /\ f[2] = Out("gc", 5, 0) /\ f[3] = Out("gc", 6, 4)
       /\ f[4] = Out("gc", 7, 0) /\ f[5] = Out("gc", 8, 255)
       /\ f[6] = Out("seq", 0, 1) /\ f[7] = Out("seq", 2, 4) /\ f[8] = Out("seq", 4, 6)
       /\ f[9] = Out("seq", 0, 3) /\ f[10] = Out("memory", 0, "font")
  BY <1>5, FontProgram
<1>18. PICK x : x = a \o v
  OBVIOUS
<1>19. PICK y : y = x \o f
  OBVIOUS
<1>20. PICK z : z = y \o w
  OBVIOUS
<1>21. Parts(S, x, a, 1, v, 6)
  <2>1. Joined(S, x, a, 1, v, 6)
    BY <1>8, <1>15, <1>18 DEF Joined
  <2> QED
    BY <2>1, Join
<1>22. Parts(S, y, x, 7, f, 10)
  <2>1. Joined(S, y, x, 7, f, 10)
    BY <1>17, <1>19, <1>21 DEF Joined, Parts, IsProgram
  <2> QED
    BY <2>1, Join
<1>23. Parts(S, z, y, 17, w, 4)
  <2>1. Joined(S, z, y, 17, w, 4)
    BY <1>16, <1>20, <1>22 DEF Joined, Parts
  <2> QED
    BY <2>1, Join
<1>24. Parts(S, q, z, 21, d, 1)
  <2>1. q = z \o d
    BY <1>1, <1>2, <1>3, <1>4, <1>5, <1>6, <1>7, <1>18, <1>19, <1>20 DEF BeginText
  <2>2. Joined(S, q, z, 21, d, 1)
    BY <1>11, <1>23, <2>1 DEF Joined, Parts
  <2> QED
    BY <2>2, Join
<1>25. IsProgram(S, q, 22) /\ q[22] = d[1] /\ \A k \in 1 .. 21 : q[k] = z[k]
  BY <1>24 DEF Parts, IsProgram
<1>26. /\ z[18] = w[1] /\ z[19] = w[2] /\ z[20] = w[3] /\ z[21] = w[4]
       /\ \A k \in 1 .. 17 : z[k] = y[k]
  BY <1>23 DEF Parts
<1>27. /\ y[8] = f[1] /\ y[9] = f[2] /\ y[10] = f[3] /\ y[11] = f[4] /\ y[12] = f[5]
       /\ y[13] = f[6] /\ y[14] = f[7] /\ y[15] = f[8] /\ y[16] = f[9] /\ y[17] = f[10]
       /\ \A k \in 1 .. 7 : y[k] = x[k]
  BY <1>22 DEF Parts
<1>28. /\ x[1] = a[1] /\ x[2] = v[1] /\ x[3] = v[2] /\ x[4] = v[3] /\ x[5] = v[4]
       /\ x[6] = v[5] /\ x[7] = v[6]
  BY <1>21 DEF Parts
<1>29. /\ q[1] = a[1] /\ q[2] = v[1] /\ q[3] = v[2] /\ q[4] = v[3] /\ q[5] = v[4]
       /\ q[6] = v[5] /\ q[7] = v[6]
  <2>1. ASSUME NEW k \in 1 .. 7 PROVE q[k] = x[k]
    BY <1>25, <1>26, <1>27
  <2> QED
    BY <1>28, <2>1
<1>30. /\ q[8] = f[1] /\ q[9] = f[2] /\ q[10] = f[3] /\ q[11] = f[4] /\ q[12] = f[5]
       /\ q[13] = f[6] /\ q[14] = f[7] /\ q[15] = f[8] /\ q[16] = f[9] /\ q[17] = f[10]
  <2>1. ASSUME NEW k \in 1 .. 17 PROVE q[k] = y[k]
    BY <1>25, <1>26
  <2> QED
    BY <1>27, <2>1
<1>31. q[18] = w[1] /\ q[19] = w[2] /\ q[20] = w[3] /\ q[21] = w[4]
  BY <1>25, <1>26
<1>32. /\ q[1] = Out("misc", 0, \h67) /\ q[2] = Out("seq", 0, 1) /\ q[3] = Out("seq", 1, 0)
       /\ q[4] = Out("seq", 2, 3) /\ q[5] = Out("seq", 3, 0) /\ q[6] = Out("seq", 4, 2)
       /\ q[7] = Out("seq", 0, 3)
  BY <1>8, <1>9, <1>15, <1>29
<1>33. /\ q[8] = Out("gc", 4, 2) /\ q[9] = Out("gc", 5, 0) /\ q[10] = Out("gc", 6, 4)
       /\ q[11] = Out("gc", 7, 0) /\ q[12] = Out("gc", 8, 255)
       /\ q[13] = Out("seq", 0, 1) /\ q[14] = Out("seq", 2, 4) /\ q[15] = Out("seq", 4, 6)
       /\ q[16] = Out("seq", 0, 3) /\ q[17] = Out("memory", 0, "font")
  BY <1>17, <1>30
<1>34. /\ q[18] = Out("seq", 0, 1) /\ q[19] = Out("seq", 2, 3) /\ q[20] = Out("seq", 4, 2)
       /\ q[21] = Out("seq", 0, 3) /\ q[22] = Out("crtc_and", 17, 128)
  BY <1>10, <1>11, <1>16, <1>25, <1>31
<1> QED
  BY <1>25, <1>32, <1>33, <1>34

(* set_mode3.                                                              *)
LEMMA TextProgram ==
  ASSUME NEW S, IsAccesses(S), NEW q, q = set_mode3
  PROVE  /\ IsProgram(S, q, 103)
         /\ \A k \in 1 .. 22 : q[k] = BeginText[k]
         /\ \A k \in 1 .. 79 : q[22 + k] = FillAt(CrtcText, GcText, AcText, k)
         /\ q[102] = Out("crtc", 15, 0) /\ q[103] = Out("crtc", 14, 0)
<1>1. PICK b : b = BeginText
  OBVIOUS
<1>2. b \in Seq(S) /\ Len(b) = 22
  BY <1>1, TextBegins DEF IsProgram
<1>3. PICK C : C = CrtcText
  OBVIOUS
<1>4. PICK G : G = GcText
  OBVIOUS
<1>5. PICK A : A = AcText
  OBVIOUS
<1>6. IsTables(C, G, A)
  BY <1>3, <1>4, <1>5, TablesOfModes
<1>7. PICK u : FilledBy(u, b, C, G, A)
  BY DEF FilledBy
<1>8. 22 \in Nat
  OBVIOUS
<1>9. FilledUp(S, u, b, 22, C, G, A)
  BY <1>2, <1>6, <1>7, <1>8, FillParts
<1>10. PICK e : e = <<Out("crtc", 15, 0), Out("crtc", 14, 0)>>
  OBVIOUS
<1>11. e \in Seq(S) /\ Len(e) = 2 /\ e[1] = Out("crtc", 15, 0) /\ e[2] = Out("crtc", 14, 0)
  BY <1>10 DEF IsAccesses
<1>12. Parts(S, q, u, 101, e, 2)
  <2>1. q = u \o e
    BY <1>1, <1>3, <1>4, <1>5, <1>7, <1>10 DEF set_mode3, FilledBy, BeginText
  <2>2. Joined(S, q, u, 101, e, 2)
    BY <1>9, <1>11, <2>1 DEF Joined, FilledUp
  <2> QED
    BY <2>2, Join
<1>13. IsProgram(S, q, 103) /\ q[102] = e[1] /\ q[103] = e[2]
  BY <1>12 DEF Parts, IsProgram
<1>14. ASSUME NEW k \in 1 .. 22 PROVE q[k] = b[k]
  <2>1. u[k] = b[k]
    BY <1>9 DEF FilledUp
  <2>2. k \in 1 .. 101
    OBVIOUS
  <2>3. q[k] = u[k]
    BY <1>12, <2>2 DEF Parts
  <2> QED
    BY <2>1, <2>3
<1>15. ASSUME NEW k \in 1 .. 79 PROVE q[22 + k] = FillAt(C, G, A, k)
  <2>1. u[22 + k] = FillAt(C, G, A, k)
    BY <1>9 DEF FilledUp
  <2>2. q[22 + k] = u[22 + k]
    <3>1. PICK i \in 1 .. 101 : i = 22 + k
      OBVIOUS
    <3>2. q[i] = u[i]
      BY <1>12 DEF Parts
    <3> QED
      BY <3>1, <3>2
  <2> QED
    BY <2>1, <2>2
<1> QED
  BY <1>1, <1>3, <1>4, <1>5, <1>11, <1>13, <1>14, <1>15

(* set_mode13h.                                                            *)
LEMMA Program13h ==
  ASSUME NEW S, IsAccesses(S), NEW q, q = set_mode13h
  PROVE  /\ IsProgram(S, q, 87)
         /\ \A k \in 1 .. 79 : q[8 + k] = FillAt(Crtc13h, Gc13h, Ac13h, k)
<1>1. PICK a : a = <<Out("misc", 0, \h63)>>
  OBVIOUS
<1>2. PICK b : b = <<Out("seq", 1, 1), Out("seq", 2, \h0F), Out("seq", 3, 0), Out("seq", 4, \h0E)>>
  OBVIOUS
<1>3. PICK d : d = Unlock
  OBVIOUS
<1>4. PICK v : v = UnderReset(b)
  OBVIOUS
<1>5. a \in Seq(S) /\ Len(a) = 1
  BY <1>1 DEF IsAccesses
<1>6. b \in Seq(S) /\ Len(b) = 4
  BY <1>2 DEF IsAccesses
<1>7. d \in Seq(S) /\ Len(d) = 1
  BY <1>3 DEF IsAccesses, Unlock
<1>8. 4 \in Nat /\ 8 \in Nat
  OBVIOUS
<1>9. ResetAround(S, v, b, 4)
  BY <1>4, <1>6, <1>8, ResetParts
<1>10. v \in Seq(S) /\ Len(v) = 6
  BY <1>9 DEF ResetAround
<1>11. PICK x : x = a \o v
  OBVIOUS
<1>12. PICK y : y = x \o d
  OBVIOUS
<1>13. Parts(S, x, a, 1, v, 6)
  <2>1. Joined(S, x, a, 1, v, 6)
    BY <1>5, <1>10, <1>11 DEF Joined
  <2> QED
    BY <2>1, Join
<1>14. Parts(S, y, x, 7, d, 1)
  <2>1. Joined(S, y, x, 7, d, 1)
    BY <1>7, <1>12, <1>13 DEF Joined, Parts
  <2> QED
    BY <2>1, Join
<1>15. y \in Seq(S) /\ Len(y) = 8
  BY <1>14 DEF Parts
<1>16. PICK C : C = Crtc13h
  OBVIOUS
<1>17. PICK G : G = Gc13h
  OBVIOUS
<1>18. PICK A : A = Ac13h
  OBVIOUS
<1>19. IsTables(C, G, A)
  BY <1>16, <1>17, <1>18, TablesOfModes
<1>20. FilledBy(q, y, C, G, A)
  BY <1>1, <1>2, <1>3, <1>4, <1>11, <1>12, <1>16, <1>17, <1>18 DEF set_mode13h, FilledBy
<1>21. FilledUp(S, q, y, 8, C, G, A)
  BY <1>8, <1>15, <1>19, <1>20, FillParts
<1> QED
  BY <1>16, <1>17, <1>18, <1>21 DEF FilledUp, IsProgram

(* Between the modes colours and pixels are written, no registers.         *)
LEMMA PaletteProgram ==
  ASSUME NEW S, IsAccesses(S), NEW q, q = setup_palette
  PROVE  IsProgram(S, q, 12) /\ \A k \in 1 .. 12 : q[k].port = "dac"
<1>1. IsProgram(S, q, 12)
  BY DEF IsAccesses, IsProgram, setup_palette, DacUsed, Names, Colours
<1>2. /\ q[1].port = "dac" /\ q[2].port = "dac" /\ q[3].port = "dac" /\ q[4].port = "dac"
      /\ q[5].port = "dac" /\ q[6].port = "dac" /\ q[7].port = "dac" /\ q[8].port = "dac"
      /\ q[9].port = "dac" /\ q[10].port = "dac" /\ q[11].port = "dac" /\ q[12].port = "dac"
  BY DEF setup_palette, Out
<1>3. \A k \in 1 .. 12 :
        k \in {1, 2, 3, 4, 5, 6, 7, 8, 9, 10, 11, 12}
  OBVIOUS
<1> QED
  BY <1>1, <1>2, <1>3

(* kernel_show_boot_splash.                                                *)
LEMMA SplashProgram ==
  ASSUME NEW S, IsAccesses(S), NEW q, q = KernelShowBootSplash
  PROVE  /\ IsProgram(S, q, 203)
         /\ \A k \in 1 .. 79 : q[8 + k] = FillAt(Crtc13h, Gc13h, Ac13h, k)
         /\ \A k \in 88 .. 99 : q[k].port = "dac"
         /\ q[100] = Out("memory", 0, "pixels")
         /\ \A k \in 1 .. 22 : q[100 + k] = BeginText[k]
         /\ \A k \in 1 .. 79 : q[122 + k] = FillAt(CrtcText, GcText, AcText, k)
         /\ q[202] = Out("crtc", 15, 0) /\ q[203] = Out("crtc", 14, 0)
<1>1. PICK a : a = set_mode13h
  OBVIOUS
<1>2. PICK b : b = setup_palette
  OBVIOUS
<1>3. PICK c : c = draw_splash
  OBVIOUS
<1>4. PICK d : d = set_mode3
  OBVIOUS
<1>5. /\ a \in Seq(S) /\ Len(a) = 87
      /\ \A k \in 1 .. 79 : a[8 + k] = FillAt(Crtc13h, Gc13h, Ac13h, k)
  BY <1>1, Program13h DEF IsProgram
<1>6. /\ b \in Seq(S) /\ Len(b) = 12 /\ \A k \in 1 .. 12 : b[k].port = "dac"
  BY <1>2, PaletteProgram DEF IsProgram
<1>7. c \in Seq(S) /\ Len(c) = 1 /\ c[1] = Out("memory", 0, "pixels")
  BY <1>3 DEF draw_splash, IsAccesses, Names
<1>8. /\ d \in Seq(S) /\ Len(d) = 103
      /\ \A k \in 1 .. 22 : d[k] = BeginText[k]
      /\ \A k \in 1 .. 79 : d[22 + k] = FillAt(CrtcText, GcText, AcText, k)
      /\ d[102] = Out("crtc", 15, 0) /\ d[103] = Out("crtc", 14, 0)
  BY <1>4, TextProgram DEF IsProgram
<1>9. PICK x : x = a \o b
  OBVIOUS
<1>10. PICK y : y = x \o c
  OBVIOUS
<1>11. Parts(S, x, a, 87, b, 12)
  <2>1. Joined(S, x, a, 87, b, 12)
    BY <1>5, <1>6, <1>9 DEF Joined
  <2> QED
    BY <2>1, Join
<1>12. Parts(S, y, x, 99, c, 1)
  <2>1. Joined(S, y, x, 99, c, 1)
    BY <1>7, <1>10, <1>11 DEF Joined, Parts
  <2> QED
    BY <2>1, Join
<1>13. Parts(S, q, y, 100, d, 103)
  <2>1. q = y \o d
    BY <1>1, <1>2, <1>3, <1>4, <1>9, <1>10 DEF KernelShowBootSplash
  <2>2. Joined(S, q, y, 100, d, 103)
    BY <1>8, <1>12, <2>1 DEF Joined, Parts
  <2> QED
    BY <2>2, Join
<1>14. IsProgram(S, q, 203)
  BY <1>13 DEF Parts, IsProgram
<1>15. ASSUME NEW k \in 1 .. 99 PROVE q[k] = x[k]
  <2>1. k \in 1 .. 100
    OBVIOUS
  <2>2. q[k] = y[k]
    BY <1>13, <2>1 DEF Parts
  <2>3. y[k] = x[k]
    BY <1>12 DEF Parts
  <2> QED
    BY <2>2, <2>3
<1>16. ASSUME NEW k \in 1 .. 79 PROVE q[8 + k] = FillAt(Crtc13h, Gc13h, Ac13h, k)
  <2>1. PICK i \in 1 .. 87 : i = 8 + k
    OBVIOUS
  <2>2. x[i] = a[i]
    BY <1>11 DEF Parts
  <2>3. q[i] = x[i]
    BY <1>15, <2>1
  <2>4. a[i] = FillAt(Crtc13h, Gc13h, Ac13h, k)
    BY <1>5, <2>1
  <2> QED
    BY <2>1, <2>2, <2>3, <2>4
<1>17. ASSUME NEW k \in 88 .. 99 PROVE q[k].port = "dac"
  <2>1. PICK i \in 1 .. 12 : k = 87 + i
    <3>1. k - 87 \in 1 .. 12 /\ k = 87 + (k - 87)
      OBVIOUS
    <3> QED
      BY <3>1
  <2>2. x[87 + i] = b[i]
    BY <1>11 DEF Parts
  <2>3. q[k] = x[k]
    BY <1>15
  <2> QED
    BY <1>6, <2>1, <2>2, <2>3
<1>18. q[100] = Out("memory", 0, "pixels")
  <2>1. q[100] = y[100]
    BY <1>13 DEF Parts
  <2>2. y[100] = c[1]
    BY <1>12 DEF Parts
  <2> QED
    BY <1>7, <2>1, <2>2
<1>19. ASSUME NEW k \in 1 .. 103 PROVE q[100 + k] = d[k]
  BY <1>13 DEF Parts
<1>20. ASSUME NEW k \in 1 .. 22 PROVE q[100 + k] = BeginText[k]
  <2>1. k \in 1 .. 103
    OBVIOUS
  <2>2. q[100 + k] = d[k]
    BY <1>19, <2>1
  <2>3. d[k] = BeginText[k]
    BY <1>8
  <2> QED
    BY <2>2, <2>3
<1>21. ASSUME NEW k \in 1 .. 79 PROVE q[122 + k] = FillAt(CrtcText, GcText, AcText, k)
  <2>1. PICK i \in 1 .. 103 : i = 22 + k
    OBVIOUS
  <2>2. q[100 + i] = d[i]
    BY <1>19
  <2>3. 100 + i = 122 + k
    BY <2>1
  <2> QED
    BY <1>8, <2>1, <2>2, <2>3
<1>22. q[202] = d[102] /\ q[203] = d[103]
  BY <1>13 DEF Parts
<1> QED
  BY <1>8, <1>14, <1>16, <1>17, <1>18, <1>20, <1>21, <1>22

(* vga_set_mode_640x480 and its palette.                                   *)
LEMMA DesktopBegins ==
  ASSUME NEW S, IsAccesses(S), NEW q, q = BeginDesktop
  PROVE  /\ IsProgram(S, q, 9)
         /\ q[1] = Out("seq", 0, 1) /\ q[2] = Out("seq", 0, 3)
         /\ q[3] = Out("crtc_and", 17, 128) /\ q[4] = Out("misc", 0, \hE3)
         /\ \A k \in 1 .. 5 : q[4 + k] = OutAt("seq", seq_regs, k)
<1>1. PICK a : a = UnderReset(<<>>)
  OBVIOUS
<1>2. PICK b : b = Unlock
  OBVIOUS
<1>3. PICK c : c = <<Out("misc", 0, \hE3)>>
  OBVIOUS
<1>4. PICK d : d = OutTable("seq", seq_regs)
  OBVIOUS
<1>5. PICK o : o = <<>>
  OBVIOUS
<1>6. o \in Seq(S) /\ Len(o) = 0 /\ 0 \in Nat
  BY <1>5
<1>7. a = UnderReset(o)
  BY <1>1, <1>5
<1>8. ResetAround(S, a, o, 0)
  BY <1>6, <1>7, ResetParts
<1>9. a \in Seq(S) /\ Len(a) = 2 /\ a[1] = Out("seq", 0, 1) /\ a[2] = Out("seq", 0, 3)
  BY <1>8 DEF ResetAround
<1>10. b \in Seq(S) /\ Len(b) = 1 /\ b[1] = Out("crtc_and", 17, 128)
  BY <1>2 DEF IsAccesses, Unlock
<1>11. c \in Seq(S) /\ Len(c) = 1 /\ c[1] = Out("misc", 0, \hE3)
  BY <1>3 DEF IsAccesses
<1>12. PICK T : T = seq_regs
  OBVIOUS
<1>13. IsTable(T, 5)
  BY <1>12 DEF IsTable, seq_regs
<1>14. Lists(S, d, "seq", T, 5)
  <2>1. ASSUME NEW k \in 1 .. 5 PROVE OutAt("seq", T, k) \in S
    <3>1. T[k] \in Int /\ k - 1 \in 0 .. 4
      BY <1>13, TableEntries
    <3> QED
      BY <3>1 DEF OutAt, IsAccesses
  <2>2. Carries(S, "seq", T, 5)
    BY <2>1 DEF Carries
  <2>3. Len(T) = 5 /\ 5 \in Nat /\ d = OutTable("seq", T)
    BY <1>4, <1>12, <1>13, TableLength
  <2> QED
    BY <2>2, <2>3, TableParts
<1>15. PICK x : x = a \o b
  OBVIOUS
<1>16. PICK y : y = x \o c
  OBVIOUS
<1>17. Parts(S, x, a, 2, b, 1)
  <2>1. Joined(S, x, a, 2, b, 1)
    BY <1>9, <1>10, <1>15 DEF Joined
  <2> QED
    BY <2>1, Join
<1>18. Parts(S, y, x, 3, c, 1)
  <2>1. Joined(S, y, x, 3, c, 1)
    BY <1>11, <1>16, <1>17 DEF Joined, Parts
  <2> QED
    BY <2>1, Join
<1>19. Parts(S, q, y, 4, d, 5)
  <2>1. q = y \o d
    BY <1>1, <1>2, <1>3, <1>4, <1>15, <1>16 DEF BeginDesktop
  <2>2. y \in Seq(S) /\ Len(y) = 4
    BY <1>18 DEF Parts
  <2>3. d \in Seq(S) /\ Len(d) = 5
    BY <1>14 DEF Lists
  <2>4. Joined(S, q, y, 4, d, 5)
    BY <2>1, <2>2, <2>3 DEF Joined
  <2> QED
    BY <2>4, Join
<1>20. IsProgram(S, q, 9) /\ q[1] = y[1] /\ q[2] = y[2] /\ q[3] = y[3] /\ q[4] = y[4]
  BY <1>19 DEF Parts, IsProgram
<1>21. y[4] = c[1] /\ y[1] = x[1] /\ y[2] = x[2] /\ y[3] = x[3]
  BY <1>18 DEF Parts
<1>22. x[1] = a[1] /\ x[2] = a[2] /\ x[3] = b[1]
  BY <1>17 DEF Parts
<1>23. ASSUME NEW k \in 1 .. 5 PROVE q[4 + k] = OutAt("seq", seq_regs, k)
  <2>1. q[4 + k] = d[k]
    BY <1>19 DEF Parts
  <2>2. d[k] = OutAt("seq", T, k)
    BY <1>14 DEF Lists
  <2> QED
    BY <1>12, <2>1, <2>2
<1> QED
  BY <1>9, <1>10, <1>11, <1>20, <1>21, <1>22, <1>23

(* vga_set_mode_640x480 and the palette, as one program.                   *)
LEMMA DesktopProgram ==
  ASSUME NEW S, IsAccesses(S), NEW q, q = VgaSetMode \o VgaInitializePalette
  PROVE  /\ IsProgram(S, q, 104)
         /\ \A k \in 1 .. 9 : q[k] = BeginDesktop[k]
         /\ \A k \in 1 .. 79 : q[9 + k] = FillAt(crtc_regs, gc_regs, ac_regs, k)
         /\ \A k \in 1 .. 16 : q[88 + k] = OutAt("dac", Colours, k)
<1>1. PICK b : b = BeginDesktop
  OBVIOUS
<1>2. b \in Seq(S) /\ Len(b) = 9
  BY <1>1, DesktopBegins DEF IsProgram
<1>3. PICK C : C = crtc_regs
  OBVIOUS
<1>4. PICK G : G = gc_regs
  OBVIOUS
<1>5. PICK A : A = ac_regs
  OBVIOUS
<1>6. IsTables(C, G, A)
  BY <1>3, <1>4, <1>5, TablesOfModes
<1>7. PICK u : u = VgaSetMode
  OBVIOUS
<1>8. FilledBy(u, b, C, G, A)
  BY <1>1, <1>3, <1>4, <1>5, <1>7 DEF VgaSetMode, FilledBy, BeginDesktop
<1>9. 9 \in Nat
  OBVIOUS
<1>10. FilledUp(S, u, b, 9, C, G, A)
  BY <1>2, <1>6, <1>8, <1>9, FillParts
<1>11. PICK T : T = Colours
  OBVIOUS
<1>12. PICK e : e = OutTable("dac", T)
  OBVIOUS
<1>13. Lists(S, e, "dac", T, 16)
  <2>1. ASSUME NEW k \in 1 .. 16 PROVE OutAt("dac", T, k) \in S
    <3>1. T[k] \in Names
      BY <1>11 DEF Names
    <3>2. k - 1 \in DacUsed
      BY DEF DacUsed
    <3> QED
      BY <3>1, <3>2 DEF OutAt, IsAccesses
  <2>2. Carries(S, "dac", T, 16)
    BY <2>1 DEF Carries
  <2>3. Len(T) = 16 /\ 16 \in Nat
    BY <1>11 DEF Colours
  <2> QED
    BY <1>12, <2>2, <2>3, TableParts
<1>14. Parts(S, q, u, 88, e, 16)
  <2>1. q = u \o e
    BY <1>7, <1>11, <1>12 DEF VgaInitializePalette
  <2>2. u \in Seq(S) /\ Len(u) = 88
    BY <1>10 DEF FilledUp
  <2>3. e \in Seq(S) /\ Len(e) = 16
    BY <1>13 DEF Lists
  <2>4. Joined(S, q, u, 88, e, 16)
    BY <2>1, <2>2, <2>3 DEF Joined
  <2> QED
    BY <2>4, Join
<1>15. IsProgram(S, q, 104)
  BY <1>14 DEF Parts, IsProgram
<1>16. ASSUME NEW k \in 1 .. 9 PROVE q[k] = b[k]
  <2>1. u[k] = b[k]
    BY <1>10 DEF FilledUp
  <2>2. k \in 1 .. 88
    OBVIOUS
  <2>3. q[k] = u[k]
    BY <1>14, <2>2 DEF Parts
  <2> QED
    BY <2>1, <2>3
<1>17. ASSUME NEW k \in 1 .. 79 PROVE q[9 + k] = FillAt(C, G, A, k)
  <2>1. u[9 + k] = FillAt(C, G, A, k)
    BY <1>10 DEF FilledUp
  <2>2. PICK i \in 1 .. 88 : i = 9 + k
    OBVIOUS
  <2>3. q[i] = u[i]
    BY <1>14 DEF Parts
  <2> QED
    BY <2>1, <2>2, <2>3
<1>18. ASSUME NEW k \in 1 .. 16 PROVE q[88 + k] = OutAt("dac", Colours, k)
  <2>1. q[88 + k] = e[k]
    BY <1>14 DEF Parts
  <2>2. e[k] = OutAt("dac", T, k)
    BY <1>13 DEF Lists
  <2> QED
    BY <1>11, <2>1, <2>2
<1> QED
  BY <1>1, <1>3, <1>4, <1>5, <1>15, <1>16, <1>17, <1>18

-----------------------------------------------------------------------------
(* What an access does.                                                    *)
Accesses ==
  {Out("misc", 0, v) : v \in Int} \cup {Out("ac", 0, v) : v \in Int}
  \cup {Out("seq", r, v) : r \in 0 .. 4, v \in Int}
  \cup {Out("crtc", r, v) : r \in 0 .. 24, v \in Int}
  \cup {Out("gc", r, v) : r \in 0 .. 8, v \in Int}
  \cup {Out("crtc_and", 17, 128), Out("status_in", 0, 0)}
  \cup {Out("dac", r, v) : r \in DacUsed, v \in Names}
  \cup {Out("memory", 0, v) : v \in Names}

(* They include all that the programs are made of.                         *)
LEMMA AccessesAre == IsAccesses(Accesses)
<1>1. \A v \in Int : Out("misc", 0, v) \in Accesses /\ Out("ac", 0, v) \in Accesses
  BY DEF Accesses
<1>2. \A r \in 0 .. 4, v \in Int : Out("seq", r, v) \in Accesses
  BY DEF Accesses
<1>3. \A r \in 0 .. 24, v \in Int : Out("crtc", r, v) \in Accesses
  BY DEF Accesses
<1>4. \A r \in 0 .. 8, v \in Int : Out("gc", r, v) \in Accesses
  BY DEF Accesses
<1>5. Out("crtc_and", 17, 128) \in Accesses /\ Out("status_in", 0, 0) \in Accesses
  BY DEF Accesses
<1>6. \A r \in DacUsed, v \in Names : Out("dac", r, v) \in Accesses
  BY DEF Accesses
<1>7. \A v \in Names : Out("memory", 0, v) \in Accesses
  BY DEF Accesses
<1> QED
  BY <1>1, <1>2, <1>3, <1>4, <1>5, <1>6, <1>7 DEF IsAccesses

(* One lemma for each port: what it changes, and that it changes no more.  *)
LEMMA SeqAccess ==
  ASSUME NEW r, NEW v, Access(Out("seq", r, v))
  PROVE  seq' = [seq EXCEPT ![r] = v] /\ UNCHANGED <<misc, crtc, gc, ac, acPort, dac, plane2>>
  BY DEF Access, Out

LEMMA GcAccess ==
  ASSUME NEW r, NEW v, Access(Out("gc", r, v))
  PROVE  gc' = [gc EXCEPT ![r] = v] /\ UNCHANGED <<misc, seq, crtc, ac, acPort, dac, plane2>>
  BY DEF Access, Out

LEMMA DacAccess ==
  ASSUME NEW r, NEW v, Access(Out("dac", r, v))
  PROVE  dac' = [dac EXCEPT ![r] = v] /\ UNCHANGED <<misc, seq, crtc, gc, ac, acPort, plane2>>
  BY DEF Access, Out

LEMMA MiscAccess ==
  ASSUME NEW v, Access(Out("misc", 0, v))
  PROVE  misc' = v /\ UNCHANGED <<seq, crtc, gc, ac, acPort, dac, plane2>>
  BY DEF Access, Out

LEMMA MemoryAccess ==
  ASSUME NEW v, Access(Out("memory", 0, v))
  PROVE  /\ plane2' = (IF v = "font" /\ ~Plane2Alone THEN "garbage" ELSE v)
         /\ UNCHANGED <<misc, seq, crtc, gc, ac, acPort, dac>>
  BY DEF Access, Out

LEMMA StatusAccess ==
  ASSUME Access(Out("status_in", 0, 0))
  PROVE  atData' = FALSE /\ UNCHANGED <<misc, seq, crtc, gc, ac, acIndex, shown, dac, plane2>>
  BY DEF Access, Out

LEMMA AcAccess ==
  ASSUME NEW v, Access(Out("ac", 0, v))
  PROVE  AcWrite(v) /\ UNCHANGED <<misc, seq, crtc, gc, dac, plane2>>
  BY DEF Access, Out

LEMMA CrtcAccess ==
  ASSUME NEW r, NEW v, Access(Out("crtc", r, v))
  PROVE  CrtcWrite(r, v) /\ UNCHANGED <<misc, seq, gc, ac, acPort, dac, plane2>>
  BY DEF Access, Out

LEMMA UnlockAccess ==
  ASSUME Access(Out("crtc_and", 17, 128))
  PROVE  /\ crtc' = [crtc EXCEPT ![17] = crtc[17] % 128]
         /\ UNCHANGED <<misc, seq, gc, ac, acPort, dac, plane2>>
<1>1. CrtcWrite(17, crtc[17] % 128) /\ UNCHANGED <<misc, seq, gc, ac, acPort, dac, plane2>>
  BY DEF Access, Out
<1> QED
  BY <1>1 DEF CrtcWrite

(* The registers stay the ones there are.                                  *)
VgaTyped ==
  /\ seq \in [0 .. 4 -> Int] /\ crtc \in [0 .. 24 -> Int] /\ gc \in [0 .. 8 -> Int]
  /\ ac \in [0 .. 20 -> Int] /\ acIndex \in Int /\ atData \in BOOLEAN
  /\ dac \in [DacUsed -> Names]

(* No access goes to a register there is not.                              *)
LEMMA AccessTyped ==
  ASSUME NEW o \in Accesses, VgaTyped, Access(o)
  PROVE  VgaTyped'
<1> USE DEF VgaTyped, acPort
<1>1. CASE \E v \in Int : o = Out("misc", 0, v)
  BY <1>1, MiscAccess
<1>2. CASE \E v \in Int : o = Out("ac", 0, v)
  <2>1. PICK v \in Int : o = Out("ac", 0, v)
    BY <1>2
  <2>2. AcWrite(v) /\ UNCHANGED <<misc, seq, crtc, gc, dac, plane2>>
    BY <2>1, AcAccess
  <2>3. v % 32 \in Int
    OBVIOUS
  <2>4. ac' \in [0 .. 20 -> Int] /\ acIndex' \in Int /\ atData' \in BOOLEAN
    BY <2>2, <2>3 DEF AcWrite
  <2> QED
    BY <2>2, <2>4
<1>3. CASE \E r \in 0 .. 4, v \in Int : o = Out("seq", r, v)
  BY <1>3, SeqAccess
<1>4. CASE \E r \in 0 .. 24, v \in Int : o = Out("crtc", r, v)
  <2>1. PICK r \in 0 .. 24, v \in Int : o = Out("crtc", r, v)
    BY <1>4
  <2>2. CrtcWrite(r, v) /\ UNCHANGED <<misc, seq, gc, ac, acPort, dac, plane2>>
    BY <2>1, CrtcAccess
  <2>3. PICK w \in Int : w = crtc[7]
    OBVIOUS
  <2>4. w + 16 * (Bit(v, 4) - Bit(w, 4)) \in Int
    BY DEF Bit
  <2>5. crtc' \in [0 .. 24 -> Int]
    BY <2>2, <2>3, <2>4 DEF CrtcWrite
  <2> QED
    BY <2>2, <2>5
<1>5. CASE \E r \in 0 .. 8, v \in Int : o = Out("gc", r, v)
  BY <1>5, GcAccess
<1>6. CASE o = Out("crtc_and", 17, 128)
  <2>1. crtc[17] % 128 \in Int
    OBVIOUS
  <2> QED
    BY <1>6, <2>1, UnlockAccess
<1>7. CASE o = Out("status_in", 0, 0)
  BY <1>7, StatusAccess
<1>8. CASE \E r \in DacUsed, v \in Names : o = Out("dac", r, v)
  BY <1>8, DacAccess
<1>9. CASE \E v \in Names : o = Out("memory", 0, v)
  BY <1>9, MemoryAccess
<1> QED
  BY <1>1, <1>2, <1>3, <1>4, <1>5, <1>6, <1>7, <1>8, <1>9 DEF Accesses

(* Registers 0 to 7 can be written once bit 7 of register 17 is cleared.   *)
LEMMA Unlocks ==
  ASSUME VgaTyped, Access(Out("crtc_and", 17, 128))
  PROVE  ~Locked'
<1>1. PICK v \in Int : v = crtc[17]
  BY DEF VgaTyped
<1>2. crtc'[17] = v % 128
  BY <1>1, UnlockAccess DEF VgaTyped
<1>3. v % 128 \in 0 .. 127 /\ 2^7 = 128
  OBVIOUS
<1>4. Bit(v % 128, 7) = 0
  BY <1>3 DEF Bit
<1> QED
  BY <1>2, <1>4 DEF Locked

(* The bit of an index that turns the picture on.                          *)
LEMMA IndexBits == Bit(32, 5) = 1 /\ \A i \in 0 .. 20 : Bit(i, 5) = 0 /\ i % 32 = i
<1>1. 2^5 = 32
  OBVIOUS
<1> QED
  BY <1>1 DEF Bit

-----------------------------------------------------------------------------
(* What holds when n of the accesses of FillAt are made.                   *)
CrtcFilled(n, C) ==
  /\ n <= 17 => ~Locked
  /\ \A r \in 0 .. 24 : n > r => crtc[r] = C[r + 1]
GcFilled(n, G) == \A r \in 0 .. 8 : n > 25 + r => gc[r] = G[r + 1]
AcFilled(n, A) == \A r \in 0 .. 20 : n > 36 + 2 * r => ac[r] = A[r + 1]
PortInTurn(n) ==
  /\ \A i \in 0 .. 21 : n = 35 + 2 * i => ~atData
  /\ \A i \in 0 .. 20 : n = 36 + 2 * i => atData /\ acIndex = i
  /\ n \in 36 .. 77 => ~shown
  /\ n = 78 => ~atData
  /\ n >= 79 => shown

Filled(n, C, G, A) == CrtcFilled(n, C) /\ GcFilled(n, G) /\ AcFilled(n, A) /\ PortInTurn(n)

(* Each access fills one register, and none undoes an earlier one: the CRT *)
(* controller stays unlocked until its last values are in, and the port of *)
(* the attribute controller expects what comes.                            *)
LEMMA FillStep ==
  ASSUME VgaTyped, NEW C, NEW G, NEW A, NEW n \in 0 .. 78, Filled(n, C, G, A),
         Access(FillAt(C, G, A, n + 1))
  PROVE  Filled(n + 1, C, G, A)' /\ UNCHANGED <<misc, seq, dac, plane2>>
<1>1. CASE n \in 0 .. 24
  <2>1. PICK v : v = C[n + 1]
    OBVIOUS
  <2>2. FillAt(C, G, A, n + 1) = Out("crtc", n, v)
    <3>1. n + 1 \in 1 .. 25 /\ n + 1 - 1 = n
      BY <1>1
    <3>2. FillAt(C, G, A, n + 1) = OutAt("crtc", C, n + 1)
      BY <3>1, FillCases
    <3> QED
      BY <2>1, <3>1, <3>2 DEF OutAt
  <2>3. CrtcWrite(n, v) /\ UNCHANGED <<misc, seq, gc, ac, acPort, dac, plane2>>
    BY <2>2, CrtcAccess
  <2>4. crtc' = [crtc EXCEPT ![n] = v]
    BY <1>1, <2>3 DEF CrtcWrite, Filled, CrtcFilled
  <2>5. n + 1 <= 17 => ~Locked'
    BY <1>1, <2>4 DEF Filled, CrtcFilled, Locked, VgaTyped
  <2>6. ASSUME NEW r \in 0 .. 24, n + 1 > r PROVE crtc'[r] = C[r + 1]
    BY <1>1, <2>1, <2>4, <2>6 DEF Filled, CrtcFilled, VgaTyped
  <2>7. CrtcFilled(n + 1, C)'
    BY <2>5, <2>6 DEF CrtcFilled
  <2>8. GcFilled(n + 1, G)' /\ AcFilled(n + 1, A)' /\ PortInTurn(n + 1)'
    BY <1>1 DEF GcFilled, AcFilled, PortInTurn
  <2> QED
    BY <2>3, <2>7, <2>8 DEF Filled
<1>2. CASE n \in 25 .. 33
  <2>1. PICK j \in 1 .. 9 : n + 1 = j + 25
    BY <1>2
  <2>2. PICK v : v = G[j]
    OBVIOUS
  <2>3. FillAt(C, G, A, n + 1) = Out("gc", j - 1, v)
    BY <2>1, <2>2, FillCases DEF OutAt
  <2>4. gc' = [gc EXCEPT ![j - 1] = v] /\ UNCHANGED <<misc, seq, crtc, ac, acPort, dac, plane2>>
    BY <2>3, GcAccess
  <2>5. ASSUME NEW r \in 0 .. 8, n + 1 > 25 + r PROVE gc'[r] = G[r + 1]
    BY <2>1, <2>2, <2>4, <2>5 DEF Filled, GcFilled, VgaTyped
  <2>6. GcFilled(n + 1, G)'
    BY <2>5 DEF GcFilled
  <2>7. CrtcFilled(n + 1, C)'
    BY <1>2, <2>4 DEF Filled, CrtcFilled
  <2>8. AcFilled(n + 1, A)' /\ PortInTurn(n + 1)'
    BY <1>2 DEF AcFilled, PortInTurn
  <2> QED
    BY <2>4, <2>6, <2>7, <2>8 DEF Filled
<1>3. CASE n \in {34, 77}
  <2>1. FillAt(C, G, A, n + 1) = Out("status_in", 0, 0)
    BY <1>3, FillCases
  <2>2. atData' = FALSE /\ UNCHANGED <<misc, seq, crtc, gc, ac, acIndex, shown, dac, plane2>>
    BY <2>1, StatusAccess
  <2>3. CrtcFilled(n + 1, C)' /\ GcFilled(n + 1, G)'
    BY <1>3, <2>2 DEF Filled, CrtcFilled, GcFilled
  <2>4. AcFilled(n + 1, A)'
    BY <1>3, <2>2 DEF Filled, AcFilled
  <2>5. PortInTurn(n + 1)'
    BY <1>3, <2>2 DEF PortInTurn
  <2> QED
    BY <2>2, <2>3, <2>4, <2>5 DEF Filled
<1>4. CASE \E i \in 0 .. 20 : n = 35 + 2 * i
  <2>1. PICK i \in 0 .. 20 : n = 35 + 2 * i
    BY <1>4
  <2>2. FillAt(C, G, A, n + 1) = Out("ac", 0, i)
    <3>1. PICK k \in 1 .. 42 : k = 2 * i + 1
      OBVIOUS
    <3>2. k % 2 = 1 /\ k \div 2 = i /\ n + 1 = k + 35
      BY <2>1, <3>1
    <3>3. FillAt(C, G, A, n + 1) = InTurn(A, k)
      BY <3>2, FillCases
    <3> QED
      BY <3>2, <3>3 DEF InTurn
  <2>3. AcWrite(i) /\ UNCHANGED <<misc, seq, crtc, gc, dac, plane2>>
    BY <2>2, AcAccess
  <2>4. ~atData
    BY <2>1 DEF Filled, PortInTurn
  <2>5. atData' /\ acIndex' = i /\ ~shown' /\ ac' = ac
    <3>1. Bit(i, 5) # 1 /\ i % 32 = i
      BY IndexBits
    <3>2. ac' = ac /\ acIndex' = i % 32
      BY <2>3, <2>4 DEF AcWrite
    <3>3. ~shown'
      BY <2>3, <2>4, <3>1 DEF AcWrite
    <3>4. atData'
      BY <2>3, <2>4 DEF AcWrite
    <3> QED
      BY <3>1, <3>2, <3>3, <3>4
  <2>6. CrtcFilled(n + 1, C)' /\ GcFilled(n + 1, G)'
    BY <2>1, <2>3 DEF Filled, CrtcFilled, GcFilled
  <2>7. ASSUME NEW r \in 0 .. 20, n + 1 > 36 + 2 * r PROVE n > 36 + 2 * r
    BY <2>1, <2>7
  <2>8. AcFilled(n + 1, A)'
    BY <2>5, <2>7 DEF Filled, AcFilled
  <2>9. PortInTurn(n + 1)'
    <3>1. \A j \in 0 .. 21 : n + 1 # 35 + 2 * j
      BY <2>1
    <3>2. \A j \in 0 .. 20 : n + 1 = 36 + 2 * j => j = i
      BY <2>1
    <3>3. n + 1 < 77
      BY <2>1
    <3> QED
      BY <2>5, <3>1, <3>2, <3>3 DEF PortInTurn
  <2> QED
    BY <2>3, <2>6, <2>8, <2>9 DEF Filled
<1>5. CASE \E i \in 0 .. 20 : n = 36 + 2 * i
  <2>1. PICK i \in 0 .. 20 : n = 36 + 2 * i
    BY <1>5
  <2>2. PICK v : v = A[i + 1]
    OBVIOUS
  <2>3. FillAt(C, G, A, n + 1) = Out("ac", 0, v)
    <3>1. PICK k \in 1 .. 42 : k = 2 * i + 2
      OBVIOUS
    <3>2. k % 2 # 1 /\ k \div 2 = i + 1 /\ n + 1 = k + 35
      BY <2>1, <3>1
    <3>3. FillAt(C, G, A, n + 1) = InTurn(A, k)
      BY <3>2, FillCases
    <3> QED
      BY <2>2, <3>2, <3>3 DEF InTurn
  <2>4. AcWrite(v) /\ UNCHANGED <<misc, seq, crtc, gc, dac, plane2>>
    BY <2>3, AcAccess
  <2>5. atData /\ acIndex = i /\ ~shown
    BY <2>1 DEF Filled, PortInTurn
  <2>6. ~atData' /\ ac' = [ac EXCEPT ![i] = v] /\ ~shown'
    <3>1. ac' = (IF acIndex > 20 \/ (acIndex < 16 /\ shown) THEN ac ELSE [ac EXCEPT ![acIndex] = v])
      BY <2>4, <2>5, Zenon DEF AcWrite
    <3>2. ~atData' /\ ~shown'
      BY <2>4, <2>5, Zenon DEF AcWrite
    <3>3. ac' = [ac EXCEPT ![i] = v]
      BY <2>5, <3>1
    <3> QED
      BY <3>2, <3>3
  <2>7. CrtcFilled(n + 1, C)' /\ GcFilled(n + 1, G)'
    BY <2>1, <2>4 DEF Filled, CrtcFilled, GcFilled
  <2>8. ASSUME NEW r \in 0 .. 20, n + 1 > 36 + 2 * r PROVE ac'[r] = A[r + 1]
    BY <2>1, <2>2, <2>6, <2>8 DEF Filled, AcFilled, VgaTyped
  <2>9. AcFilled(n + 1, A)'
    BY <2>8 DEF AcFilled
  <2>10. PortInTurn(n + 1)'
    <3>1. \A j \in 0 .. 20 : n + 1 # 36 + 2 * j
      BY <2>1
    <3>2. n + 1 <= 77 /\ n + 1 >= 36
      BY <2>1
    <3> QED
      BY <2>5, <2>6, <3>1, <3>2 DEF PortInTurn
  <2> QED
    BY <2>4, <2>7, <2>9, <2>10 DEF Filled
<1>6. CASE n = 78
  <2>1. FillAt(C, G, A, n + 1) = Out("ac", 0, 32)
    BY <1>6, FillCases
  <2>2. AcWrite(32) /\ UNCHANGED <<misc, seq, crtc, gc, dac, plane2>>
    BY <2>1, AcAccess
  <2>3. ~atData
    BY <1>6 DEF Filled, PortInTurn
  <2>4. shown' = TRUE /\ ac' = ac
    BY <2>2, <2>3, IndexBits DEF AcWrite
  <2>5. CrtcFilled(n + 1, C)' /\ GcFilled(n + 1, G)'
    BY <1>6, <2>2 DEF Filled, CrtcFilled, GcFilled
  <2>6. AcFilled(n + 1, A)'
    BY <1>6, <2>4 DEF Filled, AcFilled
  <2>7. PortInTurn(n + 1)'
    BY <1>6, <2>4 DEF PortInTurn
  <2> QED
    BY <2>2, <2>5, <2>6, <2>7 DEF Filled
<1>7. \/ n \in 0 .. 24 \/ n \in 25 .. 33 \/ n \in {34, 77} \/ n = 78
      \/ \E i \in 0 .. 20 : n = 35 + 2 * i
      \/ \E i \in 0 .. 20 : n = 36 + 2 * i
  <2>1. CASE n \in 35 .. 76
    <3>1. CASE n % 2 = 1
      <4>1. (n - 35) \div 2 \in 0 .. 20 /\ n = 35 + 2 * ((n - 35) \div 2)
        BY <2>1, <3>1
      <4> QED
        BY <4>1
    <3>2. CASE n % 2 = 0
      <4>1. (n - 36) \div 2 \in 0 .. 20 /\ n = 36 + 2 * ((n - 36) \div 2)
        BY <2>1, <3>2
      <4> QED
        BY <4>1
    <3> QED
      BY <3>1, <3>2
  <2> QED
    BY <2>1
<1> QED
  BY <1>1, <1>2, <1>3, <1>4, <1>5, <1>6, <1>7

(* When all are made the three parts are as the tables say.                *)
LEMMA FillEnds ==
  ASSUME VgaTyped, NEW C, NEW G, NEW A, Filled(79, C, G, A)
  PROVE  Holds(crtc, C) /\ Holds(gc, G) /\ Holds(ac, A) /\ shown
<1>1. DOMAIN crtc = 0 .. 24 /\ DOMAIN gc = 0 .. 8 /\ DOMAIN ac = 0 .. 20
  BY DEF VgaTyped
<1>2. Holds(crtc, C) /\ Holds(gc, G)
  BY <1>1 DEF Holds, Filled, CrtcFilled, GcFilled
<1>3. ASSUME NEW r \in 0 .. 20 PROVE ac[r] = A[r + 1]
  BY DEF Filled, AcFilled
<1>4. Holds(ac, A)
  BY <1>1, <1>3 DEF Holds
<1> QED
  BY <1>2, <1>4 DEF Filled, PortInTurn

-----------------------------------------------------------------------------
(* What holds when m of the accesses of set_mode3 are made.                *)
FontSet(m) ==
  /\ m \in 0 .. 16 => gc[1] = 0 /\ gc[3] = 0
  /\ m \in 9 .. 16 => gc[5] = 0
  /\ m \in 10 .. 16 => gc[6] = 4
  /\ m \in 12 .. 16 => gc[8] = 255

SeqSet(m) ==
  /\ m >= 3 => seq[1] = 0
  /\ m >= 5 => seq[3] = 0
  /\ m \in 14 .. 18 => seq[2] = 4
  /\ m \in 15 .. 19 => seq[4] = 6
  /\ m = 16 \/ m >= 21 => seq[0] = 3
  /\ m >= 19 => seq[2] = 3
  /\ m >= 20 => seq[4] = 2

TextSet(m) ==
  /\ m >= 1 => misc = \h67
  /\ m >= 17 => plane2 = "font"
  /\ m \in 22 .. 101 => Filled(m - 22, CrtcText, GcText, AcText)
  /\ m >= 102 => Holds(crtc, CrtcText) /\ Holds(gc, GcText) /\ Holds(ac, AcText) /\ shown

TextAt(m) == FontSet(m) /\ SeqSet(m) /\ TextSet(m)

(* The font reaches plane 2.                                               *)
LEMMA FontLoads ==
  ASSUME VgaTyped, FontSet(16), SeqSet(16)
  PROVE  Plane2Alone
<1>1. 2^1 = 2 /\ 2^2 = 4 /\ 2^3 = 8 /\ 2^4 = 16
  OBVIOUS
<1>2. Bit(6, 2) = 1 /\ Bit(6, 3) = 0 /\ Bit(0, 4) = 0 /\ Bit(4, 1) = 0
  BY <1>1 DEF Bit
<1>3. seq[0] = 3 /\ seq[2] = 4 /\ seq[4] = 6
  BY DEF SeqSet
<1>4. gc[1] = 0 /\ gc[3] = 0 /\ gc[8] = 255 /\ gc[5] = 0 /\ gc[6] = 4
  BY DEF FontSet
<1>5. 0 % 4 = 0 /\ (4 \div 4) % 4 = 1
  OBVIOUS
<1> QED
  BY <1>2, <1>3, <1>4, <1>5 DEF Plane2Alone

(* The accesses before the tables, one by one.                             *)
LEMMA TextBeginStep ==
  ASSUME VgaTyped, NEW m \in 0 .. 21, TextAt(m), Access(BeginText[m + 1])
  PROVE  TextAt(m + 1)'
<1>1. PICK q : q = BeginText
  OBVIOUS
<1>2. PICK S : IsAccesses(S)
  BY AccessesAre
<1>3. /\ q[1] = Out("misc", 0, \h67) /\ q[2] = Out("seq", 0, 1) /\ q[3] = Out("seq", 1, 0)
      /\ q[4] = Out("seq", 2, 3) /\ q[5] = Out("seq", 3, 0) /\ q[6] = Out("seq", 4, 2)
      /\ q[7] = Out("seq", 0, 3) /\ q[8] = Out("gc", 4, 2) /\ q[9] = Out("gc", 5, 0)
      /\ q[10] = Out("gc", 6, 4) /\ q[11] = Out("gc", 7, 0) /\ q[12] = Out("gc", 8, 255)
      /\ q[13] = Out("seq", 0, 1) /\ q[14] = Out("seq", 2, 4) /\ q[15] = Out("seq", 4, 6)
      /\ q[16] = Out("seq", 0, 3) /\ q[17] = Out("memory", 0, "font") /\ q[18] = Out("seq", 0, 1)
      /\ q[19] = Out("seq", 2, 3) /\ q[20] = Out("seq", 4, 2) /\ q[21] = Out("seq", 0, 3)
      /\ q[22] = Out("crtc_and", 17, 128)
  BY <1>1, <1>2, TextBegins
<1>4. CASE m = 0
  <2>1. Access(Out("misc", 0, \h67))
    BY <1>1, <1>3, <1>4
  <2>2. misc' = \h67 /\ UNCHANGED <<seq, crtc, gc, ac, acPort, dac, plane2>>
    BY <2>1, MiscAccess
  <2> QED
    BY <1>4, <2>2 DEF TextAt, FontSet, SeqSet, TextSet
<1>5. CASE m = 1
  <2>1. Access(Out("seq", 0, 1))
    BY <1>1, <1>3, <1>5
  <2>2. seq' = [seq EXCEPT ![0] = 1] /\ UNCHANGED <<misc, crtc, gc, ac, acPort, dac, plane2>>
    BY <2>1, SeqAccess
  <2>3. FontSet(2)' /\ SeqSet(2)'
    BY <1>5, <2>2 DEF TextAt, FontSet, SeqSet, VgaTyped
  <2>4. TextSet(2)'
    BY <1>5, <2>2 DEF TextAt, TextSet
  <2> QED
    BY <1>5, <2>3, <2>4 DEF TextAt
<1>6. CASE m = 2
  <2>1. Access(Out("seq", 1, 0))
    BY <1>1, <1>3, <1>6
  <2>2. seq' = [seq EXCEPT ![1] = 0] /\ UNCHANGED <<misc, crtc, gc, ac, acPort, dac, plane2>>
    BY <2>1, SeqAccess
  <2>3. FontSet(3)' /\ SeqSet(3)'
    BY <1>6, <2>2 DEF TextAt, FontSet, SeqSet, VgaTyped
  <2>4. TextSet(3)'
    BY <1>6, <2>2 DEF TextAt, TextSet
  <2> QED
    BY <1>6, <2>3, <2>4 DEF TextAt
<1>7. CASE m = 3
  <2>1. Access(Out("seq", 2, 3))
    BY <1>1, <1>3, <1>7
  <2>2. seq' = [seq EXCEPT ![2] = 3] /\ UNCHANGED <<misc, crtc, gc, ac, acPort, dac, plane2>>
    BY <2>1, SeqAccess
  <2>3. FontSet(4)' /\ SeqSet(4)'
    BY <1>7, <2>2 DEF TextAt, FontSet, SeqSet, VgaTyped
  <2>4. TextSet(4)'
    BY <1>7, <2>2 DEF TextAt, TextSet
  <2> QED
    BY <1>7, <2>3, <2>4 DEF TextAt
<1>8. CASE m = 4
  <2>1. Access(Out("seq", 3, 0))
    BY <1>1, <1>3, <1>8
  <2>2. seq' = [seq EXCEPT ![3] = 0] /\ UNCHANGED <<misc, crtc, gc, ac, acPort, dac, plane2>>
    BY <2>1, SeqAccess
  <2>3. FontSet(5)' /\ SeqSet(5)'
    BY <1>8, <2>2 DEF TextAt, FontSet, SeqSet, VgaTyped
  <2>4. TextSet(5)'
    BY <1>8, <2>2 DEF TextAt, TextSet
  <2> QED
    BY <1>8, <2>3, <2>4 DEF TextAt
<1>9. CASE m = 5
  <2>1. Access(Out("seq", 4, 2))
    BY <1>1, <1>3, <1>9
  <2>2. seq' = [seq EXCEPT ![4] = 2] /\ UNCHANGED <<misc, crtc, gc, ac, acPort, dac, plane2>>
    BY <2>1, SeqAccess
  <2>3. FontSet(6)' /\ SeqSet(6)'
    BY <1>9, <2>2 DEF TextAt, FontSet, SeqSet, VgaTyped
  <2>4. TextSet(6)'
    BY <1>9, <2>2 DEF TextAt, TextSet
  <2> QED
    BY <1>9, <2>3, <2>4 DEF TextAt
<1>10. CASE m = 6
  <2>1. Access(Out("seq", 0, 3))
    BY <1>1, <1>3, <1>10
  <2>2. seq' = [seq EXCEPT ![0] = 3] /\ UNCHANGED <<misc, crtc, gc, ac, acPort, dac, plane2>>
    BY <2>1, SeqAccess
  <2>3. FontSet(7)' /\ SeqSet(7)'
    BY <1>10, <2>2 DEF TextAt, FontSet, SeqSet, VgaTyped
  <2>4. TextSet(7)'
    BY <1>10, <2>2 DEF TextAt, TextSet
  <2> QED
    BY <1>10, <2>3, <2>4 DEF TextAt
<1>11. CASE m = 7
  <2>1. Access(Out("gc", 4, 2))
    BY <1>1, <1>3, <1>11
  <2>2. gc' = [gc EXCEPT ![4] = 2] /\ UNCHANGED <<misc, seq, crtc, ac, acPort, dac, plane2>>
    BY <2>1, GcAccess
  <2>3. FontSet(8)' /\ SeqSet(8)'
    BY <1>11, <2>2 DEF TextAt, FontSet, SeqSet, VgaTyped
  <2>4. TextSet(8)'
    BY <1>11, <2>2 DEF TextAt, TextSet
  <2> QED
    BY <1>11, <2>3, <2>4 DEF TextAt
<1>12. CASE m = 8
  <2>1. Access(Out("gc", 5, 0))
    BY <1>1, <1>3, <1>12
  <2>2. gc' = [gc EXCEPT ![5] = 0] /\ UNCHANGED <<misc, seq, crtc, ac, acPort, dac, plane2>>
    BY <2>1, GcAccess
  <2>3. FontSet(9)' /\ SeqSet(9)'
    BY <1>12, <2>2 DEF TextAt, FontSet, SeqSet, VgaTyped
  <2>4. TextSet(9)'
    BY <1>12, <2>2 DEF TextAt, TextSet
  <2> QED
    BY <1>12, <2>3, <2>4 DEF TextAt
<1>13. CASE m = 9
  <2>1. Access(Out("gc", 6, 4))
    BY <1>1, <1>3, <1>13
  <2>2. gc' = [gc EXCEPT ![6] = 4] /\ UNCHANGED <<misc, seq, crtc, ac, acPort, dac, plane2>>
    BY <2>1, GcAccess
  <2>3. FontSet(10)' /\ SeqSet(10)'
    BY <1>13, <2>2 DEF TextAt, FontSet, SeqSet, VgaTyped
  <2>4. TextSet(10)'
    BY <1>13, <2>2 DEF TextAt, TextSet
  <2> QED
    BY <1>13, <2>3, <2>4 DEF TextAt
<1>14. CASE m = 10
  <2>1. Access(Out("gc", 7, 0))
    BY <1>1, <1>3, <1>14
  <2>2. gc' = [gc EXCEPT ![7] = 0] /\ UNCHANGED <<misc, seq, crtc, ac, acPort, dac, plane2>>
    BY <2>1, GcAccess
  <2>3. FontSet(11)' /\ SeqSet(11)'
    BY <1>14, <2>2 DEF TextAt, FontSet, SeqSet, VgaTyped
  <2>4. TextSet(11)'
    BY <1>14, <2>2 DEF TextAt, TextSet
  <2> QED
    BY <1>14, <2>3, <2>4 DEF TextAt
<1>15. CASE m = 11
  <2>1. Access(Out("gc", 8, 255))
    BY <1>1, <1>3, <1>15
  <2>2. gc' = [gc EXCEPT ![8] = 255] /\ UNCHANGED <<misc, seq, crtc, ac, acPort, dac, plane2>>
    BY <2>1, GcAccess
  <2>3. FontSet(12)' /\ SeqSet(12)'
    BY <1>15, <2>2 DEF TextAt, FontSet, SeqSet, VgaTyped
  <2>4. TextSet(12)'
    BY <1>15, <2>2 DEF TextAt, TextSet
  <2> QED
    BY <1>15, <2>3, <2>4 DEF TextAt
<1>16. CASE m = 12
  <2>1. Access(Out("seq", 0, 1))
    BY <1>1, <1>3, <1>16
  <2>2. seq' = [seq EXCEPT ![0] = 1] /\ UNCHANGED <<misc, crtc, gc, ac, acPort, dac, plane2>>
    BY <2>1, SeqAccess
  <2>3. FontSet(13)' /\ SeqSet(13)'
    BY <1>16, <2>2 DEF TextAt, FontSet, SeqSet, VgaTyped
  <2>4. TextSet(13)'
    BY <1>16, <2>2 DEF TextAt, TextSet
  <2> QED
    BY <1>16, <2>3, <2>4 DEF TextAt
<1>17. CASE m = 13
  <2>1. Access(Out("seq", 2, 4))
    BY <1>1, <1>3, <1>17
  <2>2. seq' = [seq EXCEPT ![2] = 4] /\ UNCHANGED <<misc, crtc, gc, ac, acPort, dac, plane2>>
    BY <2>1, SeqAccess
  <2>3. FontSet(14)' /\ SeqSet(14)'
    BY <1>17, <2>2 DEF TextAt, FontSet, SeqSet, VgaTyped
  <2>4. TextSet(14)'
    BY <1>17, <2>2 DEF TextAt, TextSet
  <2> QED
    BY <1>17, <2>3, <2>4 DEF TextAt
<1>18. CASE m = 14
  <2>1. Access(Out("seq", 4, 6))
    BY <1>1, <1>3, <1>18
  <2>2. seq' = [seq EXCEPT ![4] = 6] /\ UNCHANGED <<misc, crtc, gc, ac, acPort, dac, plane2>>
    BY <2>1, SeqAccess
  <2>3. FontSet(15)' /\ SeqSet(15)'
    BY <1>18, <2>2 DEF TextAt, FontSet, SeqSet, VgaTyped
  <2>4. TextSet(15)'
    BY <1>18, <2>2 DEF TextAt, TextSet
  <2> QED
    BY <1>18, <2>3, <2>4 DEF TextAt
<1>19. CASE m = 15
  <2>1. Access(Out("seq", 0, 3))
    BY <1>1, <1>3, <1>19
  <2>2. seq' = [seq EXCEPT ![0] = 3] /\ UNCHANGED <<misc, crtc, gc, ac, acPort, dac, plane2>>
    BY <2>1, SeqAccess
  <2>3. FontSet(16)' /\ SeqSet(16)'
    BY <1>19, <2>2 DEF TextAt, FontSet, SeqSet, VgaTyped
  <2>4. TextSet(16)'
    BY <1>19, <2>2 DEF TextAt, TextSet
  <2> QED
    BY <1>19, <2>3, <2>4 DEF TextAt
<1>20. CASE m = 16
  <2>1. Access(Out("memory", 0, "font"))
    BY <1>1, <1>3, <1>20
  <2>2. Plane2Alone
    BY <1>20, FontLoads DEF TextAt
  <2>3. plane2' = "font" /\ UNCHANGED <<misc, seq, crtc, gc, ac, acPort, dac>>
    BY <2>1, <2>2, MemoryAccess
  <2> QED
    BY <1>20, <2>3 DEF TextAt, FontSet, SeqSet, TextSet
<1>21. CASE m = 17
  <2>1. Access(Out("seq", 0, 1))
    BY <1>1, <1>3, <1>21
  <2>2. seq' = [seq EXCEPT ![0] = 1] /\ UNCHANGED <<misc, crtc, gc, ac, acPort, dac, plane2>>
    BY <2>1, SeqAccess
  <2>3. FontSet(18)' /\ SeqSet(18)'
    BY <1>21, <2>2 DEF TextAt, FontSet, SeqSet, VgaTyped
  <2>4. TextSet(18)'
    BY <1>21, <2>2 DEF TextAt, TextSet
  <2> QED
    BY <1>21, <2>3, <2>4 DEF TextAt
<1>22. CASE m = 18
  <2>1. Access(Out("seq", 2, 3))
    BY <1>1, <1>3, <1>22
  <2>2. seq' = [seq EXCEPT ![2] = 3] /\ UNCHANGED <<misc, crtc, gc, ac, acPort, dac, plane2>>
    BY <2>1, SeqAccess
  <2>3. FontSet(19)' /\ SeqSet(19)'
    BY <1>22, <2>2 DEF TextAt, FontSet, SeqSet, VgaTyped
  <2>4. TextSet(19)'
    BY <1>22, <2>2 DEF TextAt, TextSet
  <2> QED
    BY <1>22, <2>3, <2>4 DEF TextAt
<1>23. CASE m = 19
  <2>1. Access(Out("seq", 4, 2))
    BY <1>1, <1>3, <1>23
  <2>2. seq' = [seq EXCEPT ![4] = 2] /\ UNCHANGED <<misc, crtc, gc, ac, acPort, dac, plane2>>
    BY <2>1, SeqAccess
  <2>3. FontSet(20)' /\ SeqSet(20)'
    BY <1>23, <2>2 DEF TextAt, FontSet, SeqSet, VgaTyped
  <2>4. TextSet(20)'
    BY <1>23, <2>2 DEF TextAt, TextSet
  <2> QED
    BY <1>23, <2>3, <2>4 DEF TextAt
<1>24. CASE m = 20
  <2>1. Access(Out("seq", 0, 3))
    BY <1>1, <1>3, <1>24
  <2>2. seq' = [seq EXCEPT ![0] = 3] /\ UNCHANGED <<misc, crtc, gc, ac, acPort, dac, plane2>>
    BY <2>1, SeqAccess
  <2>3. FontSet(21)' /\ SeqSet(21)'
    BY <1>24, <2>2 DEF TextAt, FontSet, SeqSet, VgaTyped
  <2>4. TextSet(21)'
    BY <1>24, <2>2 DEF TextAt, TextSet
  <2> QED
    BY <1>24, <2>3, <2>4 DEF TextAt
<1>25. CASE m = 21
  <2>1. Access(Out("crtc_and", 17, 128))
    BY <1>1, <1>3, <1>25
  <2>2. UNCHANGED <<misc, seq, gc, ac, acPort, dac, plane2>>
    BY <2>1, UnlockAccess
  <2>3. ~Locked'
    BY <2>1, Unlocks
  <2>4. Filled(0, CrtcText, GcText, AcText)'
    BY <2>3 DEF Filled, CrtcFilled, GcFilled, AcFilled, PortInTurn
  <2>5. FontSet(22)' /\ SeqSet(22)'
    BY <1>25, <2>2 DEF TextAt, FontSet, SeqSet
  <2>6. TextSet(22)'
    BY <1>25, <2>2, <2>4 DEF TextAt, TextSet
  <2> QED
    BY <1>25, <2>5, <2>6 DEF TextAt
<1> QED
  BY <1>4, <1>5, <1>6, <1>7, <1>8, <1>9, <1>10, <1>11, <1>12, <1>13, <1>14, <1>15, <1>16, <1>17, <1>18, <1>19, <1>20, <1>21, <1>22, <1>23, <1>24, <1>25

(* Those of the tables.                                                    *)
LEMMA TextFillStep ==
  ASSUME VgaTyped, NEW m \in 22 .. 100, TextAt(m),
         Access(FillAt(CrtcText, GcText, AcText, m - 21))
  PROVE  TextAt(m + 1)'
<1>1. PICK n \in 0 .. 78 : n = m - 22
  OBVIOUS
<1>2. Filled(n, CrtcText, GcText, AcText)
  BY <1>1 DEF TextAt, TextSet
<1>3. m - 21 = n + 1 /\ m + 1 - 22 = n + 1
  BY <1>1
<1>4. Filled(n + 1, CrtcText, GcText, AcText)' /\ UNCHANGED <<misc, seq, dac, plane2>>
  BY <1>2, <1>3, FillStep
<1>5. FontSet(m + 1)'
  BY DEF FontSet
<1>6. SeqSet(m + 1)'
  BY <1>4 DEF TextAt, SeqSet
<1>7. misc' = \h67 /\ plane2' = "font"
  BY <1>4 DEF TextAt, TextSet
<1>8. TextSet(m + 1)'
  <2>1. m + 1 <= 101
    OBVIOUS
  <2> QED
    BY <1>3, <1>4, <1>7, <2>1 DEF TextSet
<1> QED
  BY <1>5, <1>6, <1>8 DEF TextAt

(* The cursor goes to the corner, where it was already.                    *)
LEMMA TextEndStep ==
  ASSUME VgaTyped, NEW m \in 101 .. 102, TextAt(m),
         Access(Out("crtc", IF m = 101 THEN 15 ELSE 14, 0))
  PROVE  TextAt(m + 1)'
<1>1. /\ misc = \h67 /\ plane2 = "font"
      /\ Holds(crtc, CrtcText) /\ Holds(gc, GcText) /\ Holds(ac, AcText) /\ shown
  <2>1. CASE m = 101
    <3>1. Filled(79, CrtcText, GcText, AcText)
      BY <2>1 DEF TextAt, TextSet
    <3> QED
      BY <2>1, <3>1, FillEnds DEF TextAt, TextSet
  <2>2. CASE m = 102
    BY <2>2 DEF TextAt, TextSet
  <2> QED
    BY <2>1, <2>2
<1>2. PICK r \in {14, 15} : Access(Out("crtc", r, 0))
  OBVIOUS
<1>3. crtc' = [crtc EXCEPT ![r] = 0] /\ UNCHANGED <<misc, seq, gc, ac, acPort, dac, plane2>>
  BY <1>2, CrtcAccess DEF CrtcWrite
<1>4. CrtcText[15] = 0 /\ CrtcText[16] = 0
  BY DEF CrtcText
<1>5. Holds(crtc, CrtcText)'
  <2>1. DOMAIN crtc' = DOMAIN crtc /\ DOMAIN crtc = 0 .. 24
    BY <1>3 DEF VgaTyped
  <2>2. ASSUME NEW i \in 0 .. 24 PROVE crtc'[i] = CrtcText[i + 1]
    <3>1. CASE i = r
      BY <1>3, <1>4, <3>1 DEF VgaTyped
    <3>2. CASE i # r
      BY <1>1, <1>3, <2>1, <3>2 DEF Holds, VgaTyped
    <3> QED
      BY <3>1, <3>2
  <2> QED
    BY <2>1, <2>2 DEF Holds
<1>6. Holds(gc, GcText)' /\ Holds(ac, AcText)' /\ shown'
  BY <1>1, <1>3 DEF Holds, acPort
<1>7. SeqSet(m + 1)'
  BY <1>3 DEF TextAt, SeqSet
<1> QED
  BY <1>1, <1>3, <1>5, <1>6, <1>7 DEF TextAt, FontSet, TextSet

(* Every access of a program is one the VGA has.                           *)
LEMMA ProgramEntry ==
  ASSUME NEW S, NEW q, NEW n, IsProgram(S, q, n), NEW i \in 1 .. n
  PROVE  q[i] \in S
  BY ElementOfSeq DEF IsProgram

-----------------------------------------------------------------------------
(* What holds when n of the accesses of the splash screen are made.        *)
SplashAt(n) ==
  /\ n \in 35 .. 100 => gc[1] = 0
  /\ n \in 37 .. 100 => gc[3] = 0
  /\ n >= 100 => TextAt(n - 100)

(* Mode 13h has to leave the graphics controller as load_font needs it: it *)
(* does not write two of its registers.                                    *)
LEMMA SplashStep ==
  ASSUME VgaTyped, NEW n \in 0 .. 202, SplashAt(n), Access(KernelShowBootSplash[n + 1])
  PROVE  VgaTyped' /\ SplashAt(n + 1)'
<1>1. PICK q : q = KernelShowBootSplash
  OBVIOUS
<1>2. PICK S : S = Accesses /\ IsAccesses(S)
  BY AccessesAre
<1>3. /\ IsProgram(S, q, 203)
      /\ \A k \in 1 .. 79 : q[8 + k] = FillAt(Crtc13h, Gc13h, Ac13h, k)
      /\ \A k \in 88 .. 99 : q[k].port = "dac"
      /\ q[100] = Out("memory", 0, "pixels")
      /\ \A k \in 1 .. 22 : q[100 + k] = BeginText[k]
      /\ \A k \in 1 .. 79 : q[122 + k] = FillAt(CrtcText, GcText, AcText, k)
      /\ q[202] = Out("crtc", 15, 0) /\ q[203] = Out("crtc", 14, 0)
  BY <1>1, <1>2, SplashProgram
<1>4. PICK i \in 1 .. 203 : i = n + 1
  OBVIOUS
<1>5. Access(q[i])
  BY <1>1, <1>4
<1>6. VgaTyped'
  <2>1. IsProgram(S, q, 203)
    BY <1>3
  <2>2. q[i] \in S
    BY <2>1, ProgramEntry
  <2>3. q[i] \in Accesses
    BY <1>2, <2>2
  <2> QED
    BY <1>5, <2>3, AccessTyped
<1>7. ASSUME n \in 0 .. 32 PROVE SplashAt(n + 1)'
  BY <1>7 DEF SplashAt
<1>8. ASSUME n \in 33 .. 41 PROVE SplashAt(n + 1)'
  <2>1. PICK j \in 1 .. 9 : i = 33 + j /\ n = 32 + j
    BY <1>4, <1>8
  <2>2. PICK G : G = Gc13h
    OBVIOUS
  <2>3. PICK k \in 1 .. 79 : k = j + 25 /\ i = 8 + k
    BY <2>1
  <2>4. q[i] = FillAt(Crtc13h, G, Ac13h, k)
    BY <1>3, <2>2, <2>3
  <2>5. FillAt(Crtc13h, G, Ac13h, k) = OutAt("gc", G, j)
    BY <2>3, FillCases
  <2>6. Access(Out("gc", j - 1, G[j]))
    BY <1>5, <2>4, <2>5 DEF OutAt
  <2>7. gc' = [gc EXCEPT ![j - 1] = G[j]]
    BY <2>6, GcAccess
  <2>8. G[2] = 0 /\ G[4] = 0
    BY <2>2 DEF Gc13h
  <2>9. n + 1 \in 35 .. 100 => gc'[1] = 0
    BY <2>1, <2>7, <2>8 DEF SplashAt, VgaTyped
  <2>10. n + 1 \in 37 .. 100 => gc'[3] = 0
    BY <2>1, <2>7, <2>8 DEF SplashAt, VgaTyped
  <2> QED
    BY <1>8, <2>9, <2>10 DEF SplashAt
<1>9. ASSUME n \in 42 .. 99 PROVE SplashAt(n + 1)'
  <2>1. gc' = gc
    <3>1. CASE n \in 42 .. 86
      <4>1. PICK k \in 35 .. 79 : i = 8 + k
        <5>1. i - 8 \in 35 .. 79 /\ i = 8 + (i - 8)
          BY <1>4, <3>1
        <5> QED
          BY <5>1
      <4>2. q[i] = FillAt(Crtc13h, Gc13h, Ac13h, k)
        BY <1>3, <4>1
      <4>3. \/ FillAt(Crtc13h, Gc13h, Ac13h, k) = Out("status_in", 0, 0)
            \/ \E v : FillAt(Crtc13h, Gc13h, Ac13h, k) = Out("ac", 0, v)
        <5>1. CASE k \in {35, 78, 79}
          BY <5>1, FillCases
        <5>2. CASE k \in 36 .. 77
          <6>1. PICK j \in 1 .. 42 : k = j + 35
            <7>1. k - 35 \in 1 .. 42 /\ k = (k - 35) + 35
              BY <5>2
            <7> QED
              BY <7>1
          <6>2. FillAt(Crtc13h, Gc13h, Ac13h, k) = InTurn(Ac13h, j)
            BY <6>1, FillCases
          <6> QED
            BY <6>2 DEF InTurn
        <5> QED
          BY <5>1, <5>2
      <4> QED
        BY <1>5, <4>2, <4>3, StatusAccess, AcAccess
    <3>2. CASE n \in 87 .. 98
      <4>1. q[i].port = "dac"
        BY <1>3, <1>4, <3>2
      <4> QED
        BY <1>5, <4>1 DEF Access
    <3>3. CASE n = 99
      BY <1>3, <1>4, <1>5, <3>3, MemoryAccess
    <3> QED
      BY <1>9, <3>1, <3>2, <3>3
  <2>2. n + 1 \in 35 .. 100 => gc'[1] = 0
    BY <1>9, <2>1 DEF SplashAt
  <2>3. n + 1 \in 37 .. 100 => gc'[3] = 0
    BY <1>9, <2>1 DEF SplashAt
  <2>4. n + 1 >= 100 => TextAt(n + 1 - 100)'
    <3>1. SUFFICES ASSUME n = 99 PROVE TextAt(0)'
      BY <1>9
    <3>2. gc'[1] = 0 /\ gc'[3] = 0
      BY <2>2, <2>3, <3>1
    <3> QED
      BY <3>2 DEF TextAt, FontSet, SeqSet, TextSet
  <2> QED
    BY <2>2, <2>3, <2>4 DEF SplashAt
<1>10. ASSUME n \in 100 .. 202 PROVE SplashAt(n + 1)'
  <2>1. PICK m \in 0 .. 102 : n = 100 + m /\ i = 100 + (m + 1)
    <3>1. n - 100 \in 0 .. 102 /\ n = 100 + (n - 100) /\ i = 100 + (n - 100 + 1)
      BY <1>4, <1>10
    <3> QED
      BY <3>1
  <2>2. TextAt(m)
    <3>1. n - 100 = m
      BY <2>1
    <3> QED
      BY <1>10, <3>1 DEF SplashAt
  <2>3. TextAt(m + 1)'
    <3>1. CASE m \in 0 .. 21
      <4>1. PICK k \in 1 .. 22 : k = m + 1
        BY <3>1
      <4>2. q[i] = BeginText[k]
        BY <1>3, <2>1, <4>1
      <4> QED
        BY <1>5, <2>2, <3>1, <4>1, <4>2, TextBeginStep
    <3>2. CASE m \in 22 .. 100
      <4>1. PICK k \in 1 .. 79 : k = m - 21 /\ i = 122 + k
        BY <2>1, <3>2
      <4>2. q[i] = FillAt(CrtcText, GcText, AcText, k)
        BY <1>3, <4>1
      <4> QED
        BY <1>5, <2>2, <3>2, <4>1, <4>2, TextFillStep
    <3>3. CASE m = 101
      BY <1>3, <1>5, <2>1, <2>2, <3>3, TextEndStep
    <3>4. CASE m = 102
      BY <1>3, <1>5, <2>1, <2>2, <3>4, TextEndStep
    <3> QED
      BY <3>1, <3>2, <3>3, <3>4
  <2>4. n + 1 - 100 = m + 1 /\ n + 1 \notin 35 .. 100
    BY <2>1
  <2> QED
    BY <2>3, <2>4 DEF SplashAt
<1> QED
  BY <1>6, <1>7, <1>8, <1>9, <1>10

(* At the end the screen shows text.                                       *)
LEMMA SplashEnds ==
  ASSUME VgaTyped, SplashAt(203)
  PROVE  InTextMode
<1>1. TextAt(103)
  <2>1. 203 - 100 = 103 /\ 203 >= 100
    OBVIOUS
  <2> QED
    BY <2>1 DEF SplashAt
<1>2. seq[0] = 3 /\ seq[1] = 0 /\ seq[2] = 3 /\ seq[3] = 0 /\ seq[4] = 2
  BY <1>1 DEF TextAt, SeqSet
<1>3. Holds(seq, SeqText)
  <2>1. /\ SeqText[0 + 1] = 3 /\ SeqText[1 + 1] = 0 /\ SeqText[2 + 1] = 3
        /\ SeqText[3 + 1] = 0 /\ SeqText[4 + 1] = 2
    BY DEF SeqText
  <2>2. DOMAIN seq = 0 .. 4
    BY DEF VgaTyped
  <2>3. \A r \in 0 .. 4 : r \in {0, 1, 2, 3, 4}
    OBVIOUS
  <2>4. ASSUME NEW r \in 0 .. 4 PROVE seq[r] = SeqText[r + 1]
    BY <1>2, <2>1, <2>3
  <2> QED
    BY <2>2, <2>4 DEF Holds
<1> QED
  BY <1>1, <1>3 DEF TextAt, TextSet, InTextMode

-----------------------------------------------------------------------------
(* What holds when n of the accesses of the driver are made.               *)
DesktopAt(n) ==
  /\ n \in 3 .. 8 => ~Locked
  /\ n >= 4 => misc = \hE3
  /\ \A r \in 0 .. 4 : n > 4 + r => seq[r] = seq_regs[r + 1]
  /\ n \in 9 .. 88 => Filled(n - 9, crtc_regs, gc_regs, ac_regs)
  /\ n >= 88 => Holds(crtc, crtc_regs) /\ Holds(gc, gc_regs) /\ Holds(ac, ac_regs) /\ shown
  /\ \A r \in 0 .. 15 : n > 88 + r => dac[r] = Colours[r + 1]

(* Step by step the registers get the values of the driver.                *)
LEMMA DesktopStep ==
  ASSUME VgaTyped, NEW n \in 0 .. 103, DesktopAt(n),
         Access((VgaSetMode \o VgaInitializePalette)[n + 1])
  PROVE  VgaTyped' /\ DesktopAt(n + 1)'
<1>1. PICK q : q = VgaSetMode \o VgaInitializePalette
  OBVIOUS
<1>2. PICK S : S = Accesses /\ IsAccesses(S)
  BY AccessesAre
<1>3. /\ IsProgram(S, q, 104)
      /\ \A k \in 1 .. 9 : q[k] = BeginDesktop[k]
      /\ \A k \in 1 .. 79 : q[9 + k] = FillAt(crtc_regs, gc_regs, ac_regs, k)
      /\ \A k \in 1 .. 16 : q[88 + k] = OutAt("dac", Colours, k)
  BY <1>1, <1>2, DesktopProgram
<1>4. PICK b : b = BeginDesktop
  OBVIOUS
<1>5. /\ b[1] = Out("seq", 0, 1) /\ b[2] = Out("seq", 0, 3)
      /\ b[3] = Out("crtc_and", 17, 128) /\ b[4] = Out("misc", 0, \hE3)
      /\ \A k \in 1 .. 5 : b[4 + k] = OutAt("seq", seq_regs, k)
  BY <1>2, <1>4, DesktopBegins
<1>6. PICK i \in 1 .. 104 : i = n + 1
  OBVIOUS
<1>7. Access(q[i])
  BY <1>1, <1>6
<1>8. VgaTyped'
  <2>1. IsProgram(S, q, 104)
    BY <1>3
  <2>2. q[i] \in S
    BY <2>1, ProgramEntry
  <2>3. q[i] \in Accesses
    BY <1>2, <2>2
  <2> QED
    BY <1>7, <2>3, AccessTyped
<1>9. ASSUME n \in 0 .. 8 PROVE DesktopAt(n + 1)'
  <2>1. Access(b[i])
    <3>1. i \in 1 .. 9
      BY <1>6, <1>9
    <3>2. q[i] = b[i]
      BY <1>3, <1>4, <3>1
    <3> QED
      BY <1>7, <3>2
  <2>2. CASE n \in 0 .. 1
    <3>1. /\ n + 1 \notin 3 .. 8 /\ n + 1 \notin 9 .. 88 /\ ~(n + 1 >= 4) /\ ~(n + 1 >= 88)
          /\ \A r \in 0 .. 4 : ~(n + 1 > 4 + r)
          /\ \A r \in 0 .. 15 : ~(n + 1 > 88 + r)
      BY <2>2
    <3> QED
      BY <3>1 DEF DesktopAt
  <2>3. CASE n = 2
    <3>1. ~Locked'
      BY <1>5, <1>6, <2>1, <2>3, Unlocks
    <3> QED
      BY <2>3, <3>1 DEF DesktopAt
  <2>4. CASE n = 3
    <3>1. misc' = \hE3 /\ crtc' = crtc
      BY <1>5, <1>6, <2>1, <2>4, MiscAccess
    <3>2. ~Locked'
      BY <2>4, <3>1 DEF DesktopAt, Locked
    <3> QED
      BY <2>4, <3>1, <3>2 DEF DesktopAt
  <2>5. CASE n \in 4 .. 8
    <3>1. PICK k \in 1 .. 5 : i = 4 + k /\ n = 3 + k
      BY <1>6, <2>5
    <3>2. PICK T : T = seq_regs
      OBVIOUS
    <3>3. Access(Out("seq", k - 1, T[k]))
      BY <1>5, <2>1, <3>1, <3>2 DEF OutAt
    <3>4. seq' = [seq EXCEPT ![k - 1] = T[k]] /\ UNCHANGED <<misc, crtc>>
      BY <3>3, SeqAccess
    <3>5. ~Locked'
      BY <2>5, <3>4 DEF DesktopAt, Locked
    <3>6. ASSUME NEW r \in 0 .. 4, n + 1 > 4 + r PROVE seq'[r] = T[r + 1]
      <4>1. CASE r = k - 1
        BY <3>4, <4>1 DEF VgaTyped
      <4>2. CASE r # k - 1
        <5>1. n > 4 + r
          BY <3>1, <3>6, <4>2
        <5>2. seq[r] = T[r + 1]
          BY <3>2, <5>1 DEF DesktopAt
        <5> QED
          BY <3>4, <4>2, <5>2 DEF VgaTyped
      <4> QED
        BY <4>1, <4>2
    <3>7. misc' = \hE3
      BY <2>5, <3>4 DEF DesktopAt
    <3>8. n + 1 \in 9 .. 88 => Filled(n + 1 - 9, crtc_regs, gc_regs, ac_regs)'
      <4>1. SUFFICES ASSUME n = 8 PROVE Filled(0, crtc_regs, gc_regs, ac_regs)'
        BY <2>5
      <4> QED
        BY <3>5 DEF Filled, CrtcFilled, GcFilled, AcFilled, PortInTurn
    <3> QED
      BY <2>5, <3>2, <3>5, <3>6, <3>7, <3>8 DEF DesktopAt
  <2> QED
    BY <1>9, <2>2, <2>3, <2>4, <2>5
<1>10. ASSUME n \in 9 .. 87 PROVE DesktopAt(n + 1)'
  <2>1. PICK m \in 0 .. 78 : m = n - 9 /\ i = 9 + (m + 1)
    BY <1>6, <1>10
  <2>2. Filled(m, crtc_regs, gc_regs, ac_regs)
    BY <1>10, <2>1 DEF DesktopAt
  <2>3. PICK k \in 1 .. 79 : k = m + 1 /\ i = 9 + k
    BY <2>1
  <2>4. q[i] = FillAt(crtc_regs, gc_regs, ac_regs, k)
    BY <1>3, <2>3
  <2>5. Access(FillAt(crtc_regs, gc_regs, ac_regs, m + 1))
    BY <1>7, <2>3, <2>4
  <2>6. Filled(m + 1, crtc_regs, gc_regs, ac_regs)' /\ UNCHANGED <<misc, seq, dac, plane2>>
    BY <2>2, <2>5, FillStep
  <2>7. n + 1 - 9 = m + 1
    BY <2>1
  <2>8. n + 1 >= 88 =>
          Holds(crtc, crtc_regs)' /\ Holds(gc, gc_regs)' /\ Holds(ac, ac_regs)' /\ shown'
    <3>1. SUFFICES ASSUME m = 78
          PROVE Holds(crtc, crtc_regs)' /\ Holds(gc, gc_regs)' /\ Holds(ac, ac_regs)' /\ shown'
      BY <1>10, <2>1
    <3>2. Filled(79, crtc_regs, gc_regs, ac_regs)'
      BY <2>6, <3>1
    <3>3. DOMAIN crtc' = 0 .. 24 /\ DOMAIN gc' = 0 .. 8 /\ DOMAIN ac' = 0 .. 20
      BY <1>8 DEF VgaTyped
    <3>4. Holds(crtc, crtc_regs)' /\ Holds(gc, gc_regs)'
      BY <3>2, <3>3 DEF Holds, Filled, CrtcFilled, GcFilled
    <3>5. ASSUME NEW r \in 0 .. 20 PROVE ac'[r] = ac_regs[r + 1]
      <4>1. 79 > 36 + 2 * r
        OBVIOUS
      <4>2. AcFilled(79, ac_regs)'
        BY <3>2 DEF Filled
      <4> QED
        BY <4>1, <4>2 DEF AcFilled
    <3>6. Holds(ac, ac_regs)'
      BY <3>3, <3>5 DEF Holds
    <3> QED
      BY <3>2, <3>4, <3>6 DEF Filled, PortInTurn
  <2>9. misc' = \hE3 /\ \A r \in 0 .. 4 : seq'[r] = seq_regs[r + 1]
    BY <1>10, <2>6 DEF DesktopAt
  <2>10. \A r \in 0 .. 15 : ~(n + 1 > 88 + r)
    BY <1>10
  <2> QED
    BY <1>10, <2>6, <2>7, <2>8, <2>9, <2>10 DEF DesktopAt
<1>11. ASSUME n \in 88 .. 103 PROVE DesktopAt(n + 1)'
  <2>1. PICK k \in 1 .. 16 : i = 88 + k /\ n = 87 + k
    <3>1. i - 88 \in 1 .. 16 /\ i = 88 + (i - 88) /\ n = 87 + (i - 88)
      BY <1>6, <1>11
    <3> QED
      BY <3>1
  <2>2. PICK T : T = Colours
    OBVIOUS
  <2>3. Access(Out("dac", k - 1, T[k]))
    BY <1>3, <1>7, <2>1, <2>2 DEF OutAt
  <2>4. /\ dac' = [dac EXCEPT ![k - 1] = T[k]]
        /\ UNCHANGED <<misc, seq, crtc, gc, ac, shown>>
    BY <2>3, DacAccess DEF acPort
  <2>5. ASSUME NEW r \in 0 .. 15, n + 1 > 88 + r PROVE dac'[r] = T[r + 1]
    <3>1. r \in DacUsed
      BY DEF DacUsed
    <3>2. CASE r = k - 1
      BY <2>4, <3>1, <3>2 DEF VgaTyped
    <3>3. CASE r # k - 1
      <4>1. n > 88 + r
        BY <2>1, <2>5, <3>3
      <4>2. dac[r] = T[r + 1]
        BY <2>2, <4>1 DEF DesktopAt
      <4> QED
        BY <2>4, <3>1, <3>3, <4>2 DEF VgaTyped
    <3> QED
      BY <3>2, <3>3
  <2>6. Holds(crtc, crtc_regs)' /\ Holds(gc, gc_regs)' /\ Holds(ac, ac_regs)' /\ shown'
    BY <1>11, <2>4 DEF DesktopAt, Holds
  <2>7. misc' = \hE3 /\ \A r \in 0 .. 4 : seq'[r] = seq_regs[r + 1]
    BY <1>11, <2>4 DEF DesktopAt
  <2>8. n + 1 \notin 3 .. 8 /\ n + 1 \notin 9 .. 88
    BY <1>11
  <2> QED
    BY <2>2, <2>5, <2>6, <2>7, <2>8 DEF DesktopAt
<1> QED
  BY <1>8, <1>9, <1>10, <1>11

(* At the end the screen shows the desktop.                                *)
LEMMA DesktopEnds ==
  ASSUME VgaTyped, DesktopAt(104)
  PROVE  InGraphicsMode
<1>1. DOMAIN seq = 0 .. 4
  BY DEF VgaTyped
<1>2. Holds(seq, seq_regs)
  BY <1>1 DEF DesktopAt, Holds
<1>3. \A r \in 0 .. 15 : dac[r] = Colours[r + 1]
  BY DEF DesktopAt
<1> QED
  BY <1>2, <1>3 DEF DesktopAt, InGraphicsMode

-----------------------------------------------------------------------------
(* The stages in which kernel_main finds text on the screen, and those in  *)
(* which it finds the desktop's mode.                                      *)
TextStages ==
  {"header", "multiboot", "hal_init", "io_init", "pmm_init", "vmm_init", "tss_init", "proc_init",
   "mouse_init", "mouse_poll", "driver", "panic"}
DesktopStages == {"processes", "scheduler_init", "sti", "running"}

VgaInv ==
  /\ VgaTyped /\ done \in Nat
  /\ stage = "splash" => done <= 203 /\ SplashAt(done)
  /\ stage \in TextStages => InTextMode
  /\ stage = "vga_mode" => done <= 104 /\ DesktopAt(done)
  /\ stage \in DesktopStages => InGraphicsMode

(* Whatever is in the registers, no stage has found them yet.              *)
LEMMA VgaInit == KernelInit => VgaInv
<1> SUFFICES ASSUME KernelInit PROVE VgaInv
  OBVIOUS
<1>1. stage = "gdt_init" /\ done = 0
  BY DEF KernelInit, Init
<1>2. PICK f \in Fills, b \in BOOLEAN :
        /\ seq = [r \in 0 .. 4 |-> f] /\ crtc = [r \in 0 .. 24 |-> f]
        /\ gc = [r \in 0 .. 8 |-> f] /\ ac = [r \in 0 .. 20 |-> f]
        /\ acIndex = 0 /\ atData = b /\ dac = TextDac
  BY DEF KernelInit, VgaStart
<1>3. f \in Int
  BY FillsAssumption
<1>4. TextDac \in [DacUsed -> Names]
  <2>1. ASSUME NEW i \in DacUsed PROVE TextDac[i] \in Names
    <3>1. CASE i = 20
      BY <3>1 DEF TextDac, Names
    <3>2. CASE i >= 56
      <4>1. i - 56 + 9 \in 1 .. 16
        BY <3>2 DEF DacUsed
      <4>2. TextDac[i] = Colours[i - 56 + 9]
        BY <3>2 DEF TextDac
      <4> QED
        BY <4>1, <4>2 DEF Names
    <3>3. CASE i \in 0 .. 7 \ {6}
      <4>1. i + 1 \in 1 .. 16
        BY <3>3
      <4>2. TextDac[i] = Colours[i + 1]
        BY <3>3 DEF TextDac
      <4> QED
        BY <4>1, <4>2 DEF Names
    <3>4. CASE i # 20 /\ ~(i >= 56) /\ i \notin 0 .. 7 \ {6}
      BY <3>4 DEF TextDac, Names
    <3> QED
      BY <3>1, <3>2, <3>3, <3>4
  <2>2. TextDac = [i \in DacUsed |-> TextDac[i]]
    BY DEF TextDac
  <2> QED
    BY <2>1, <2>2
<1>5. VgaTyped
  BY <1>2, <1>3, <1>4 DEF VgaTyped
<1> QED
  BY <1>1, <1>5 DEF VgaInv, TextStages, DesktopStages

-----------------------------------------------------------------------------
(* The programs belong to their stages.                                    *)
LEMMA SplashLength ==
  ASSUME stage = "splash"
  PROVE  ProgramOf(stage) = KernelShowBootSplash /\ Len(ProgramOf(stage)) = 203
<1>1. PICK p : p = KernelShowBootSplash
  OBVIOUS
<1>2. Len(p) = 203
  BY <1>1, AccessesAre, SplashProgram DEF IsProgram
<1>3. ProgramOf(stage) = KernelShowBootSplash
  BY DEF ProgramOf
<1> QED
  BY <1>1, <1>2, <1>3

LEMMA DesktopLength ==
  ASSUME stage = "vga_mode"
  PROVE  ProgramOf(stage) = VgaSetMode \o VgaInitializePalette /\ Len(ProgramOf(stage)) = 104
<1>1. PICK q : q = VgaSetMode \o VgaInitializePalette
  OBVIOUS
<1>2. Len(q) = 104
  BY <1>1, AccessesAre, DesktopProgram DEF IsProgram
<1>3. ProgramOf(stage) = q
  BY <1>1 DEF ProgramOf
<1> QED
  BY <1>1, <1>2, <1>3

LEMMA NoLength ==
  ASSUME stage \notin {"splash", "vga_mode"}
  PROVE  Len(ProgramOf(stage)) = 0
<1>1. ProgramOf(stage) = <<>>
  BY DEF ProgramOf
<1> QED
  BY <1>1

(* So a stage with a program goes on until all of it is sent.              *)
LEMMA ProgramSent ==
  /\ stage = "splash" => (Pending <=> done < 203)
  /\ stage = "vga_mode" => (Pending <=> done < 104)
  /\ stage \notin {"splash", "vga_mode"} => (Pending <=> done < 0)
<1>1. stage = "splash" => (Pending <=> done < 203)
  BY SplashLength DEF Pending
<1>2. stage = "vga_mode" => (Pending <=> done < 104)
  <2>1. stage = "vga_mode" => Len(ProgramOf(stage)) = 104
    BY DesktopLength
  <2> QED
    BY <2>1 DEF Pending
<1>3. stage \notin {"splash", "vga_mode"} => (Pending <=> done < 0)
  BY NoLength DEF Pending
<1> QED
  BY <1>1, <1>2, <1>3

(* A stage with a program makes its next access.                           *)
LEMMA VgaStepInv ==
  ASSUME VgaInv, VgaStep
  PROVE  VgaInv'
<1>1. Access(ProgramOf(stage)[done + 1]) /\ Pending /\ done' = done + 1 /\ stage' = stage
  BY DEF VgaStep, vars
<1>2. CASE stage = "splash"
  <2>1. done \in 0 .. 202 /\ VgaTyped /\ SplashAt(done)
    BY <1>1, <1>2, ProgramSent DEF VgaInv
  <2>2. Access(KernelShowBootSplash[done + 1])
    BY <1>1, <1>2, SplashLength
  <2>3. PICK n \in 0 .. 202 : n = done
    BY <2>1
  <2>4. VgaTyped' /\ SplashAt(n + 1)'
    BY <2>1, <2>2, <2>3, SplashStep
  <2>5. SplashAt(done)'
    BY <1>1, <2>3, <2>4 DEF SplashAt, TextAt, FontSet, SeqSet, TextSet
  <2> QED
    BY <1>1, <1>2, <2>1, <2>4, <2>5 DEF VgaInv, TextStages, DesktopStages
<1>3. CASE stage = "vga_mode"
  <2>1. done \in 0 .. 103 /\ VgaTyped /\ DesktopAt(done)
    BY <1>1, <1>3, ProgramSent DEF VgaInv
  <2>2. Access((VgaSetMode \o VgaInitializePalette)[done + 1])
    BY <1>1, <1>3, DesktopLength
  <2>3. PICK n \in 0 .. 103 : n = done
    BY <2>1
  <2>4. VgaTyped' /\ DesktopAt(n + 1)'
    BY <2>1, <2>2, <2>3, DesktopStep
  <2>5. DesktopAt(done)'
    BY <1>1, <2>3, <2>4 DEF DesktopAt
  <2> QED
    BY <1>1, <1>3, <2>1, <2>4, <2>5 DEF VgaInv, TextStages, DesktopStages
<1>4. CASE stage \notin {"splash", "vga_mode"}
  BY <1>1, <1>4, ProgramSent DEF VgaInv
<1> QED
  BY <1>2, <1>3, <1>4

(* The order kernel_main goes through its stages in.                       *)
LEMMA StageMoves ==
  ASSUME Next
  PROVE  \/ stage' = stage
         \/ stage' \in {"pic_remap", "idt", "unmask", "splash"}
         \/ stage = "splash" /\ stage' = "header"
         \/ stage \in TextStages /\ stage' \in TextStages
         \/ stage = "driver" /\ stage' = "vga_mode"
         \/ stage = "vga_mode" /\ stage' = "processes"
         \/ stage \in DesktopStages /\ stage' \in DesktopStages
<1>1. CASE BootStep
  <2>1. CASE GdtInit \/ Icw1 \/ Icw2 \/ Icw3and4 \/ MaskAll \/ IdtInit \/ UnmaskTimer
    BY <2>1 DEF GdtInit, Icw1, Icw2, Icw3and4, MaskAll, IdtInit, UnmaskTimer
  <2>2. CASE VmmInit \/ TssInit \/ ProcInit \/ MouseInit \/ Panic
    BY <2>2 DEF VmmInit, TssInit, ProcInit, MouseInit, Panic, TextStages
  <2>3. CASE Quiet
    BY <2>3 DEF Quiet, Follows, TextStages, DesktopStages
  <2>4. CASE IdleLoop
    BY <2>4 DEF IdleLoop, DesktopStages
  <2> QED
    BY <1>1, <2>1, <2>2, <2>3, <2>4 DEF BootStep
<1>2. CASE Withdraw \/ Accept \/ \E l \in Lines : Raise(l)
  BY <1>2 DEF Withdraw, Accept, Enter, Raise
<1>3. CASE StubStep
  BY <1>3 DEF StubStep, Acknowledge, Return, Halt, SyscallStub
<1>4. CASE ThreadStep
  BY <1>4 DEF ThreadStep, Cli, Sti, SyscallEnter, Yield, SyscallReturn, Exit, Fault, IntN, Enter
<1>5. CASE UNCHANGED vars
  BY <1>5 DEF vars
<1> QED
  BY <1>1, <1>2, <1>3, <1>4, <1>5 DEF Next

(* The registers left alone, what is said of them stays.                   *)
LEMMA VgaRests ==
  ASSUME UNCHANGED vgaVars
  PROVE  /\ VgaTyped => VgaTyped'
         /\ InTextMode => InTextMode'
         /\ InGraphicsMode => InGraphicsMode'
         /\ SplashAt(done) /\ done' = done => SplashAt(done)'
         /\ DesktopAt(done) /\ done' = done => DesktopAt(done)'
         /\ done' = 0 => SplashAt(done)' /\ DesktopAt(done)'
<1>1. UNCHANGED <<misc, seq, crtc, gc, ac, acIndex, atData, shown, dac, plane2>>
  BY DEF vgaVars, acPort
<1>2. VgaTyped => VgaTyped'
  BY <1>1 DEF VgaTyped
<1>3. InTextMode => InTextMode'
  BY <1>1 DEF InTextMode, Holds
<1>4. InGraphicsMode => InGraphicsMode'
  BY <1>1 DEF InGraphicsMode, Holds
<1>5. SplashAt(done) /\ done' = done => SplashAt(done)'
  BY <1>1 DEF SplashAt, TextAt, FontSet, SeqSet, TextSet, Filled, CrtcFilled, GcFilled, AcFilled,
              PortInTurn, Locked
<1>6. DesktopAt(done) /\ done' = done => DesktopAt(done)'
  BY <1>1 DEF DesktopAt, Holds, Filled, CrtcFilled, GcFilled, AcFilled, PortInTurn, Locked
<1>7. done' = 0 => SplashAt(done)' /\ DesktopAt(done)'
  BY DEF SplashAt, DesktopAt
<1> QED
  BY <1>2, <1>3, <1>4, <1>5, <1>6, <1>7

(* The other steps leave the VGA alone, and a program is complete before   *)
(* the next stage.                                                         *)
LEMMA GoesInv ==
  ASSUME VgaInv, Goes(Next)
  PROVE  VgaInv'
<1>1. /\ ~Pending /\ Next /\ UNCHANGED vgaVars
      /\ done' = IF stage' = stage THEN done ELSE 0
  BY DEF Goes
<1>2. VgaTyped' /\ done' \in Nat
  BY <1>1, VgaRests DEF VgaInv
<1>3. CASE stage' = stage
  BY <1>1, <1>2, <1>3, VgaRests DEF VgaInv
<1>4. CASE stage' # stage /\ stage' \in {"pic_remap", "idt", "unmask", "splash"}
  BY <1>1, <1>2, <1>4, VgaRests DEF VgaInv, TextStages, DesktopStages
<1>5. CASE stage = "splash" /\ stage' = "header"
  <2>1. done = 203 /\ SplashAt(done)
    BY <1>1, <1>5, ProgramSent DEF VgaInv
  <2>2. InTextMode'
    BY <1>1, <2>1, SplashEnds, VgaRests DEF VgaInv
  <2> QED
    BY <1>2, <1>5, <2>2 DEF VgaInv, TextStages, DesktopStages
<1>6. CASE stage \in TextStages /\ stage' \in TextStages
  BY <1>1, <1>2, <1>6, VgaRests DEF VgaInv, TextStages, DesktopStages
<1>7. CASE stage = "driver" /\ stage' = "vga_mode"
  BY <1>1, <1>2, <1>7, VgaRests DEF VgaInv, TextStages, DesktopStages
<1>8. CASE stage = "vga_mode" /\ stage' = "processes"
  <2>1. done = 104 /\ DesktopAt(done)
    BY <1>1, <1>8, ProgramSent DEF VgaInv
  <2>2. InGraphicsMode'
    BY <1>1, <2>1, DesktopEnds, VgaRests DEF VgaInv
  <2> QED
    BY <1>2, <1>8, <2>2 DEF VgaInv, TextStages, DesktopStages
<1>9. CASE stage \in DesktopStages /\ stage' \in DesktopStages
  BY <1>1, <1>2, <1>9, VgaRests DEF VgaInv, TextStages, DesktopStages
<1> QED
  BY <1>1, <1>3, <1>4, <1>5, <1>6, <1>7, <1>8, <1>9, StageMoves

LEMMA VgaInvStep == VgaInv /\ [KernelNext]_bootVars => VgaInv'
<1> SUFFICES ASSUME VgaInv, [KernelNext]_bootVars PROVE VgaInv'
  OBVIOUS
<1>1. CASE VgaStep
  BY <1>1, VgaStepInv
<1>2. CASE Goes(Next)
  BY <1>2, GoesInv
<1>3. CASE Waits \/ UNCHANGED bootVars
  <2>1. UNCHANGED <<stage, done, vgaVars>>
    BY <1>3 DEF Waits, Raise, bootVars, vars
  <2> QED
    BY <2>1, VgaRests DEF VgaInv
<1> QED
  BY <1>1, <1>2, <1>3 DEF KernelNext

LEMMA VgaInductive == KernelSpec => []VgaInv
  BY VgaInit, VgaInvStep, PTL DEF KernelSpec

(* vga_init.c:129: whatever the boot loader left in the registers, and     *)
(* although the splash and its text came before, the threads find mode 12h *)
(* with every value where its table has it and the standard colours.       *)
THEOREM DesktopAlwaysShows == KernelSpec => []DesktopShows
<1>1. VgaInv => DesktopShows
  BY DEF VgaInv, DesktopShows, DesktopStages
<1> QED
  BY <1>1, VgaInductive, PTL

(* boot_splash.c:327 and main.c:252: every message of kernel_main, and     *)
(* kernel_panic's, is written in a text mode that is complete and has its  *)
(* glyphs.                                                                 *)
THEOREM MessagesAlwaysReadable == KernelSpec => MessagesReadable
<1>1. VgaInv /\ [KernelNext]_bootVars => [said' # said => InTextMode]_bootVars
  <2> SUFFICES ASSUME VgaInv, [KernelNext]_bootVars, said' # said PROVE InTextMode
    OBVIOUS
  <2>1. CASE Goes(Next)
    <3>1. said' = Says /\ Next
      BY <2>1 DEF Goes
    <3>2. (stage' = "panic" /\ stage # "panic") \/ stage \in Speaking
      BY <3>1 DEF Says
    <3>3. stage \in TextStages
      BY <3>1, <3>2, StageMoves DEF Speaking, TextStages, DesktopStages
    <3> QED
      BY <3>3 DEF VgaInv
  <2>2. CASE VgaStep \/ Waits \/ UNCHANGED bootVars
    BY <2>2 DEF VgaStep, Waits, bootVars
  <2> QED
    BY <2>1, <2>2 DEF KernelNext
<1> QED
  BY <1>1, VgaInductive, PTL DEF KernelSpec, MessagesReadable
=============================================================================
