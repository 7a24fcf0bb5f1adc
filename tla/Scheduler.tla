----------------------------- MODULE Scheduler -----------------------------
(***************************************************************************)
(* Threads, processes and the preemptive dispatcher:                       *)
(* kernel/proc/process.c, kernel/proc/scheduler.c, the IRQ0 stub of        *)
(* kernel/interrupt/idt.c, the entry and exit of a syscall                 *)
(* (kernel/interrupt/syscall.c) and the part of kernel_main that starts    *)
(* them (kernel/main.c).                                                   *)
(*                                                                         *)
(* There is one CPU.  cpu says whose code it executes, with which          *)
(* interrupt flag and on which stack; a context switch is what the IRQ0    *)
(* stub does: push a frame on a stack, hand its address to scheduler_tick, *)
(* and resume whatever frame lies at the address that comes back.          *)
(*                                                                         *)
(* Abstracted: register contents and names (a frame is the thread it       *)
(* belongs to and the mode it resumes in), the fields nobody reads         *)
(* (name, privilege, main_thread, user_stack_top), the switch counter that *)
(* is only printed.  pmm_alloc_frame hands out frames in ascending order   *)
(* because nothing is ever freed, so the pool is a counter here; Pmm.tla   *)
(* has the bitmap.                                                         *)
(***************************************************************************)
EXTENDS Integers, Sequences

CONSTANTS
  MAX_PROCESSES,      \* slots of g_processes
  MAX_THREADS,        \* slots of g_threads
  SCHEDULER_QUANTUM,  \* ticks of a slice
  CREATE_QUANTUM,     \* quantum a new thread is given
  NFRAMES,            \* frames of physical memory the pool starts with
  USER_FRAMES,        \* frames proc_create_user needs before the kernel stack
  TICK_MOD,           \* width of the tick counter
  BootPlan            \* the processes kernel_main creates, in order

ASSUME LimitsAssumption ==
  /\ MAX_PROCESSES \in Nat \ {0}
  /\ MAX_THREADS \in Nat \ {0}
  /\ SCHEDULER_QUANTUM \in Nat \ {0}
  /\ CREATE_QUANTUM \in Nat
  /\ NFRAMES \in Nat \ {0}
  /\ USER_FRAMES \in Nat \ {0}
  /\ TICK_MOD \in Nat \ {0}

ASSUME BootPlanAssumption == BootPlan \in Seq({"kernel", "user"})

VARIABLES
  \* g_threads[]
  tid, pid, state, quantum, kstack, saved_context,
  \* g_processes[]
  active, proc_pid, page_dir,
  \* the other statics of process.c, scheduler.c, pmm.c and syscall.c
  next_tid, next_pid, g_current_thread, readyq, sched_current,
  frames_used, g_ticks,
  \* the machine: running code, stacks, latched timer interrupt, CR3, TSS
  cpu, frame, pending, cr3, esp0,
  \* how far kernel_main has come, and the processes it has yet to create
  boot, todo

threadVars  == <<tid, pid, state, quantum, kstack, saved_context, next_tid>>
processVars == <<active, proc_pid, page_dir, next_pid>>
schedVars   == <<readyq, sched_current, g_current_thread, g_ticks>>
memoryVars  == <<frames_used>>
machineVars == <<cpu, frame, pending, cr3, esp0>>
bootVars    == <<boot, todo>>
vars == <<threadVars, processVars, schedVars, memoryVars, machineVars, bootVars>>

Threads  == 1 .. MAX_THREADS
Procs    == 1 .. MAX_PROCESSES
NoThread == 0
Idle     == 1                 \* proc_init takes the first slot of each table
KernelDir == 1                \* vmm_init allocates it first

(***************************************************************************)
(* A stack is named by its frame of physical memory.  Frame 0 is the page  *)
(* an unchecked failed allocation ends up using; BootStack is the one      *)
(* kernel_main itself runs on.                                             *)
(***************************************************************************)
LowPage   == 0
BootStack == NFRAMES + 1
NoStack   == -1
Stacks    == LowPage .. BootStack

States == {"READY", "RUNNING", "DEAD"}

(* user: ring 3.  kernel: ring 0 with interrupts on.  cli: a critical      *)
(* section of a kernel thread.  syscall: inside syscall_dispatch.  sysret: *)
(* back from scheduler_yield, about to leave the syscall.  exited: the     *)
(* endless loop of proc_exit.  boot: kernel_main before its sti.           *)
OpenModes == {"user", "kernel", "exited"}
Modes == OpenModes \cup {"cli", "syscall", "sysret", "boot"}
Frames == [thr : {NoThread} \cup Threads, mode : Modes]
NoFrame == [thr |-> NoThread, mode |-> "boot"]

IF_set == cpu.mode \in OpenModes
Queued == {readyq[i] : i \in 1 .. Len(readyq)}

-----------------------------------------------------------------------------

Init ==
  /\ tid = [t \in Threads |-> 0]
  /\ pid = [t \in Threads |-> 0]
  /\ state = [t \in Threads |-> "READY"]
  /\ quantum = [t \in Threads |-> 0]
  /\ kstack = [t \in Threads |-> LowPage]
  /\ saved_context = [t \in Threads |-> NoStack]
  /\ next_tid = 1
  /\ active = [p \in Procs |-> FALSE]
  /\ proc_pid = [p \in Procs |-> 0]
  /\ page_dir = [p \in Procs |-> 0]
  /\ next_pid = 1
  /\ readyq = <<>>
  /\ sched_current = NoThread
  /\ g_current_thread = NoThread
  /\ g_ticks = 0
  /\ frames_used = 1
  /\ cpu = [thr |-> Idle, mode |-> "boot", stack |-> BootStack]
  /\ frame = [s \in Stacks |-> NoFrame]
  /\ pending = FALSE
  /\ cr3 = KernelDir
  /\ esp0 = LowPage
  /\ boot = "proc_init"
  /\ todo = BootPlan

(* pmm_alloc_frame when used frames are gone: the address, 0 for none.     *)
FrameAfterUnbounded(used) == used + 1
FrameAfter(used) == IF used < NFRAMES THEN used + 1 ELSE LowPage
UsedAfter(used)  == IF used < NFRAMES THEN used + 1 ELSE used

IsFirst(i, S) == i \in S /\ \A j \in S : i <= j

FreeProcs   == {p \in Procs : ~active[p]}
FreeThreads == {t \in Threads : tid[t] = 0}

(* alloc_process up to active = 1; the caller decides whether it stays.    *)
AllocProcess(p, dir) ==
  /\ IsFirst(p, FreeProcs)
  /\ proc_pid' = [proc_pid EXCEPT ![p] = next_pid]
  /\ page_dir' = [page_dir EXCEPT ![p] = dir]
  /\ next_pid' = next_pid + 1

(***************************************************************************)
(* alloc_thread, the initial frame of setup_kernel_stack or                *)
(* setup_user_stack, and scheduler_add_thread.  The result of              *)
(* pmm_alloc_frame is used unchecked.                                      *)
(***************************************************************************)
StartThread(t, owner, mode, used) ==
  LET stack == FrameAfter(used) IN
  /\ IsFirst(t, FreeThreads)
  /\ tid' = [tid EXCEPT ![t] = next_tid]
  /\ next_tid' = next_tid + 1
  /\ pid' = [pid EXCEPT ![t] = owner]
  /\ state' = [state EXCEPT ![t] = "READY"]
  /\ quantum' = [quantum EXCEPT ![t] = CREATE_QUANTUM]
  /\ kstack' = [kstack EXCEPT ![t] = stack]
  /\ frame' = [frame EXCEPT ![stack] = [thr |-> t, mode |-> mode]]
  /\ saved_context' = [saved_context EXCEPT ![t] = stack]
  /\ frames_used' = UsedAfter(used)
  /\ readyq' = Append(readyq, t)

(* proc_init, and the tss_set_esp0 that kernel_main does right after it.   *)
ProcInit ==
  LET stack == FrameAfter(frames_used) IN
  /\ boot = "proc_init"
  /\ boot' = "create"
  /\ active' = [active EXCEPT ![Idle] = TRUE]
  /\ page_dir' = [page_dir EXCEPT ![Idle] = KernelDir]
  /\ tid' = [tid EXCEPT ![Idle] = next_tid]
  /\ next_tid' = next_tid + 1
  /\ quantum' = [quantum EXCEPT ![Idle] = 1]
  /\ kstack' = [kstack EXCEPT ![Idle] = stack]
  /\ frame' = [frame EXCEPT ![stack] = [thr |-> Idle, mode |-> "kernel"]]
  /\ saved_context' = [saved_context EXCEPT ![Idle] = stack]
  /\ frames_used' = UsedAfter(frames_used)
  /\ g_current_thread' = Idle
  /\ esp0' = stack
  /\ UNCHANGED <<pid, state, proc_pid, next_pid, readyq, sched_current,
                 g_ticks, cpu, pending, cr3, todo>>

CreateNext(kind) ==
  /\ boot = "create"
  /\ todo # <<>>
  /\ Head(todo) = kind
  /\ todo' = Tail(todo)
  /\ UNCHANGED <<boot, sched_current, g_current_thread, g_ticks,
                 cpu, pending, cr3, esp0>>

NoProcessSlot == FreeProcs = {} /\ UNCHANGED <<threadVars, processVars, readyq,
                                              frames_used, frame>>
NoThreadSlot  == FreeThreads = {} /\ UNCHANGED <<threadVars, readyq, frame>>

DropProcessKept(p) == active' = [active EXCEPT ![p] = TRUE]
DropProcess(p) == active' = [active EXCEPT ![p] = FALSE]
KeepProcess(p) == active' = [active EXCEPT ![p] = TRUE]

(* proc_create_kernel.                                                     *)
CreateKernel ==
  /\ CreateNext("kernel")
  /\ \/ NoProcessSlot
     \/ \E p \in Procs :
          /\ AllocProcess(p, KernelDir)
          /\ \/ NoThreadSlot /\ DropProcess(p) /\ UNCHANGED frames_used
             \/ \E t \in Threads :
                  /\ KeepProcess(p)
                  /\ StartThread(t, next_pid, "kernel", frames_used)

(***************************************************************************)
(* proc_create_user.  The directory, the copies of the kernel's page       *)
(* tables, the table of the user stack and its pages are USER_FRAMES       *)
(* frames.  When they run out the code gives up with every frame taken     *)
(* (a missing page table alone does not stop it: the next stack page       *)
(* does), drops the process and gives nothing back.                        *)
(***************************************************************************)
CreateUser ==
  /\ CreateNext("user")
  /\ \/ NoProcessSlot
     \/ \E p \in Procs :
          \/ /\ frames_used + USER_FRAMES > NFRAMES
             /\ AllocProcess(p, FrameAfter(frames_used))
             /\ DropProcess(p)
             /\ frames_used' = NFRAMES
             /\ UNCHANGED <<threadVars, readyq, frame>>
          \/ /\ frames_used + USER_FRAMES <= NFRAMES
             /\ AllocProcess(p, frames_used + 1)
             /\ \/ /\ NoThreadSlot
                   /\ DropProcess(p)
                   /\ frames_used' = frames_used + USER_FRAMES
                \/ \E t \in Threads :
                     /\ KeepProcess(p)
                     /\ StartThread(t, next_pid, "user", frames_used + USER_FRAMES)

(* scheduler_init: kernel_main becomes the idle thread.                    *)
SchedulerInit ==
  /\ boot = "create"
  /\ todo = <<>>
  /\ boot' = "ready"
  /\ readyq' = Append(readyq, g_current_thread)
  /\ state' = [state EXCEPT ![g_current_thread] = "RUNNING"]
  /\ quantum' = [quantum EXCEPT ![g_current_thread] = SCHEDULER_QUANTUM]
  /\ sched_current' = g_current_thread
  /\ UNCHANGED <<tid, pid, kstack, saved_context, next_tid, processVars,
                 g_current_thread, g_ticks, frames_used, machineVars, todo>>

(* The sti before kernel_main's hlt loop.                                  *)
IdleLoop ==
  /\ boot = "ready"
  /\ boot' = "run"
  /\ cpu' = [cpu EXCEPT !.mode = "kernel"]
  /\ UNCHANGED <<threadVars, processVars, schedVars, frames_used,
                 frame, pending, cr3, esp0, todo>>

-----------------------------------------------------------------------------
(***************************************************************************)
(* scheduler_tick.  s is the stack the stub pushed its frame on (ctx), m   *)
(* the mode that frame resumes in and q the quanta on entry.               *)
(***************************************************************************)
Pushed(s, m) == [frame EXCEPT ![s] = [thr |-> cpu.thr, mode |-> m]]

ChargedNever(q) == q
Charged(q) == [q EXCEPT ![sched_current] = IF @ > 0 THEN @ - 1 ELSE @]

PreemptedNever == state
PreemptedAlways == [state EXCEPT ![sched_current] = "READY"]
Preempted == [state EXCEPT ![sched_current] = IF @ = "RUNNING" THEN "READY" ELSE @]

(* The walk of queue_next_ready: from the successor of the current thread  *)
(* once around, the current thread last.                                   *)
Pos(t) == CHOOSE i \in 1 .. Len(readyq) : readyq[i] = t
StepsTo(t) == (Pos(t) - Pos(sched_current) - 1) % Len(readyq)
IsReady(t) == t \in Queued /\ Preempted[t] = "READY"
IsNextReadyFromHead(t) ==
  /\ IsReady(t)
  /\ \A u \in Threads : IsReady(u) => Pos(t) <= Pos(u)
IsNextReady(t) ==
  /\ IsReady(t)
  /\ \A u \in Threads : IsReady(u) => StepsTo(t) <= StepsTo(u)

SliceLeft(q) == Charged(q)[sched_current] > 0 /\ Preempted[sched_current] = "READY"

(* The stub loads ESP with s and unwinds the frame it finds there.         *)
Resume(s) == cpu' = [thr |-> frame'[s].thr, mode |-> frame'[s].mode, stack |-> s]

(* The thread keeps the CPU: its slice is not over, or nobody else wants   *)
(* it and it starts a new one.                                             *)
Continue(s, q) ==
  /\ \/ SliceLeft(q) /\ quantum' = Charged(q)
     \/ /\ ~SliceLeft(q)
        /\ \A t \in Threads : IsReady(t) => t = sched_current
        /\ quantum' = [q EXCEPT ![sched_current] = SCHEDULER_QUANTUM]
  /\ state' = [state EXCEPT ![sched_current] = "RUNNING"]
  /\ Resume(s)
  /\ UNCHANGED <<sched_current, g_current_thread, cr3, esp0>>

(* proc_get_process_by_pid, then the directory of what it found.           *)
ProcessesOf(t) == {p \in Procs : active[p] /\ proc_pid[p] = pid[t]}
DirOf(t) ==
  IF ProcessesOf(t) = {} THEN 0
  ELSE page_dir[CHOOSE p \in ProcessesOf(t) : IsFirst(p, ProcessesOf(t))]

LoadCr3Never(next) == UNCHANGED cr3
LoadCr3(next) ==
  cr3' = IF pid[next] # pid[sched_current] /\ DirOf(next) # 0 THEN DirOf(next) ELSE cr3

ResumeInterrupted(s, next) == Resume(s)
ResumeSaved(s, next) ==
  IF saved_context'[next] = NoStack THEN Resume(s) ELSE Resume(saved_context'[next])

SetCurrent(next) == sched_current' = next /\ g_current_thread' = next

SwitchTo(next, s, q) ==
  /\ ~SliceLeft(q)
  /\ IsNextReady(next)
  /\ next # sched_current
  /\ quantum' = [Charged(q) EXCEPT ![next] = SCHEDULER_QUANTUM]
  /\ state' = [Preempted EXCEPT ![next] = "RUNNING"]
  /\ LoadCr3(next)
  /\ esp0' = kstack[next]
  /\ SetCurrent(next)
  /\ ResumeSaved(s, next)

Tick(s, m, q) ==
  /\ g_ticks' = (g_ticks + 1) % TICK_MOD
  /\ frame' = Pushed(s, m)
  /\ saved_context' = [saved_context EXCEPT ![sched_current] = s]
  /\ \/ Continue(s, q)
     \/ \E next \in Threads : SwitchTo(next, s, q)
  /\ UNCHANGED <<tid, pid, kstack, next_tid, processVars, readyq,
                 frames_used, bootVars>>

-----------------------------------------------------------------------------
(* The PIT raises IRQ0; the PIC remembers one request.                     *)
TimerRaise ==
  /\ ~pending
  /\ pending' = TRUE
  /\ UNCHANGED <<threadVars, processVars, schedVars, frames_used,
                 cpu, frame, cr3, esp0, bootVars>>

(* irq0_timer_handler.  From ring 3 the CPU first moves to the TSS stack.  *)
EntryStack == IF cpu.mode = "user" THEN esp0 ELSE cpu.stack

TimerIrq ==
  /\ pending
  /\ IF_set
  /\ pending' = FALSE
  /\ Tick(EntryStack, cpu.mode, quantum)

(* What running code does by itself: it never changes the tables.  A       *)
(* latched interrupt goes first.                                           *)
Running(mode) == cpu.mode = mode /\ ~(pending /\ IF_set)
OnlyCpu == UNCHANGED <<threadVars, processVars, schedVars, frames_used,
                       frame, pending, cr3, esp0, bootVars>>

SyscallEnter ==
  /\ Running("user")
  /\ cpu' = [cpu EXCEPT !.mode = "syscall", !.stack = esp0]
  /\ OnlyCpu

SyscallReturn ==
  /\ Running("syscall") \/ Running("sysret")
  /\ cpu' = [cpu EXCEPT !.mode = "user"]
  /\ OnlyCpu

(* SYS_YIELD: scheduler_yield drops the quantum and enters the IRQ0 stub   *)
(* by int 0x20; the latched timer interrupt, if any, stays latched.        *)
Yield ==
  /\ Running("syscall")
  /\ Tick(cpu.stack, "sysret", [quantum EXCEPT ![sched_current] = 0])
  /\ UNCHANGED pending

(* SYS_EXIT: proc_exit marks the thread and waits with interrupts on.      *)
Exit ==
  /\ Running("syscall")
  /\ state' = [state EXCEPT ![g_current_thread] = "DEAD"]
  /\ cpu' = [cpu EXCEPT !.mode = "exited"]
  /\ UNCHANGED <<tid, pid, quantum, kstack, saved_context, next_tid, processVars,
                 schedVars, frames_used, frame, pending, cr3, esp0, bootVars>>

(* The critical sections of GuiMainLoop and read_rtc.                      *)
Cli ==
  /\ Running("kernel")
  /\ boot = "run"
  /\ cpu.thr # Idle
  /\ cpu' = [cpu EXCEPT !.mode = "cli"]
  /\ OnlyCpu

Sti ==
  /\ Running("cli")
  /\ cpu' = [cpu EXCEPT !.mode = "kernel"]
  /\ OnlyCpu

Boot == ProcInit \/ CreateKernel \/ CreateUser \/ SchedulerInit \/ IdleLoop
Next ==
  \/ Boot
  \/ TimerRaise \/ TimerIrq
  \/ SyscallEnter \/ SyscallReturn \/ Yield \/ Exit
  \/ Cli \/ Sti

Spec == Init /\ [][Next]_vars

(* The boot code runs to its end, the PIT keeps ticking, a request that    *)
(* can be delivered is, and code with interrupts off is finite.            *)
Fairness ==
  /\ WF_vars(Boot)
  /\ WF_vars(TimerRaise)
  /\ WF_vars(TimerIrq)
  /\ WF_vars(SyscallReturn \/ Yield \/ Exit)
  /\ WF_vars(Sti)

FairSpec == Spec /\ Fairness

-----------------------------------------------------------------------------
TypeOK ==
  /\ tid \in [Threads -> Nat]
  /\ pid \in [Threads -> Nat]
  /\ state \in [Threads -> States]
  /\ quantum \in [Threads -> Nat]
  /\ kstack \in [Threads -> LowPage .. NFRAMES]
  /\ saved_context \in [Threads -> Stacks \cup {NoStack}]
  /\ active \in [Procs -> BOOLEAN]
  /\ proc_pid \in [Procs -> Nat]
  /\ page_dir \in [Procs -> 0 .. NFRAMES]
  /\ next_tid \in Nat \ {0}
  /\ next_pid \in Nat \ {0}
  /\ g_current_thread \in {NoThread} \cup Threads
  /\ sched_current \in {NoThread} \cup Threads
  /\ readyq \in Seq(Threads)
  /\ frames_used \in 1 .. NFRAMES
  /\ g_ticks \in 0 .. TICK_MOD - 1
  /\ cpu \in [thr : {NoThread} \cup Threads, mode : Modes, stack : Stacks]
  /\ frame \in [Stacks -> Frames]
  /\ pending \in BOOLEAN
  /\ cr3 \in 1 .. NFRAMES
  /\ esp0 \in LowPage .. NFRAMES
  /\ boot \in {"proc_init", "create", "ready", "run"}
  /\ todo \in Seq({"kernel", "user"})

Started == sched_current # NoThread
StacksPresent == \A t \in Threads : tid[t] # 0 => kstack[t] # LowPage

(* Exactly one thread is RUNNING, the current one, until it exits; then    *)
(* none is.  process.c and scheduler.c agree on which thread is current.   *)
OneRunning ==
  Started =>
    /\ g_current_thread = sched_current
    /\ state[sched_current] \in {"RUNNING", "DEAD"}
    /\ \A t \in Threads : state[t] = "RUNNING" => t = sched_current

(* scheduler.c:108: the idle thread is always in the queue and can always  *)
(* run, so that queue_next_ready never comes back empty-handed.            *)
IdleRunnable ==
  Started => Idle \in Queued /\ state[Idle] \in {"READY", "RUNNING"}

(* Every thread runs as itself: the code on the CPU is the current         *)
(* thread's, and the frame each other queued thread will be resumed from   *)
(* is its own, as long as every thread got a kernel stack.                 *)
ContextIntact ==
  Started /\ StacksPresent =>
    /\ cpu.thr = sched_current
    /\ \A t \in Queued \ {sched_current} :
         saved_context[t] # NoStack /\ frame[saved_context[t]].thr = t

(* The address space and the TSS belong to the current thread: its         *)
(* process's directory is in CR3 and an entry from ring 3 lands on its     *)
(* own kernel stack.                                                       *)
MachineFollows ==
  Started =>
    /\ esp0 = kstack[sched_current]
    /\ ProcessesOf(sched_current) # {}
    /\ \A p \in ProcessesOf(sched_current) : cr3 = page_dir[p]

(* A creation that fails half-way leaves no process behind, and one that   *)
(* succeeds leaves a thread the dispatcher knows: once the scheduler runs, *)
(* every active process has a thread in the queue.                         *)
EveryProcessQueued ==
  Started => \A p \in Procs : active[p] => \E t \in Queued : pid[t] = proc_pid[p]

(* A thread that exited stays dead and, once switched away from, is never  *)
(* dispatched again, although it is never taken out of the queue.          *)
DeadStaysOff ==
  [][\A t \in Threads : state[t] = "DEAD" =>
       /\ state'[t] = "DEAD"
       /\ sched_current # t => sched_current' # t]_vars

(* The CPU is taken from a running thread only at the end of its slice, or *)
(* when it yields or exits; and while another thread waits, every tick     *)
(* shortens the slice.                                                     *)
SliceHonoured ==
  [][Started =>
       /\ sched_current' # sched_current =>
            quantum[sched_current] <= 1 \/ state[sched_current] = "DEAD" \/ Yield
       /\ (sched_current' = sched_current /\ TimerIrq
             /\ \E t \in Queued \ {sched_current} : state[t] = "READY")
            => quantum'[sched_current] < quantum[sched_current]]_vars

(* No starvation: a thread in the queue gets the CPU unless it is dead.    *)
EveryThreadRuns ==
  \A t \in Threads :
    (Started /\ t \in Queued) ~> (state[t] = "DEAD" \/ cpu.thr = t)

-----------------------------------------------------------------------------
(***************************************************************************)
(* The inductive invariant behind the safety properties above.             *)
(***************************************************************************)

(* Until scheduler_init there is no dispatcher, every thread is as its     *)
(* creator left it, and kernel_main runs on the boot stack with interrupts *)
(* off.                                                                    *)
BootInv ==
  /\ Started <=> boot \in {"ready", "run"}
  /\ boot # "run" => cpu = [thr |-> Idle, mode |-> "boot", stack |-> BootStack]
  /\ ~Started => cr3 = KernelDir /\ Idle \notin Queued
                 /\ \A t \in Threads : state[t] = "READY"
  /\ boot = "proc_init" =>
       /\ g_current_thread = NoThread
       /\ readyq = <<>>
       /\ \A p \in Procs : ~active[p] /\ proc_pid[p] = 0
       /\ \A t \in Threads : tid[t] = 0 /\ pid[t] = 0
  /\ boot = "create" => g_current_thread = Idle /\ esp0 = kstack[Idle]
  /\ boot # "proc_init" =>
       /\ tid[Idle] # 0 /\ pid[Idle] = 0
       /\ active[Idle] /\ proc_pid[Idle] = 0 /\ page_dir[Idle] = KernelDir

(* Pids of active processes are unique and never reissued; every thread in *)
(* the queue is allocated and its process active; every active process has *)
(* a thread that is in the queue, or is the idle thread.                   *)
ProcessInv ==
  /\ \A p, r \in Procs : active[p] /\ active[r] /\ proc_pid[p] = proc_pid[r] => p = r
  /\ \A p \in Procs : active[p] => proc_pid[p] < next_pid /\ page_dir[p] # 0
  /\ \A t \in Queued : tid[t] # 0 /\ ProcessesOf(t) # {}
  /\ \A p \in Procs : active[p] => \E t \in Queued \cup {Idle} : pid[t] = proc_pid[p]

(* No frame is the kernel stack of two threads.                            *)
StackInv ==
  /\ \A t \in Threads : tid[t] # 0 => kstack[t] <= frames_used
  /\ \A t, u \in Threads :
       tid[t] # 0 /\ tid[u] # 0 /\ t # u /\ kstack[t] # LowPage => kstack[t] # kstack[u]

(* Where a thread's frame is pushed: the idle thread lives on the stack    *)
(* kernel_main was started on, every other on the one it was given.        *)
Home(t) == IF t = Idle THEN BootStack ELSE kstack[t]

DispatchInv ==
  /\ OneRunning
  /\ IdleRunnable
  /\ MachineFollows
  /\ \A t \in Queued \ {sched_current} : saved_context[t] = Home(t)
  /\ Started => sched_current \in Queued /\ cpu.stack = Home(sched_current)
  /\ sched_current = Idle => cpu.thr = Idle /\ cpu.mode \in {"boot", "kernel"}
  /\ Started /\ sched_current # Idle =>
       frame[BootStack] = [thr |-> Idle, mode |-> "kernel"]

FrameInv ==
  StacksPresent =>
    /\ Started => cpu.thr = sched_current
    /\ \A t \in Queued \ {sched_current} : frame[Home(t)].thr = t

IInv == TypeOK /\ BootInv /\ ProcessInv /\ StackInv /\ DispatchInv /\ FrameInv
=============================================================================
