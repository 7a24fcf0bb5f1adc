# A TLA+ model of System_Operative_Edit

This directory holds TLA+ specifications of the kernel in `src/`, the TLC
configurations that check them on small instances, and TLAPS proofs of the
properties that matter most. Everything is translated from the code; where a
comment of the code says something else, a run of its own shows the difference,
or section 5 names it.

## 1. The system

A 32-bit protected-mode kernel for one CPU. `boot/boot.asm` jumps to
`kernel_main` (`kernel/main.c`), which initialises the screen, the interrupt
tables, the memory managers and the VGA driver with interrupts off, creates two
processes (`gui_server`, a kernel thread, and `gui_user`, a ring-3 thread),
turns itself into the idle thread and enables interrupts. From then on
everything happens in the threads, the 8254 timer interrupt (IRQ0), the keyboard
interrupt (IRQ1; the mouse is polled), and system calls (`int $0x30`, interrupts off).

| Component | State | Operations | Interacts with | Hard behaviour | What makes it correct |
|---|---|---|---|---|---|
| Processes and threads (`kernel/proc/process.c`) | `g_processes`, `g_threads`, `g_next_pid`, `g_next_tid`, `g_current_thread` | `proc_init`, `proc_create_kernel`, `proc_create_user`, `proc_exit` | frames from the PMM, directories from the VMM, queue of the scheduler | creation that fails half-way; exit while being the current thread | no half-made process; the dead stay dead; every thread resumes as itself |
| Scheduler (`kernel/proc/scheduler.c`) | ring of threads (`head`, `tail`, `next`), `sched_current`, `g_ticks` | `scheduler_init`, `scheduler_add_thread`, `scheduler_remove_thread`, `scheduler_tick`, `scheduler_yield` | called from the IRQ0 stub; sets CR3 and the TSS | preemption anywhere, dead threads left in the ring | one RUNNING thread, slices honoured, nobody starves |
| Interrupts (`kernel/interrupt/idt.c`, `tss.c`, `gdt.c`) | GDT, IDT, TSS; masks, vectors and lines in service of the 8259s | `gdt_init`, `idt_init`, `pic_remap`, `tss_init`, IRQ, exception and system call stubs | scheduler, keyboard handler, every thread | vectors that collide with exceptions, EOIs too many or too few, requests that are withdrawn, the stub swaps the stack under the interrupted code | each line reaches its stub; nothing stays in service; the frame popped belongs to the thread that is current |
| System calls (`kernel/interrupt/syscall.c`) | none of its own | `syscall_entry`, `syscall_dispatch` | processes, scheduler, GUI, drawing | runs with interrupts off between steps of a preempted kernel thread | leaves through its own frame; yield counts as a tick |
| Physical memory (`kernel/mm/pmm.c`) | `pmm_bitmap`, `pmm_total_frames`, `pmm_used` | `pmm_init`, `pmm_alloc_frame`, `pmm_free_frame` | VMM, processes | exhaustion, double free, small or odd RAM sizes | a frame has one holder; counters agree with the bitmap; frames exist |
| Virtual memory (`kernel/mm/vmm.c`) | page directories and tables | create, map, unmap, load | PMM, processes | exhaustion while cloning | the kernel's tables are not altered |
| Kernel heap (`lib/memory.c`) | `heap_current` | `malloc`, `free` (does nothing) | driver framework | exhaustion half-way through a creation | a failed creation leaves nothing behind |
| GUI server (`drivers/video/vga/vga_gui.c`) | keyboard and mouse rings, console, menu, trail | `GuiMainLoop`, `GuiKeyboardHandler`, `GuiGetMouseEvent` | IRQ1, mouse driver, drawing, system calls | producers and consumers at different interrupt levels | events in order, none torn, none lost unless full |
| Drawing (`vga_screen.c`, `vga_cursor.c`, `vga_operations.c`, `vga_font.c`) | `g_shadow`, four planes, map mask, saved cursor background | `VgaPutPixel`, `VgaFillRect`, `CursorDraw`, `CursorErase`, ... | GUI server (preemptible) and system calls (not) | read-modify-write of a byte of eight pixels | screen and shadow agree; damage stays where it is made |
| Mouse driver (`drivers/input/ps2mouse.c`) | `MOUSE_STATE` | `MouseInit`, `MouseRead` | the 8042, IRQ1, GUI server | packets that arrive in part, late replies | a packet is never split |
| Driver framework (`drivers/framework`, `vga_driver.c`) | lists of drivers and devices | load, delete, create device, find device | heap, VGA hardware | failing initialisation | lists hold live objects only |
| Boot of the kernel (`boot/boot.asm`, `kernel/main.c`) | how far it is | `kernel_main`, `kernel_panic` | every part above, in a fixed order | the order of the calls; messages before and after mode changes | everything is in place before the first thread and the first interrupt |
| VGA set-up and boot splash (`vga_init.c`, `vga_hardware.c`, `kernel/boot_splash.c`, `kernel/screen.c`) | the registers, palette and fonts of the VGA | `set_mode13h`, `set_mode3`, `load_font_from_bios`, `VgaSetMode`, `screen_write` | kernel_main, the driver | one port for index and data, locked registers, fonts in the memory the splash draws on | text can be read when it is written; the desktop has its mode and colours |
| FreeLoader (`boot/freeldr`), boot sectors, boot video | a program of its own | - | never run by this boot chain (`boot_splash.c:8`) | - | - |

`PROJECT.json` lists each component with what is modelled of it, and every
hazard with its line and the properties that would catch it.

## 2. Modules

| Module | Models | Used with |
|---|---|---|
| `Scheduler` | process and thread tables, dispatcher, IRQ0 stub, system-call entry, boot order | `MCScheduler` (a boot plan for TLC), `SchedulerProofs` |
| `RoundRobin` | the promise of the dispatcher: threads take turns, the dead leave | |
| `SchedulerRoundRobin` | refinement mapping from `Scheduler` to `RoundRobin` | `MCScheduler`, `SchedulerProofs` |
| `ReadyQueue` | the circular list of `scheduler.c`, pointer by pointer | `MCKernelParts`, `KernelPartsProofs` |
| `RunQueue` | the promise of the list: a queue in order of arrival, searched once around | |
| `Pmm` | `pmm.c` | `MCKernelParts`, `KernelPartsProofs` |
| `FrameAllocator` | the promise of `pmm.c`: each frame to one holder at a time | |
| `Vmm` | directories and tables: `vmm.c`, the mappings of `proc_create_user`, `is_user_ptr` | `MCKernelParts`, `KernelPartsProofs` |
| `Syscall` | registers and stack through `syscall_entry`, the wrappers of `libsys.h`, the handlers' view of their arguments | `MCKernelParts`, `KernelPartsProofs` |
| `Ps2Mouse` | `ps2mouse.c` against the 8042, the mouse, the keyboard and IRQ1 | `MouseServiceProofs` |
| `MouseRing` | the queue of mouse events, store by store | `MouseServiceProofs` |
| `MouseService` | `Ps2Mouse` and `MouseRing` composed by `GuiMainLoop`'s poll | `MCMouseService`, `MouseServiceProofs` |
| `KeyboardRing` | the keyboard buffer, access by access, against IRQ1 | `ConsoleProofs` |
| `LossyQueue` | the promise of both rings: in order, whole, each once, lost only when full | `CommonTheorems` (what several proofs share: induction over sets of numbers, ring arithmetic) |
| `Console` | the console behind `KeyboardRing`: editing, commands, the ring of rows, the window | `MCConsole`, `ConsoleProofs` |
| `Terminal` | the promise of the console: a line to edit and the last lines of the dialogue | |
| `Drawing` | `VgaPutPixel`, `VgaFillRect`, `CursorDraw` and `CursorErase`, access by access, preempted by drawing system calls | `MCDrawing`, `DrawingProofs` |
| `IoManager` | `io_manager.c`, `device.c`, `vga_driver.c` and the heap they allocate from | `IoManagerProofs` |
| `DeviceRegistry` | the promise of the driver framework | |
| `Interrupts` | the 8259s, GDT, IDT and TSS, the stubs, and kernel_main's order of setting them up | `KernelBootProofs` |
| `VgaDevice` | the VGA as hardware: registers behind ports, DAC, font memory | |
| `VgaModes` | the mode changes as programs for it: `boot_splash.c`, `vga_init.c`, `vga_hardware.c` | `KernelBootProofs` |
| `KernelBoot` | `Interrupts`, `VgaModes` and the messages of kernel_main composed | `MCKernelBoot`, `KernelBootProofs` |
| `Desktop` | what `GuiMainLoop` does with the mouse: pointer, trail, Start menu | `MCMouseService`, `MouseServiceProofs` |
| `WallClock` | the taskbar's clock and the clock chip | `MCKernelParts`, `KernelPartsProofs` |

`Scheduler` is the core. The others take from it what they need to know of
concurrency and nothing else: kernel threads are preempted at any instruction
unless they have interrupts off; system calls and interrupt handlers run with
interrupts off and are one step. Code before the idle loop runs alone;
what interrupts do to it, and when they start, is in `Interrupts`.

Two MC modules hold several modules side by side: `MCKernelParts` (`Pmm`, `Vmm`,
`ReadyQueue`, `Syscall`, `WallClock`) and `MCMouseService` (`MouseService`,
`Desktop`). Their variable `part` (`side`) is chosen at the start and says which
one moves; the others stay as they start. So one run explores each of them as a
run of its own would.

### Scheduler

One CPU: `cpu` says whose code runs, with which mode (ring 3, ring 0 with
interrupts on or off, inside a system call, ...), on which stack. `frame[s]` is
the register frame that lies on stack `s`: whose it is and in which mode it
resumes. `TimerIrq` is the whole of `irq0_timer_handler`: the CPU picks the
entry stack (the TSS one from ring 3), the stub pushes a frame,
`scheduler_tick` runs, and the frame at the address it returns is unwound. So a
wrong `saved_context` really makes a thread run as another one in the model.
The tables have the names of the C arrays; slots are numbered from 1, and 0 is
the null pointer. `ProcInit`, `CreateKernel`, `CreateUser`, `SchedulerInit` and
`IdleLoop` are the boot code in its order, `BootPlan` being the list of
`proc_create_*` calls (interrupts are off throughout, so each is one step).
`SyscallEnter`, `SyscallReturn`, `Yield` and `Exit` are what a ring-3 thread may
do in any order; `Cli` and `Sti` the critical sections of a kernel thread;
`TimerRaise` the 8254 and the one request the 8259 latches.

Left out, because nothing the properties speak of depends on it: register
contents, names, `privilege`, `main_thread`, `user_stack_top` (nobody reads
them), the switch counter that is only printed, and the exception handlers (they
stop the machine). Frames are a counter here: nothing in the kernel ever frees
one, so `pmm_alloc_frame` returns them in ascending order. `USER_FRAMES` is what
`proc_create_user` takes before the kernel stack: in the source 1 directory, 32
cloned tables, 1 table and 16 pages for the stack, 50 together. The early return
of `scheduler_tick` before `scheduler_init` cannot be reached, since interrupts
are off until then. The ready queue is a sequence; `ReadyQueue` shows that the
pointers implement one.

### ReadyQueue

`queue_insert`, `queue_remove` and `queue_next_ready`, each one step (they run
with interrupts off). A walk over `next` pointers is a function of the number of
steps taken. Insertion is only offered for a thread with a null `next`: both
callers pass a slot `alloc_thread` has just cleared. Removal is offered for any
thread, queued or not; in the source nothing calls `scheduler_remove_thread`
yet. The selection is checked against every set of READY threads and every
current thread, also one that is no longer queued.

### Pmm

Addresses are in KB (every quantity of `pmm.c` is a multiple of one), with
unsigned wrap-around at `WORD_KB`. The bitmap is the set of frames whose bit
is 1. `held` is the callers' side of the contract: nobody frees a frame somebody
else holds, but freeing twice and freeing the 0 of a failed request happen. RAM
is assumed to end below 4 GB (`MemUpperAssumption`).

### Vmm

An address is a page number, a directory or table a frame of the pool with
`ENTRIES` entries, so `vmm_map_page` really walks and writes memory, and a table
that two directories share is seen as shared. One action per page or table:
`KernelDirectory` and `IdentityMap` are `vmm_init`, `CreateDirectory` and
`Clone` are `vmm_create_directory`, `MapCode`, `StackFrame`, `MapStack`,
`MapThunk` are the loop bodies of `proc_create_user`. The end of the pool is
chosen at the start, so that every request in turn is the first to fail.
`vmm_unmap_page` has no caller, `vmm_load_directory` is the CR3 of `Scheduler`.

### Syscall

A value is named for where it comes from. `Wrapper` loads registers as the
inline assembly of `libsys.h` does, `Save`, `PushParams`, `Dispatch`, `Unpush`,
`Restore`, `DumpStack` and `Iret` are the stub in its order; what a C function
may clobber under cdecl becomes `lost`. `StubTransparent` compares the name an
argument was given under with the name the handler uses it under, and the
registers and stack at the `iret` with those at the interrupt. Its exception,
`Misread`, is the three calls of section 5.

### Ps2Mouse, MouseRing, MouseService

The 8042 has one output buffer for two devices. `Deliver` and `KeyPressed` fill
it, `Irq1` and the driver empty it, whoever reads first. `MouseInit` is a chain
of commands and reads; each read returns after a timeout with whatever the port
holds. `MouseRead` is access by access: a poll of the status (`SomethingThere`,
`NothingThere`) and the read after it (`Take`) are steps of their own, and IRQ1
may come between any two. A read of an empty buffer gives the last byte there was
(`port`); a read that takes the byte of a key before IRQ1 makes the 8042 withdraw
the request, or not, when the 8259 keeps the edge (`Inb`). Of a packet the model
keeps how many bytes are `taken` and whether each was `inPlace`. That one, `smooth`
(`MouseInit` got its replies, and no poll of `MouseRead` found the byte of a key)
and `gaveUp` (`MouseRead` has returned in the middle of a packet) are observers:
the code does not know. In `MouseRing` the stores
of `GuiQueueMouseEvent` are steps of their own, in the order `StoreOrder`, a
constant, because only the indices are volatile. `MouseService` puts the two
together: a poll that has applied three bytes may queue an event, preempted by
`GuiGetMouseEvent` between any two stores. The position a packet leads to is
left open (any of `Events`).

### KeyboardRing, Console

IRQ1 (`Put`) strikes between any two accesses of `kbd_getchar`, including the
reset of both indices in `GuiInit`, before which it is already unmasked. In
`Console` each key taken out is handed to `ConsoleProcessChar`; only the GUI
thread touches the console, so that this is one step. The history is the array
with `cons_start` and `cons_count`; the window is what the last `ConsoleRedraw`
painted.

### Drawing

A call is the sequence of accesses it makes to `g_shadow`, to the map mask and
to the frame buffer, in program order. `GuiAccess` makes one of them for the GUI
thread; `SystemCall` makes a whole call of a process in one step, between any
two of them. The observer `disturbed` says that this happened during the call in
progress. Lines and characters are sequences of `VgaPutPixel`.

A move of the cursor is `CursorErase` where it was (`prev`) and `CursorDraw`
where it goes, as `GuiMainLoop` makes them (`vga_gui.c:605-608`): the colours
saved in `g_cursor_bg` go back, the colours at the new place are saved, the
arrow is drawn. Whether the arrow is inverted is its colour. The observer
`picture` holds the colours without a cursor, `spoiled` the pixels somebody drew
under one: those the next erase overwrites with what was there before.

### IoManager

Objects lie at addresses, with the links of the C structures; `malloc` hands
out the next address or fails, `free` only removes the address from the
observer `live`, as in `lib/memory.c`. `IoCreateDriver` is a chain of steps
through `VgaDriverEntry` and `IoCreateDevice`, each allocation a step that can
fail; `IoDeleteDriver` saves the next device before it deletes one, unlinks the
driver, and runs the unload routine over what is left. kernel_main makes only
the calls that load the VGA driver; deleting and looking up are modelled because
`io_manager.h` offers them. `VgaInitializeDevice` is allowed to fail, as its
callers expect, although `VgaSetMode` always succeeds for the mode it is given.

### Interrupts

`stage` is what kernel_main does next. `GdtInit`, `Icw1` to `MaskAll`,
`IdtInit`, `UnmaskTimer`, `VmmInit`, `TssInit`, `ProcInit`, `MouseInit` are its
calls that interrupts notice; `Follows` is the order of the rest. A line may be
raised at any time (`Raise`), and the byte that raised line 1 may be taken by
`MouseRead` before the line is acknowledged (`Withdraw`): the controller then
answers with its line 7. `Accept` is the acknowledge cycle and the processor's
entry through the gate: a gate, a segment or a ring-0 stack that is not there
gives `"reset"`. The stubs make their EOIs one by one, non-specific, as the code
does, so that they end whatever is first in service. Once the threads run, `mode`
is what interrupts notice of them: ring 3, ring 0, interrupts off, inside a
system call, or back from a yield (`"sysret"`). After a timer interrupt it is any
mode in which some thread may have been left; which one is `Scheduler`'s matter.
The controllers are external: fully nested priorities, the second chip on line 2.

### VgaDevice, VgaModes, KernelBoot

An access is a record: port, register, value. `VgaDevice!Access` is its effect,
with what makes a VGA hard to program: registers 0 to 7 of the CRT controller are
locked by bit 7 of register 17; the attribute controller has one port for index
and data and an input status whose reading says which comes next; its palette can
only be written with the picture off; a byte gets into the font's plane only
under the right settings of two other parts. `VgaModes` holds the tables of
the source, value by value, and the programs made of them. Pixels of the splash
are one access (`"pixels"`), which leaves the font's plane spoiled, as drawing
through all four planes does. `KernelBoot` runs such a program access by access
in the two stages of `Interrupts` that need it, starting from registers that hold
any of `Fills`, and notes in `said` every message written to the text screen.

### Desktop, WallClock

`Iterate` is the body of the loop of `GuiMainLoop`: fade if the ticks have
changed, read one packet if there is one, push a dot, move, decide on the menu.
It follows a timer tick (`AfterTick`) or another interrupt (`AfterKey`). The
observer `painted` is the dots to be seen on the desktop, `aimed` where the
packet would have taken the pointer without the clamp. In `WallClock` the six
registers are read one by one, with the second free to advance between any two.

## 3. Runs

| Run | Instance | Shows |
|---|---|---|
| `sched_kernel_main` | the quanta of the source; `gui_server`, `gui_user`, another user process, then creations that run out of frames half-way, out of frames at all, and out of threads | one RUNNING thread, the right frame, address space and stack at every switch, no half-made process, the dead stay off the CPU, slices honoured, no starvation, and a round robin is implemented, liveness included |
| `kernel_parts` | `Pmm`: a bitmap of eight frames, every RAM size from the start of the pool up, one page being four units; `Vmm`: two user processes, tables of six entries, twenty sizes of the pool; `ReadyQueue`: four threads, with symmetry; `Syscall`: every call of the library, one after the other; `WallClock`: six binary digits | counters, bitmap and holders of frames agree, frames exist, `FrameAllocator` is implemented; a process that is created sees the whole kernel and reaches its code and stack, no two stacks share a frame, the kernel's tables stay as made while frames are left; the list is always one closed ring and implements `RunQueue`; arguments arrive and the caller resumes; the clock shows a time there was |
| `syscall_result_lost` | `Syscall` alone | **violated**: the result is not in EAX |
| `mouse_service` | a ring of three slots, three events, the order of stores of the source; the trail of the source (8 dots, 5 ticks), movements of 0 and of (-100, 77) | events whole and in order; what is applied is a packet of the mouse, wherever IRQ1 strikes, unless a poll found the byte of a key or a packet came in pieces; every dot of the trail is erased |
| `mouse_packet_split` | `Ps2Mouse` alone | **violated**: three bytes that are not a packet are applied |
| `console` | a buffer of three keys, four keys, a history of three rows of four characters | keys in order; the console is a `Terminal`; the window is current |
| `drawing` | two rows of two bytes of two pixels in four colours, two GUI calls and two places of a cursor of two pixels, two system calls | system calls and undisturbed calls draw right; damage is confined to the call interrupted; the cursor leaves no trace where nobody drew under it |
| `screen_differs` | the call that erases the clock, alone | **violated**: screen and shadow differ |
| `io_manager` | a heap of seven objects | lists sound in the middle of every call, nothing leaks, the screen keeps its device, a `DeviceRegistry` is implemented |
| `kernel_boot` | lines 0, 1 and 12, three states of the firmware's masks, six exceptions, registers of the VGA all 0 or all 255 | from the first instruction to the threads: interrupts reach their stubs, nothing stays in service, ticks go on, ring 3 finds everything ready, messages can be read, the desktop is in its mode and colours |
| `start_menu` | as `mouse_service` | **violated**: no click is ever on the Start button |
| `text_colours` | as `kernel_boot` | **violated**: a panic is not white on red |

### Bounds

* `sched_kernel_main`: three threads beside the idle one are enough for a dead
  thread to lie between two live ones in the ring, for one to exit while another
  yields, and for the once-around search to start anywhere. Both quanta of the
  source (10, and 5 at creation) give slices that end by themselves, by a yield
  and by an exit. `TICK_MOD` bounds the tick counter, which nothing in the
  scheduler reads. `NFRAMES` and `USER_FRAMES` make the fourth creation fail
  half-way and the fifth at its first request.
* `ReadyQueue`: four threads give a removal of head, tail, middle and only
  element, each with a current thread elsewhere or gone.
* `Pmm`: ends of RAM inside a page, on a page, at the start of the pool and past
  its end; a pool that runs dry and fills again.
* `Vmm`: `MCPoolEnds` goes from a pool that just holds the kernel's own tables
  to one that holds two processes, frame by frame: every request is the one that
  fails in some behaviour. The stack has two pages, so that sharing a frame
  between pages of one stack, or between stacks, is possible.
* `mouse_service`, `console`: a ring of three slots is empty, half full, full,
  and wraps. Three events differ in position and in buttons. Three rows of four
  characters are filled by a banner and a command; a line reaches its limit, a
  row is cut, the history wraps with every offset.
* `drawing`: pixels share bytes, rectangles begin and end inside a byte, span
  whole bytes and rows, and one passes the right border, as the clock's does.
  The two places of the cursor overlap, one passes the right border, one of its
  pixels is transparent; each kind of caller draws under it, and beside it.
* `Desktop`: the movement is one that takes the pointer over its clamp in three
  packets, so that dots coincide, stop and start again. `KEY_GAP` is 2: at most
  three packets in two ticks. The mouse sends no more than 100 a second after a
  reset, as often as the timer ticks (`hal.c:25`), so that the code sees fewer.
  With 1 the trail of eight dots is too short for five ticks, and `TrailErased`
  is violated.
* `WallClock`: base 2 for each of six registers; only carries matter. At most one
  second passes during a reading, which takes microseconds.
* `kernel_boot`: lines 0 and 1 are the ones the kernel serves, line 12 is the
  mouse's, whose interrupt MouseInit enables at the mouse and which stays masked,
  on the second controller. The firmware masks nothing, the mouse's lines, or
  everything. Vectors 0, 6, 8, 13 and 14 have stubs of their own, 3 has the
  generic one. Registers full of zeros leave the CRT controller unlocked, full of
  ones locked; the port of the attribute controller starts at either side. The
  proofs do without these bounds.
* `io_manager`: seven objects are two drivers with their devices and extensions
  and one more device, or one driver with three devices; each malloc of a
  creation is the first to fail in some behaviour. One address per object
  abstracts the sizes, which only decide which malloc that is.

### Fairness

Only weak fairness, and only of what the hardware and finite code guarantee. In
`Scheduler`: the boot code runs to its end, the timer keeps requesting
(`TimerRaise`), a request that can be delivered is delivered (`TimerIrq`), a
system call ends (`SyscallReturn`, `Yield` or `Exit`), and a critical section
ends (`Sti`). User code is never assumed to do anything. In `KeyboardRing` and
`Console`: the GUI thread goes on (`GuiThread`, `GuiStep`), because
`GuiMainLoop` drains the buffer in every round and `EveryThreadRuns` shows that
the thread gets the CPU. In `KernelBoot`:
kernel_main, a program for the VGA and the stubs go on, a request the processor
may take is taken, and a section with interrupts off ends, because each is
straight-line code. Nothing makes the timer raise its line there: `TicksGoOn` is
about a tick that is due. The other modules make no liveness claim.

## 4. Proofs

`SchedulerProofs` proves, for every size of the tables, every quantum, pool and
boot plan, that the safety properties of the runs above always hold:
`TypeCorrect`, `OneRunningAlways`, `IdleRunnableAlways`, `ContextIntactAlways`,
`MachineFollowsAlways`, `EveryProcessQueuedAlways`, `DeadStaysOffAlways`,
`SliceHonouredAlways`. None of them is inductive by itself. The invariant `IInv`
adds: where kernel_main has come to (`BootInv`); that pids of active processes
are unique and below `g_next_pid`, so that the search by pid that
`scheduler_tick` does finds the right directory (`ProcessInv`); that no frame is
the kernel stack of two threads (`StackInv`); and that every thread has a home
stack (the boot stack for the idle thread, its kernel stack for the others) on
which it is interrupted and from which it is resumed (`DispatchInv`,
`FrameInv`). `TickInv` is the heart: entered on the home stack of the current
thread, `scheduler_tick` ends on the home stack of the thread it picked, with
that thread's own frame. The statements about frames have the hypothesis
`StacksPresent`: every thread got a kernel stack. The code does not guarantee it
(`process.c:350` uses the frame unchecked), but kernel_main creates its
two processes while nearly all frames are free.

`SchedulerIsRoundRobin` proves that `Scheduler` implements the safety part of
`RoundRobin`. The waiting line is the circular list, read from the successor of
the current thread once around, without the dead. One invariant more is needed:
no thread is twice in the list (`NoRepeats`), since a slot is taken once and the
idle thread appended once. `ReadFromSplit` splits the list at the thread chosen;
`BetweenMet` says that what lies before it was met first by the walk of
`queue_next_ready`, so that all of it is dead; hence the choice is the head of
the line (`LineMoves`), and going round from it leaves the old current thread
last. An exit takes the thread from the living but not from the list, and does
not change the line, because the current thread is not in it (`LineOfOthers`).
The lemmas `Only...` about selecting from a list are by induction on its length.

`KernelPartsProofs` holds a part for each of five modules.

Of `Pmm` it proves for every page size, memory map and bitmap size that
`Accounting` holds (`AccountingAlways`), that frames lie in RAM when RAM reaches
the start of the pool (`FramesInRamWithEnough`; the hypothesis is needed, see
section 5), and that `Pmm` implements `FrameAllocator`. The invariant adds that
bits outside the pool are never clear and that the size of the pool is what
`pmm_init` computed. `CountClear` and `PoolCount` are the facts about
cardinalities the counters rest on.

Of `ReadyQueue` it proves, for every set of threads, `RingShapeAlways` and
`RingImplementsRunQueue`. The invariant, `Lists(q)`, is that the pointers are
those of some sequence `q` without repetition: the head is its first, the tail
its last, each `next` the one after, round to the head, and threads outside have
a null `next` (what insertion needs). Each operation takes the pointers of one
sequence to those of the next (`InsertLists`, `RemoveListed`, `CandidateIsFirst`).
A walk over `next` is a recursive function of the number of steps; that its
equation has a solution (`WalkExists`) and where it stands after every step
(`WalkRound`) are inductions over that number.

Of `Syscall` it proves `StubTransparentAlways`, for every call of the library: the
invariant `StubInv` says for every point of `syscall_entry` which word lies where
on the kernel stack and which registers still hold the caller's values.

Of `WallClock` it proves `ShownWasTimeAlways`, for every radix of the registers:
the first register read is the one that a second without carry changes, so that
the others, read later, are still those of the beginning (`NoCarry`).

Of `Vmm` it proves `KernelVisibleAlways`, `UserPagesReachableAlways` and
`StacksPrivateAlways`, for every size of tables, pool and image and any number of
processes (with a stack of at least two pages, `PlacesAssumption`). The invariant
is about owners, the kernel and the processes that have a directory: a frame is
used by at most one owner and in one role (directory, table, page of a stack,
kernel stack), because every frame is taken from `free` and none comes back
(`Apart`, `Ownership`). The one exception is the sharing of section 5: when the
pool has run dry a process may point at a table of the kernel, always under the
same index. `Contents` says for every step of the loops of `vmm_init`,
`vmm_clone_kernel_mappings` and `proc_create_user` which pages have been reached;
`StackDone` leaves out the page `vmm_map_page` did not map for want of a table,
after which there is no frame for the next page either and creation gives up.

`ConsoleProofs` proves `LoadedKeyStaysAlways` for every size of the buffer:
between the load of a key and the advance of the tail, IRQ1 never overwrites the
slot. The invariant relates the local variable to the slot at the tail.
`MouseServiceProofs` proves `WholeEventsInProgramOrder` for every size of the ring
and every set of events: the slots from tail to head hold events of the mouse,
the slot being filled is not one of them, and the fields stored so far are those
of the event at hand. Its hypothesis, `ProgramOrder`, is that the stores happen
in the order of the source. From the same invariants the two modules prove that the
ring is a queue: `MouseRingIsQueue` is `ImplementsLossyQueue` under
`ProgramOrder`, `KeyboardRingIsQueue` the part of it without fairness.
`CommonTheorems` holds what that takes: advancing the head appends, advancing the
tail takes the first element, a store at the head touches nothing that waits.

`MouseServiceProofs` also proves `PromptPacketsWholeAlways`, of the driver within
the poll of `GuiMainLoop`: the invariant `PacketInv` is about the stream of bytes.
What is in the output buffer and still to be sent is, at every read of
`MouseInit`, just the answers the later reads expect (`Answers`), and at every
access of `MouseRead` just the bytes of the packet that are missing. The byte of a
key may come before them, with its request: IRQ1 is pending as long as a scan code
is in the buffer, and no longer (`Incoming`). So a poll that found a byte of the
mouse finds no request pending, and the read after it takes that byte
(`Buffered`). The theorem has three exceptions, which the code meets and cannot
tell: a `MouseInit` that did not get its replies, a `MouseRead` that returned in
the middle of a packet, and a poll that found the byte of a key (section 5). And it
proves `TrailErasedAlways` of `Desktop`, for every screen and every trail with
`LongTrail`: a buffer that holds all dots pushed in the life of one. `Crowded`
bounds how far down the buffer a dot of some age can have come, since every place
took a tick or a key, so that none is pushed out alive. The constants of the
source satisfy `LongTrail` for a mouse as slow as section 3 says; without it the
theorem fails, as said there.

Of `Console` the module `ConsoleProofs` proves, for every size of the console and
of the buffer and whatever the texts are, `WindowCurrentAlways` and
`ConsoleImplementsTerminal`; that `Console` keeps what is proved of the buffer is
`ConsoleLoadedKeyStays` and `ConsoleBufferIsQueue`. The ring of rows is read as
the sequence `Lines`: a line that fits is appended (`FreeRow`), a line too many
takes the row of the oldest and shifts the sequence (`OldestRow`), in both cases
`AddLineFacts`. What `ConsolePrint` goes through is a recursive function of the
number of lines; that its equation has a solution (`RunExists`) and what it has
scrolled after every line (`ScrolledAlways`) are inductions over that number,
which rest on `LastRowsConcat`: what has scrolled away never comes back. The
invariant `ConsoleInv` adds that the console is closed before `GuiInit` clears
it, and that the input line leaves room for its terminating zero, so that
`ConsoleAddLine` does not cut it.

`IoManagerProofs` proves `ScreenKeepsDeviceAlways` for every size of the heap: an
address is handed out once, so a device that is published is older than the three
objects a failing `IoCreateDriver` frees. It proves `ListsSoundAlways` and
`NothingLeaksAlways` from the same fact: a link leads to an older object, so that
every list ends, and what is on the lists can be described by a function `s` from
addresses to sets (`Reach`, whose equation has a solution by induction over
addresses). The invariant `ListInv` says what every address that is allocated is
for, driver, device or extension (`Placed`), that each is reached from a list or
held by the call in progress (`Accounted`), and where that call is (`Progress`).
`ReachSame` and `ReachWithout` are the facts about lists every step uses: a store
elsewhere does not change a list, and unlinking takes one element out.

`IoManagerIsRegistry` is the refinement. The sets of `Reach` forget the order, so
the lists are read a second time as sequences, `Chains`: where `Shape` holds they
satisfy `Follows`, and no other function does (`ChainsSame`). A store to an object
that is on no list changes none (`KeptChains`), linking at the head prepends
(`DevicesPrepend`, `DriversPrepend`), and unlinking in the loops of
`IoDeleteDevice` and `IoDeleteDriver` removes the element at one index
(`ChainsWithout`, `CutFacts`). `RegistryOf` builds the registry from the chains,
what each driver owns and the names, and there is a lemma for each kind of step:
those the registry does not see (the `...Quiet` lemmas, which hold in the middle
of every call) and those that are a step of it (the `...Maps` lemmas).
`IoGetDeviceByName` walks the lists within lists; `FirstCalledFinds` and
`FoundFinds` say that its nested loops stop at the first match, and `PlacesAre`
relates that to the indices of the registry.

`KernelBootProofs` first shows that `KernelBoot` implements `Interrupts`
(`BootImplementsInterrupts`): whatever the VGA needs in between, its steps are
steps of the boot or leave it alone. What follows holds of both, for all lines,
firmware masks, exceptions and fills. `Routed`, `ServiceEnds` and `UserReady`
prove `InterruptsRouted`, `NothingLeftInService` and `RingThreeReady`. Their
invariant `IInv` says for every stage of kernel_main which tables, vectors and
masks are in place (`BootInv`), and for every point of every stub what is in
service, so that a non-specific EOI ends the right line (`StubInv`). `EoiEnds`
is the fact about priorities: with one line in service, or line 2 and one line of
the second chip, an EOI to each chip ends just those.

Of the mode changes it proves `DesktopAlwaysShows` and `MessagesAlwaysReadable`,
for every content of the registers at the start. Which access stands at which
place of a program is found by taking the concatenations apart (`Join`,
`SplashProgram`, `DesktopProgram`). The part all three changes share is `FillAt`;
`Filled(n, ...)` says what holds when `n` of its accesses are made: the registers
already reached have the values of the tables, the CRT controller is unlocked as
long as registers come that need it, the port of the attribute controller expects
index and data in turn, and the picture is off while the palette is written.
`FillStep` takes `n` to `n + 1`. `TextAt`, `SplashAt` and `DesktopAt` do the same
for whole programs; in `SplashAt` registers 1 and 3 of the graphics controller
stay 0 from mode 13h on, because `load_font` does not write them and the font
would not reach plane 2 otherwise (`FontLoads`). `VgaInv` adds which stages of
kernel_main run between the programs, so that a message, written in one of
`TextStages`, meets a complete text mode.

`DrawingProofs` proves what the runs check of `Drawing`, but for what the code
violates (`screen_differs`), for every screen, every bitmap of the cursor and
every set of drawing calls: `CursorLeavesNoTraceAlways`, `CallsDrawRightAlways`
and `DamageConfinedAlways`. Its first part is about the calls themselves,
sequences put together row by row, byte by byte and plane by plane:
`Paints(u, W)` says that the stores of `u` to the shadow are those of `W`, each
made at least once, and that what else `u` does leaves the shadow and the saved
colours alone. It holds of `VgaPutPixel`, of `VgaFillRect`, where the three parts
of a row stay within the row (`RowParts`, `DrawAccessesPaint`), and of
`CursorErase`; `RunPaints` draws from it what a whole system call does.

The second part is the invariant `CursorInv`. Between moves (`AtRest`) a pixel
that is not spoiled shows the picture or lies under the arrow, and what is saved
under the cursor is the picture. During a move (`InMove`) the accesses left are
stores that erase, then saves, then stores of the arrow (`MoveShape`), and every
pixel that does not show the picture has its erasing store still to come, until
the saves are over; every pixel of the new place is saved or will be. That a save
meets the picture, although the old and the new place may overlap, follows from
the order: when a save is made no erasing store is left (`TailFacts`,
`MoveStep`).

The third part is about the frame buffer. `Claim(P, c, D, M)` is what is known of
a screen: the pixels of `P` have colour `c` in the shadow, the planes of bytes in
`D` show the shadow, the planes selected are among `M`. `Leads(u, K, L)` says that
the accesses of `u` lead from any screen that fits claim `K` to one that fits `L`,
and is shown of one plane of a byte (`PlaneRebuilt`), of a byte (`ByteRebuilt`),
of `VgaPutPixel`, of the head, the whole bytes and the tail of a row
(`RowShows`), of `VgaFillRect` (`FillRectShows`) and of the parts of a move
(`MoveCursorAdds`). A store to the shadow makes its byte wrong (`StoreStep`), and
the accesses that rebuild it do not rely on what it showed, nor on the map mask:
that is why a call is right from whatever screen it begins. `DrawInv` carries
this over the accesses of the GUI thread: as long as no system call draws, those
left make the bytes of the call right (`WillShow`). `TouchInv` says that they
store to bytes of the call and of its overrun only, and `FillRectTouches` bounds
that overrun, the bytes of a row that `VgaFillRect` does not clip.

The assumptions of the proofs are the named ones of the modules
(`LimitsAssumption`, `BootPlanAssumption`, `LayoutAssumption`,
`MemUpperAssumption`, `SizesAssumption`, `PlacesAssumption`, `HeapAssumption`,
`SizeAssumption`, `KeysAssumption`, `EventsAssumption`, `StoreOrderAssumption`,
`InputsAssumption`, `FillsAssumption`, `ThreadsAssumption`, `RadixAssumption`,
`TrailAssumption`, `ConsoleAssumption`, `ScreenAssumption`); TLC evaluates them in the runs.

Only model-checked: liveness (`EveryThreadRuns`, `TicksGoOn`, the fairness in
`ImplementsRoundRobin`, and that a key in the buffer is taken). Every invariant
and every action property of a passing run is stated by a theorem.

## 5. Where the code and its comments differ

Each with a run that TLC finds violated:

* `libsys.h:12` says the result is returned in EAX and `syscall.c:88` that
  registers are preserved. `syscall_entry` calls `dump_stack` after restoring
  them (`syscall.c:148`): EAX, ECX and EDX are lost. Run `syscall_result_lost`.
* `vga_screen.c:21` calls the shadow a copy of the state of each pixel.
  `VgaFillRect` clips the pixels of the shadow but not the bytes it writes
  (`vga_screen.c:198`): the rectangle the clock is erased with (`vga_gui.c:558`)
  reaches the left end of the following rows. Run `screen_differs`.
* `ps2mouse.c:95` says `MouseRead` reads a packet of three bytes if there are
  data. With less than three there it drops those it has read, and from then on
  cuts the stream in the wrong places. Run `mouse_packet_split`, in which no poll
  finds a key's byte.
* `vga_gui.c:611` says a left click on the Start button toggles the menu. The
  button is rows 471 to 478 (`vga_gui.c:613`), and `MouseRead` keeps the pointer
  at or above row 468 (`ps2mouse.c:112`). Run `start_menu`.
* `kernel_panic` writes white on red (`main.c:46`) and `boot_splash.c:381` calls
  the palette of `set_mode3` the standard one. Colours 1 to 4 and 7 of the DAC
  are still those of the splash (`boot_splash.c:435`): a panic is white on pale
  yellow. Run `text_colours`.

Seen while modelling, without a run of their own:

* The wrappers of `sys_get_mouse_state`, `sys_get_mouse_event` and `sys_debug`
  pass their pointer as argument 1 (EBX); the handlers take it from argument 2
  (`syscall.c:234`, `255`, `283`). An event is taken from the queue and does not
  reach the process. `StubTransparent` excepts these three calls.
* `MouseRead` does not test which device a byte is from (bit 5 of the status). A
  poll that finds the byte of a key before IRQ1 has come makes that scan code the
  first, second or third byte of a packet, whether IRQ1 reads the port between the
  poll and the read, which then gets the same byte again (`ps2mouse.c:96`, `98`),
  or never, the request being withdrawn; the mouse's own bytes are at the wrong
  place from then on. When `SomethingThere` leaves `smooth` alone TLC finds
  `PromptPacketsWhole` violated, by three scan codes taken for a packet. The same
  read is what makes the controller answer with line 7 (`Withdraw` in
  `Interrupts`).
* Only the indices of the mouse ring are volatile: gcc 12 with the flags of
  `CMakeLists.txt` (-O2) stores the head before the buttons
  (`vga_gui.c:453-456`), so that an event can be delivered with the buttons of
  an older one. With `StoreOrder <- <<"x", "y", "head", "buttons">>` TLC finds
  `WholeEvents` violated.
* `vga_gui.c:229` says the console window is repainted when its content changes;
  Enter repaints before it empties the line (`vga_gui.c:202`), so that the
  executed command stays on the input line. `WindowCurrent` excepts this.
* `process.h:73` calls the kernel stack "siempre presente"; the frame for it is
  not checked (`process.c:350`), and the thread that gets none has its stack at
  page 0.
* `scheduler.h:29` says the idle process runs when there is nobody else; it is
  an ordinary member of the ring and takes full slices while others are READY.
* `scheduler.h:57` speaks of removing threads that die; nothing does, they stay
  in the ring.
* `pmm.c:57` says frames up to the end of RAM are freed; with RAM below the pool
  the subtraction of line 60 wraps and frames that do not exist are freed.
* When the pool runs dry while the kernel's tables are cloned, the process's
  directory points at the kernel's own table, with `PTE_USER` (`vmm.c:104`).
* `VgaInitializeDevice` says it clears the screen (`vga_init.c:195`), but
  `VgaClearScreen` returns at once while `g_VgaDevice` is null, which it is until
  the driver's entry routine ends. `VgaDriverUnload` leaves `g_VgaDevice` at the
  deleted device; nothing unloads a driver.
* The trail draws its pixels under the cursor and later paints them in the
  colour of the desktop (`vga_gui.c:569`, `574`), whatever was there: over the
  console window it leaves points, and a point the cursor saved comes back when
  the cursor moves on. `CursorLeavesNoTrace` excepts what is drawn under the
  cursor.
* `vga_gui.c:551` says a cursor on the task bar is erased; `CursorErase` returns
  at once there (`vga_cursor.c:66`). The pointer never gets there, see above.
* `main.c:110` and `main.c:210` look for a page fault that happened before; the
  stub of a page fault never returns (`idt.c:272`).
* `exc_gpf` calls `gpf_report` with the processor's frame as arguments: what is
  printed as EIP is the error code, and the EIP as ERR (`idt.c:194`, `242`).
* `hal.c:17` says interrupts are on after `idt_init`; they are off until the last
  line of kernel_main (`main.c:311`). `boot_splash.c:13` says the splash comes
  before GDT and IDT; it comes after them (`main.c:95`).
* `vga_gui.c:304` reads the clock "de forma atomica": no interrupt comes between
  the registers, but the chip's own update does. `ShownWasTime` says what is
  still true, and excepts a minute that begins during the reading.
* `scheduler.h:28` names a quantum of 5 where the constant is 10;
  `KERNEL_STACK_SIZE` is 8192 where one frame of 4096 bytes is allocated.

## 6. What is not modelled, and why

* Shapes: glyphs, lines, characters, the logo and the bar of the splash, the
  layout of messages and windows, beeps. No statement of the code or its comments
  relates them to other state.
* The serial port: output that nothing waits for but its own ready bit.
* The byte helpers of `lib/memory.c` and `lib/string.c`, pure and short.
* Functions nothing calls: `vmm_unmap_page`, `HalQueryDisplayParameters`,
  `VgaReadGraphicsController`, the text branch of `VgaSetMode`.
* FreeLoader (`boot/freeldr`), the boot sectors and the boot video: the boot
  chain is GRUB and `kernel.elf` (`boot_splash.c:8`). The first is a program that
  never runs, the others are adapted from ReactOS and isolinux, in real mode,
  through the BIOS.
* Time. No module counts time finer than interrupts and clock seconds: delays are
  loops of instructions, and no line says how long they must last.
* An exhausted pool while kernel stacks are allocated (`process.c:350`): the
  properties of `Scheduler` that it would break have the hypothesis
  `StacksPresent`.
