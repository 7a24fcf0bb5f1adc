-------------------------- MODULE SchedulerProofs --------------------------
(***************************************************************************)
(* Proofs about Scheduler, for every table size, quantum, pool of frames   *)
(* and boot plan: the invariants and action properties, and that it        *)
(* implements RoundRobin.                                                  *)
(***************************************************************************)
EXTENDS SchedulerRoundRobin, CommonTheorems

-----------------------------------------------------------------------------
(* Facts about the helpers.                                                *)

(* The two slots proc_init takes exist, and the named stacks are distinct. *)
LEMMA Slots ==
  /\ Idle \in Threads /\ Idle \in Procs
  /\ NoThread \notin Threads
  /\ KernelDir \in 1 .. NFRAMES
  /\ BootStack \in Stacks /\ BootStack \notin LowPage .. NFRAMES
  /\ LowPage \in Stacks /\ NoStack \notin Stacks
  /\ LowPage .. NFRAMES \subseteq Stacks
BY LimitsAssumption DEF Idle, Threads, Procs, NoThread, KernelDir, BootStack,
   Stacks, LowPage, NoStack

(* pmm_alloc_frame returns an address of the pool or 0 and never counts    *)
(* past the end of the pool.                                               *)
LEMMA AllocFrame ==
  ASSUME NEW used \in 1 .. NFRAMES
  PROVE  /\ FrameAfter(used) \in LowPage .. NFRAMES
         /\ UsedAfter(used) \in 1 .. NFRAMES
         /\ used <= UsedAfter(used)
         /\ FrameAfter(used) <= UsedAfter(used)
         /\ FrameAfter(used) # LowPage =>
              FrameAfter(used) = used + 1 /\ UsedAfter(used) = used + 1
BY LimitsAssumption DEF FrameAfter, UsedAfter, LowPage

(* Appending a thread to the queue adds it to the queued threads.          *)
LEMMA QueuedAppend ==
  ASSUME NEW t \in Threads, readyq \in Seq(Threads), readyq' = Append(readyq, t)
  PROVE  Queued' = Queued \cup {t}
<1>1. Len(readyq') = Len(readyq) + 1 /\ Len(readyq) \in Nat
  OBVIOUS
<1>2. \A i \in 1 .. Len(readyq') :
        readyq'[i] = IF i <= Len(readyq) THEN readyq[i] ELSE t
  BY <1>1
<1> QED
  BY <1>1, <1>2 DEF Queued

(* The queue holds threads only.                                           *)
LEMMA QueuedThreads == readyq \in Seq(Threads) => Queued \subseteq Threads
BY DEF Queued

-----------------------------------------------------------------------------
(* Type correctness.                                                       *)

(* The statics as the loader leaves them are typed.                        *)
LEMMA InitType == Init => TypeOK
<1> SUFFICES ASSUME Init PROVE TypeOK
  OBVIOUS
<1> USE DEF Init
<1>1. /\ tid \in [Threads -> Nat] /\ pid \in [Threads -> Nat]
      /\ quantum \in [Threads -> Nat] /\ proc_pid \in [Procs -> Nat]
      /\ active \in [Procs -> BOOLEAN] /\ page_dir \in [Procs -> 0 .. NFRAMES]
      /\ kstack \in [Threads -> LowPage .. NFRAMES]
  BY LimitsAssumption DEF LowPage
<1>2. saved_context \in [Threads -> Stacks \cup {NoStack}]
  OBVIOUS
<1>3. state \in [Threads -> States]
  BY DEF States
<1>4. cpu \in [thr : {NoThread} \cup Threads, mode : Modes, stack : Stacks]
  BY Slots DEF Modes
<1>5. frame \in [Stacks -> Frames]
  BY DEF Frames, NoFrame, Modes
<1>6. frames_used \in 1 .. NFRAMES /\ g_ticks \in 0 .. TICK_MOD - 1
      /\ cr3 \in 1 .. NFRAMES /\ esp0 \in LowPage .. NFRAMES
  BY LimitsAssumption DEF KernelDir, LowPage
<1>7. todo \in Seq({"kernel", "user"})
  BY BootPlanAssumption
<1>8. readyq \in Seq(Threads)
  OBVIOUS
<1>9. /\ next_tid \in Nat \ {0} /\ next_pid \in Nat \ {0}
      /\ g_current_thread \in {NoThread} \cup Threads
      /\ sched_current \in {NoThread} \cup Threads
      /\ boot \in {"proc_init", "create", "ready", "run"}
  OBVIOUS
<1>10. pending \in BOOLEAN
  OBVIOUS
<1> HIDE DEF Init
<1> QED
  BY <1>1, <1>2, <1>3, <1>4, <1>5, <1>6, <1>7, <1>8, <1>9,
     <1>10 DEF TypeOK

(* What StartThread leaves behind: a typed thread slot, one more thread in *)
(* the queue, its initial frame at the top of its kernel stack.            *)
LEMMA StartThreadType ==
  ASSUME TypeOK, NEW t \in Threads, NEW owner \in Nat, NEW mode \in Modes,
         NEW used \in 1 .. NFRAMES, StartThread(t, owner, mode, used)
  PROVE  /\ tid' \in [Threads -> Nat] /\ pid' \in [Threads -> Nat]
         /\ state' \in [Threads -> States] /\ quantum' \in [Threads -> Nat]
         /\ kstack' \in [Threads -> LowPage .. NFRAMES]
         /\ saved_context' \in [Threads -> Stacks \cup {NoStack}]
         /\ frame' \in [Stacks -> Frames]
         /\ frames_used' \in 1 .. NFRAMES
         /\ next_tid' \in Nat \ {0}
         /\ readyq' \in Seq(Threads)
<1> USE DEF TypeOK, StartThread
<1>1. tid' \in [Threads -> Nat] /\ pid' \in [Threads -> Nat] /\ next_tid' \in Nat \ {0}
  OBVIOUS
<1>2. state' \in [Threads -> States]
  BY DEF States
<1>3. quantum' \in [Threads -> Nat]
  BY LimitsAssumption
<1>4. FrameAfter(used) \in LowPage .. NFRAMES /\ FrameAfter(used) \in Stacks
  BY AllocFrame, Slots
<1>5. kstack' \in [Threads -> LowPage .. NFRAMES]
      /\ saved_context' \in [Threads -> Stacks \cup {NoStack}]
  BY <1>4
<1>6. frame' \in [Stacks -> Frames]
  BY <1>4 DEF Frames
<1>7. frames_used' \in 1 .. NFRAMES
  BY AllocFrame
<1>8. readyq' \in Seq(Threads)
  OBVIOUS
<1> QED
  BY <1>1, <1>2, <1>3, <1>5, <1>6, <1>7, <1>8

(* The process slot alloc_process fills is typed when its directory is.    *)
LEMMA AllocProcessType ==
  ASSUME TypeOK, NEW p \in Procs, NEW dir \in 0 .. NFRAMES, AllocProcess(p, dir)
  PROVE  /\ proc_pid' \in [Procs -> Nat]
         /\ page_dir' \in [Procs -> 0 .. NFRAMES]
         /\ next_pid' \in Nat \ {0}
BY DEF TypeOK, AllocProcess

(* Pids of active processes are unique, so the table scan of               *)
(* proc_get_process_by_pid finds the only match.                           *)
UniquePids ==
  \A p, r \in Procs : active[p] /\ active[r] /\ proc_pid[p] = proc_pid[r] => p = r

(* With one active process of that pid, the directory scheduler_tick looks *)
(* up is the one of that process.                                          *)
LEMMA DirOfMatch ==
  ASSUME UniquePids, NEW t \in Threads, NEW p \in ProcessesOf(t)
  PROVE  DirOf(t) = page_dir[p]
<1>1. ProcessesOf(t) = {p}
  BY DEF UniquePids, ProcessesOf
<1>2. IsFirst(p, ProcessesOf(t))
  BY <1>1, LimitsAssumption DEF IsFirst, ProcessesOf, Procs
<1>3. \A r \in ProcessesOf(t) : r = p
  BY <1>1
<1>4. (CHOOSE r \in ProcessesOf(t) : IsFirst(r, ProcessesOf(t))) = p
  BY <1>2, <1>3
<1> QED
  BY <1>1, <1>4 DEF DirOf

(* A step of the dispatcher keeps the types, whichever thread it picks.    *)
LEMMA TickType ==
  ASSUME TypeOK, NEW s \in Stacks, NEW m \in Modes, NEW q \in [Threads -> Nat],
         sched_current \in Threads, UniquePids,
         Tick(s, m, q), pending' \in BOOLEAN
  PROVE  TypeOK'
<1>1. frame' \in [Stacks -> Frames]
  BY DEF TypeOK, Tick, Pushed, Frames
<1>2. saved_context' \in [Threads -> Stacks \cup {NoStack}]
  BY DEF TypeOK, Tick
<1>3. g_ticks' \in 0 .. TICK_MOD - 1
  BY LimitsAssumption DEF TypeOK, Tick
<1>4. Charged(q) \in [Threads -> Nat]
  BY DEF Charged
<1>5. Preempted \in [Threads -> States]
  BY DEF TypeOK, Preempted, States
<1>6. ASSUME NEW r \in Stacks, Resume(r)
      PROVE  cpu' \in [thr : {NoThread} \cup Threads, mode : Modes, stack : Stacks]
  BY <1>1, <1>6 DEF Resume, Frames
<1>7. CASE Continue(s, q)
  <2>1. quantum' \in [Threads -> Nat]
    BY <1>4, <1>7, LimitsAssumption DEF Continue
  <2>2. state' \in [Threads -> States]
    BY <1>7 DEF Continue, TypeOK, States
  <2>3. cpu' \in [thr : {NoThread} \cup Threads, mode : Modes, stack : Stacks]
    BY <1>6, <1>7 DEF Continue
  <2> QED
    BY <1>1, <1>2, <1>3, <1>7, <2>1, <2>2, <2>3
       DEF TypeOK, Tick, Continue, processVars, bootVars
<1>8. CASE \E next \in Threads : SwitchTo(next, s, q)
  <2> PICK next \in Threads : SwitchTo(next, s, q)
    BY <1>8
  <2>1. quantum' \in [Threads -> Nat]
    BY <1>4, LimitsAssumption DEF SwitchTo
  <2>2. state' \in [Threads -> States]
    BY <1>5 DEF SwitchTo, States
  <2>3. cpu' \in [thr : {NoThread} \cup Threads, mode : Modes, stack : Stacks]
    BY <1>2, <1>6 DEF SwitchTo, ResumeSaved
  <2>4. cr3' \in 1 .. NFRAMES
    <3>1. CASE ProcessesOf(next) = {}
      BY <3>1, LimitsAssumption DEF SwitchTo, LoadCr3, DirOf, TypeOK
    <3>2. CASE ProcessesOf(next) # {}
      <4>1. cr3' = cr3 \/ (cr3' = DirOf(next) /\ DirOf(next) # 0)
        BY DEF SwitchTo, LoadCr3
      <4>2. CASE cr3' = DirOf(next) /\ DirOf(next) # 0
        <5> PICK p \in ProcessesOf(next) : TRUE
          BY <3>2
        <5> QED
          BY <4>2, DirOfMatch DEF ProcessesOf, TypeOK
      <4> QED
        BY <4>1, <4>2 DEF TypeOK
    <3> QED
      BY <3>1, <3>2
  <2>5. esp0' \in LowPage .. NFRAMES
    BY DEF SwitchTo, TypeOK
  <2> QED
    BY <1>1, <1>2, <1>3, <2>1, <2>2, <2>3, <2>4, <2>5
       DEF TypeOK, Tick, SwitchTo, SetCurrent, processVars, bootVars
<1> QED
  BY <1>7, <1>8 DEF Tick

-----------------------------------------------------------------------------
(* The inductive invariant: initial states.                                *)

(* Before proc_init the tables are empty and kernel_main has the CPU.      *)
LEMMA InitInv == Init => IInv
<1> SUFFICES ASSUME Init PROVE IInv
  OBVIOUS
<1>1. TypeOK
  BY InitType
<1>2. sched_current = NoThread /\ Queued = {} /\ \A t \in Threads : tid[t] = 0
  BY DEF Init, Queued
<1>3. BootInv
  BY <1>2 DEF Init, BootInv, Started
<1>4. ProcessInv
  BY <1>2 DEF Init, ProcessInv
<1>5. StackInv
  BY <1>2 DEF StackInv
<1>6. DispatchInv
  BY <1>2, Slots DEF DispatchInv, OneRunning, IdleRunnable, MachineFollows, Started, NoThread, Idle
<1>7. FrameInv
  BY <1>2 DEF FrameInv, Started
<1> QED
  BY <1>1, <1>3, <1>4, <1>5, <1>6, <1>7 DEF IInv

-----------------------------------------------------------------------------
(* The inductive invariant: the boot code.                                 *)

(* proc_init makes slot 1 of both tables the idle thread and its process.  *)
LEMMA ProcInitInv == IInv /\ ProcInit => IInv'
<1> SUFFICES ASSUME IInv, ProcInit PROVE IInv'
  OBVIOUS
<1> DEFINE stack == FrameAfter(frames_used)
<1>0. frames_used \in 1 .. NFRAMES
  BY DEF IInv, TypeOK
<1>1. /\ stack \in LowPage .. NFRAMES /\ stack \in Stacks
      /\ UsedAfter(frames_used) \in 1 .. NFRAMES
      /\ stack <= UsedAfter(frames_used)
  BY <1>0, AllocFrame, Slots
<1>2. TypeOK'
  <2>1. /\ tid' \in [Threads -> Nat] /\ quantum' \in [Threads -> Nat]
        /\ next_tid' \in Nat \ {0}
    BY Slots DEF IInv, TypeOK, ProcInit
  <2>2. active' \in [Procs -> BOOLEAN] /\ page_dir' \in [Procs -> 0 .. NFRAMES]
    BY Slots DEF IInv, TypeOK, ProcInit
  <2>3. /\ kstack' \in [Threads -> LowPage .. NFRAMES]
        /\ saved_context' \in [Threads -> Stacks \cup {NoStack}]
        /\ frames_used' \in 1 .. NFRAMES /\ esp0' \in LowPage .. NFRAMES
    BY <1>1 DEF IInv, TypeOK, ProcInit
  <2>4. frame' \in [Stacks -> Frames]
    BY <1>1, Slots DEF IInv, TypeOK, ProcInit, Frames, Modes, OpenModes
  <2>5. g_current_thread' \in {NoThread} \cup Threads
    BY Slots DEF ProcInit
  <2> QED
    BY <2>1, <2>2, <2>3, <2>4, <2>5 DEF IInv, TypeOK, ProcInit
<1>3. /\ ~Started /\ ~Started' /\ Queued = {} /\ Queued' = {}
      /\ sched_current = NoThread /\ sched_current' = NoThread
  BY DEF IInv, BootInv, ProcInit, Started, Queued
<1>4. BootInv'
  BY <1>3, Slots DEF IInv, TypeOK, BootInv, ProcInit, Started
<1>5. ProcessInv'
  <2>1. \A p \in Procs : active'[p] => p = Idle
    BY Slots DEF IInv, TypeOK, BootInv, ProcInit
  <2>2. proc_pid'[Idle] = 0 /\ page_dir'[Idle] = KernelDir /\ pid'[Idle] = 0
    BY Slots DEF IInv, TypeOK, BootInv, ProcInit
  <2>3. 0 < next_pid' /\ KernelDir # 0
    BY Slots DEF IInv, TypeOK, ProcInit
  <2> QED
    BY <1>3, <2>1, <2>2, <2>3 DEF ProcessInv
<1>6. StackInv'
  <2>1. \A t \in Threads : tid'[t] # 0 => t = Idle
    BY Slots DEF IInv, TypeOK, BootInv, ProcInit
  <2>2. kstack'[Idle] = stack /\ frames_used' = UsedAfter(frames_used)
    BY Slots DEF IInv, TypeOK, ProcInit
  <2> QED
    BY <1>1, <2>1, <2>2, Slots DEF StackInv
<1>7. DispatchInv'
  BY <1>3, Slots DEF DispatchInv, OneRunning, IdleRunnable, MachineFollows, Started, NoThread, Idle
<1>8. FrameInv'
  BY <1>3 DEF FrameInv
<1> QED
  BY <1>2, <1>4, <1>5, <1>6, <1>7, <1>8 DEF IInv

(* A creation that fails, before or after it has taken frames, leaves only *)
(* an inactive slot and a used pid behind.                                 *)
LEMMA DropInv ==
  ASSUME IInv, boot = "create", NEW p \in Procs, NEW dir \in 0 .. NFRAMES,
         AllocProcess(p, dir), DropProcess(p),
         UNCHANGED <<threadVars, readyq, frame, boot, sched_current,
                     g_current_thread, g_ticks, cpu, pending, cr3, esp0>>,
         frames_used' \in frames_used .. NFRAMES,
         todo' \in Seq({"kernel", "user"})
  PROVE  IInv'
<1> USE DEF threadVars
<1>1. frames_used \in 1 .. NFRAMES /\ frames_used' \in 1 .. NFRAMES
      /\ frames_used <= frames_used'
  BY DEF IInv, TypeOK
<1>2. ~active[p] /\ active' = active
  BY DEF AllocProcess, IsFirst, FreeProcs, DropProcess, IInv, TypeOK
<1>3. TypeOK'
  BY <1>1, <1>2, AllocProcessType DEF IInv, TypeOK
<1>4. Queued' = Queued /\ (Started' <=> Started) /\ ~Started
  BY DEF Queued, Started, IInv, BootInv
<1>5. \A r \in Procs : active[r] => proc_pid'[r] = proc_pid[r] /\ page_dir'[r] = page_dir[r]
  BY <1>2 DEF AllocProcess, IInv, TypeOK
<1>6. BootInv'
  BY <1>2, <1>4, <1>5, Slots DEF IInv, BootInv
<1>7. ProcessInv'
  <2>1. \A t \in Threads : ProcessesOf(t)' = ProcessesOf(t)
    BY <1>2, <1>5 DEF ProcessesOf
  <2>2. \A r \in Procs : active[r] => proc_pid'[r] < next_pid'
    BY <1>5 DEF AllocProcess, IInv, ProcessInv, TypeOK
  <2>3. Queued \subseteq Threads
    BY QueuedThreads DEF IInv, TypeOK
  <2> QED
    BY <1>2, <1>4, <1>5, <2>1, <2>2, <2>3 DEF IInv, ProcessInv
<1>8. StackInv'
  BY <1>1 DEF IInv, StackInv, TypeOK, LowPage
<1>9. DispatchInv'
  BY <1>4, Slots DEF IInv, DispatchInv, OneRunning, IdleRunnable, MachineFollows, Home, Started
<1>10. FrameInv'
  BY <1>4 DEF IInv, FrameInv, StacksPresent, Home
<1> QED
  BY <1>3, <1>6, <1>7, <1>8, <1>9, <1>10 DEF IInv

(* A creation that succeeds adds a thread with a process, a place in the   *)
(* queue, and a frame of its own on its own stack.                         *)
LEMMA CreateInv ==
  ASSUME IInv, boot = "create", NEW p \in Procs, NEW t \in Threads,
         NEW dir \in 1 .. NFRAMES, NEW mode \in Modes,
         NEW used \in frames_used .. NFRAMES,
         AllocProcess(p, dir), KeepProcess(p), StartThread(t, next_pid, mode, used),
         UNCHANGED <<boot, sched_current, g_current_thread, g_ticks,
                     cpu, pending, cr3, esp0>>,
         todo' \in Seq({"kernel", "user"})
  PROVE  IInv'
<1>1. used \in 1 .. NFRAMES /\ frames_used \in 1 .. NFRAMES /\ frames_used <= used
      /\ next_pid \in Nat \ {0}
  BY DEF IInv, TypeOK
<1>2. active' = [active EXCEPT ![p] = TRUE] /\ active' \in [Procs -> BOOLEAN]
  BY DEF KeepProcess, IInv, TypeOK
<1>3. TypeOK'
  <2>1. next_pid \in Nat /\ dir \in 0 .. NFRAMES
    BY <1>1
  <2>2. /\ tid' \in [Threads -> Nat] /\ pid' \in [Threads -> Nat]
        /\ state' \in [Threads -> States] /\ quantum' \in [Threads -> Nat]
        /\ kstack' \in [Threads -> LowPage .. NFRAMES]
        /\ saved_context' \in [Threads -> Stacks \cup {NoStack}]
        /\ frame' \in [Stacks -> Frames]
        /\ frames_used' \in 1 .. NFRAMES
        /\ next_tid' \in Nat \ {0}
        /\ readyq' \in Seq(Threads)
    BY <1>1, <2>1, StartThreadType DEF IInv
  <2>3. /\ proc_pid' \in [Procs -> Nat]
        /\ page_dir' \in [Procs -> 0 .. NFRAMES]
        /\ next_pid' \in Nat \ {0}
    BY <2>1, AllocProcessType DEF IInv
  <2> QED
    BY <1>2, <2>2, <2>3 DEF IInv, TypeOK
<1>4. ~active[p] /\ tid[t] = 0 /\ tid[Idle] # 0 /\ t # Idle /\ p # Idle
  BY DEF AllocProcess, StartThread, IsFirst, FreeProcs, FreeThreads, IInv, BootInv
<1>5. Queued' = Queued \cup {t} /\ t \notin Queued /\ Queued \subseteq Threads
  <2>1. Queued' = Queued \cup {t}
    BY QueuedAppend DEF StartThread, IInv, TypeOK
  <2>2. t \notin Queued
    <3>1. \A u \in Queued : tid[u] # 0
      BY DEF IInv, ProcessInv
    <3> QED
      BY <1>4, <3>1
  <2>3. Queued \subseteq Threads
    BY QueuedThreads DEF IInv, TypeOK
  <2> QED
    BY <2>1, <2>2, <2>3
<1>6. ~Started /\ ~Started' /\ sched_current = NoThread /\ sched_current' = NoThread
  BY DEF IInv, BootInv, Started
<1>7. /\ proc_pid'[p] = next_pid /\ page_dir'[p] = dir /\ next_pid' = next_pid + 1
      /\ \A r \in Procs \ {p} : /\ proc_pid'[r] = proc_pid[r]
                                /\ page_dir'[r] = page_dir[r]
                                /\ active'[r] = active[r]
  BY <1>2 DEF AllocProcess, IInv, TypeOK
<1>8. /\ pid'[t] = next_pid /\ state'[t] = "READY" /\ tid'[t] # 0
      /\ kstack'[t] = FrameAfter(used) /\ saved_context'[t] = FrameAfter(used)
      /\ \A u \in Threads \ {t} : /\ pid'[u] = pid[u] /\ tid'[u] = tid[u]
                                 /\ state'[u] = state[u] /\ kstack'[u] = kstack[u]
                                 /\ saved_context'[u] = saved_context[u]
  BY DEF StartThread, IInv, TypeOK
<1>9. /\ FrameAfter(used) <= UsedAfter(used) /\ used <= UsedAfter(used)
      /\ FrameAfter(used) \in LowPage .. NFRAMES
      /\ FrameAfter(used) # LowPage => FrameAfter(used) = used + 1
      /\ frames_used' = UsedAfter(used) /\ UsedAfter(used) \in 1 .. NFRAMES
  BY <1>1, AllocFrame DEF StartThread
<1>10. BootInv'
  BY <1>2, <1>4, <1>5, <1>6, <1>7, <1>8, Slots DEF IInv, BootInv
<1>11. ProcessInv'
  <2>0. /\ \A r \in Procs : active[r] => /\ proc_pid[r] < next_pid /\ proc_pid[r] \in Nat
                                       /\ page_dir[r] # 0
        /\ \A r, q \in Procs :
             active[r] /\ active[q] /\ proc_pid[r] = proc_pid[q] => r = q
    BY DEF IInv, ProcessInv, TypeOK
  <2>1. \A r, q \in Procs :
          active'[r] /\ active'[q] /\ proc_pid'[r] = proc_pid'[q] => r = q
    BY <1>1, <1>7, <2>0
  <2>2. \A r \in Procs : active'[r] => proc_pid'[r] < next_pid' /\ page_dir'[r] # 0
    BY <1>1, <1>7, <2>0
  <2>3. \A u \in Queued' : tid'[u] # 0 /\ ProcessesOf(u)' # {}
    <3>1. p \in ProcessesOf(t)'
      BY <1>2, <1>7, <1>8 DEF ProcessesOf, IInv, TypeOK
    <3>2. ASSUME NEW u \in Queued PROVE ProcessesOf(u) \subseteq ProcessesOf(u)'
      BY <1>4, <1>5, <1>7, <1>8 DEF ProcessesOf
    <3> QED
      BY <1>5, <1>8, <3>1, <3>2 DEF IInv, ProcessInv
  <2>4. \A r \in Procs : active'[r] =>
          \E u \in Queued' \cup {Idle} : pid'[u] = proc_pid'[r]
    BY <1>4, <1>5, <1>7, <1>8, Slots DEF IInv, ProcessInv
  <2> QED
    BY <2>1, <2>2, <2>3, <2>4 DEF ProcessInv
<1>12. StackInv'
  <2>0. \A u \in Threads : tid[u] # 0 => kstack[u] <= frames_used /\ kstack[u] \in Nat
    BY DEF IInv, StackInv, TypeOK, LowPage
  <2>1. \A u \in Threads : tid'[u] # 0 => kstack'[u] <= frames_used'
    BY <1>1, <1>8, <1>9, <2>0
  <2>2. \A u \in Threads \ {t} : tid[u] # 0 => kstack[u] <= used
    BY <1>1, <2>0
  <2>3. \A u \in Threads \ {t} : tid[u] # 0 /\ FrameAfter(used) # LowPage =>
          kstack[u] # FrameAfter(used)
    BY <1>1, <1>9, <2>2 DEF IInv, TypeOK, LowPage
  <2> QED
    BY <1>8, <2>1, <2>3 DEF IInv, StackInv
<1>13. DispatchInv'
  <2>1. \A u \in Queued' \ {sched_current'} : saved_context'[u] = Home(u)'
    BY <1>4, <1>5, <1>6, <1>8 DEF IInv, DispatchInv, Home
  <2> QED
    BY <1>6, <2>1, Slots DEF DispatchInv, OneRunning, IdleRunnable, MachineFollows, Idle, NoThread
<1>14. FrameInv'
  <2> SUFFICES ASSUME StacksPresent'
               PROVE  \A u \in Queued' : frame'[Home(u)'].thr = u
    BY <1>6 DEF FrameInv
  <2>1. StacksPresent /\ FrameAfter(used) # LowPage
    BY <1>4, <1>8 DEF StacksPresent
  <2>2. FrameAfter(used) \in Stacks
    BY <1>9, Slots
  <2>3. frame' = [frame EXCEPT ![FrameAfter(used)] = [thr |-> t, mode |-> mode]]
        /\ frame \in [Stacks -> Frames]
    BY DEF StartThread, IInv, TypeOK
  <2>4. ASSUME NEW u \in Queued PROVE frame'[Home(u)'].thr = u
    <3>1. u \in Threads /\ u # t /\ tid[u] # 0
      BY <1>4, <1>5 DEF IInv, ProcessInv
    <3>2. u # Idle
      BY <1>6 DEF IInv, BootInv
    <3>3. Home(u)' = kstack[u] /\ Home(u) = kstack[u] /\ kstack[u] \in Stacks
      BY <1>8, <3>1, <3>2, Slots DEF Home, IInv, TypeOK
    <3>4. kstack[u] # FrameAfter(used)
      BY <1>1, <1>9, <2>1, <3>1 DEF IInv, StackInv, TypeOK, LowPage
    <3>5. frame[Home(u)].thr = u
      BY <1>6, <2>1, <3>1, Slots DEF IInv, FrameInv
    <3> QED
      BY <2>3, <3>3, <3>4, <3>5
  <2>5. Home(t)' = FrameAfter(used)
    BY <1>4, <1>8 DEF Home
  <2> QED
    BY <1>5, <2>2, <2>3, <2>4, <2>5
<1> QED
  BY <1>3, <1>10, <1>11, <1>12, <1>13, <1>14 DEF IInv

(* proc_create_kernel and proc_create_user return without a slot in        *)
(* g_processes: nothing but kernel_main's position changes.                *)
LEMMA NoSlotInv ==
  ASSUME IInv, NoProcessSlot, boot' = boot, todo' \in Seq({"kernel", "user"}),
         UNCHANGED <<sched_current, g_current_thread, g_ticks, cpu, pending, cr3, esp0>>
  PROVE  IInv'
<1> USE DEF NoProcessSlot, threadVars, processVars
<1>1. Queued' = Queued /\ (Started' <=> Started) /\ (StacksPresent' <=> StacksPresent)
  BY DEF Queued, Started, StacksPresent
<1>2. \A t : ProcessesOf(t)' = ProcessesOf(t) /\ Home(t)' = Home(t)
  BY DEF ProcessesOf, Home
<1>3. TypeOK' /\ BootInv' /\ StackInv'
  BY <1>1 DEF IInv, TypeOK, BootInv, StackInv
<1>4. ProcessInv'
  BY <1>1, <1>2 DEF IInv, ProcessInv
<1>5. DispatchInv'
  BY <1>1, <1>2 DEF IInv, DispatchInv, OneRunning, IdleRunnable, MachineFollows
<1>6. FrameInv'
  BY <1>1, <1>2 DEF IInv, FrameInv
<1> QED
  BY <1>3, <1>4, <1>5, <1>6 DEF IInv

(* What kernel_main has yet to create stays a list of process kinds.       *)
LEMMA TodoType == IInv /\ todo # <<>> => Tail(todo) \in Seq({"kernel", "user"})
BY DEF IInv, TypeOK

(* proc_create_kernel, with each way it can fail.                          *)
LEMMA CreateKernelInv == IInv /\ CreateKernel => IInv'
<1> SUFFICES ASSUME IInv, CreateKernel PROVE IInv'
  OBVIOUS
<1>1. /\ boot = "create" /\ boot' = boot /\ todo' \in Seq({"kernel", "user"})
      /\ UNCHANGED <<sched_current, g_current_thread, g_ticks, cpu, pending, cr3, esp0>>
  BY TodoType DEF CreateKernel, CreateNext
<1>2. frames_used \in 1 .. NFRAMES /\ frames_used \in frames_used .. NFRAMES
  BY DEF IInv, TypeOK
<1>3. KernelDir \in 1 .. NFRAMES /\ KernelDir \in 0 .. NFRAMES
  BY Slots
<1>4. CASE NoProcessSlot
  BY <1>1, <1>4, NoSlotInv
<1>5. ASSUME NEW p \in Procs, AllocProcess(p, KernelDir),
             NoThreadSlot, DropProcess(p), UNCHANGED frames_used
      PROVE  IInv'
  BY <1>1, <1>2, <1>3, <1>5, DropInv DEF NoThreadSlot
<1>6. ASSUME NEW p \in Procs, NEW t \in Threads, AllocProcess(p, KernelDir),
             KeepProcess(p), StartThread(t, next_pid, "kernel", frames_used)
      PROVE  IInv'
  <2>1. "kernel" \in Modes
    BY DEF Modes, OpenModes
  <2> QED
    BY <1>1, <1>2, <1>3, <1>6, <2>1, CreateInv
<1> QED
  BY <1>4, <1>5, <1>6 DEF CreateKernel

(* proc_create_user, with each way it can fail.                            *)
LEMMA CreateUserInv == IInv /\ CreateUser => IInv'
<1> SUFFICES ASSUME IInv, CreateUser PROVE IInv'
  OBVIOUS
<1>1. /\ boot = "create" /\ boot' = boot /\ todo' \in Seq({"kernel", "user"})
      /\ UNCHANGED <<sched_current, g_current_thread, g_ticks, cpu, pending, cr3, esp0>>
  BY TodoType DEF CreateUser, CreateNext
<1>2. frames_used \in 1 .. NFRAMES
  BY DEF IInv, TypeOK
<1>3. CASE NoProcessSlot
  BY <1>1, <1>3, NoSlotInv
<1>4. ASSUME NEW p \in Procs, AllocProcess(p, FrameAfter(frames_used)),
             DropProcess(p), frames_used' = NFRAMES,
             UNCHANGED <<threadVars, readyq, frame>>
      PROVE  IInv'
  <2>1. FrameAfter(frames_used) \in 0 .. NFRAMES
    BY <1>2, AllocFrame DEF LowPage
  <2>2. frames_used' \in frames_used .. NFRAMES
    BY <1>2, <1>4, LimitsAssumption
  <2> QED
    BY <1>1, <1>4, <2>1, <2>2, DropInv
<1>5. ASSUME NEW p \in Procs, frames_used + USER_FRAMES <= NFRAMES,
             AllocProcess(p, frames_used + 1), NoThreadSlot, DropProcess(p),
             frames_used' = frames_used + USER_FRAMES
      PROVE  IInv'
  <2>1. frames_used + 1 \in 0 .. NFRAMES /\ frames_used' \in frames_used .. NFRAMES
    BY <1>2, <1>5, LimitsAssumption
  <2> QED
    BY <1>1, <1>5, <2>1, DropInv DEF NoThreadSlot
<1>6. ASSUME NEW p \in Procs, NEW t \in Threads, frames_used + USER_FRAMES <= NFRAMES,
             AllocProcess(p, frames_used + 1), KeepProcess(p),
             StartThread(t, next_pid, "user", frames_used + USER_FRAMES)
      PROVE  IInv'
  <2>1. /\ frames_used + 1 \in 1 .. NFRAMES
        /\ frames_used + USER_FRAMES \in frames_used .. NFRAMES
    BY <1>2, <1>6, LimitsAssumption
  <2>2. "user" \in Modes
    BY DEF Modes, OpenModes
  <2> QED
    BY <1>1, <1>6, <2>1, <2>2, CreateInv
<1> QED
  BY <1>3, <1>4, <1>5, <1>6 DEF CreateUser

(* scheduler_init makes the running boot code the idle thread, with every  *)
(* other thread's frame already waiting on its stack.                      *)
LEMMA SchedulerInitInv == IInv /\ SchedulerInit => IInv'
<1> SUFFICES ASSUME IInv, SchedulerInit PROVE IInv'
  OBVIOUS
<1> USE DEF SchedulerInit, processVars, machineVars
<1>1. /\ ~Started /\ g_current_thread = Idle /\ Idle \in Threads /\ Idle # NoThread
      /\ sched_current = NoThread /\ sched_current' = Idle /\ Started'
      /\ Idle \notin Queued /\ esp0 = kstack[Idle] /\ cr3 = KernelDir
      /\ cpu = [thr |-> Idle, mode |-> "boot", stack |-> BootStack]
  BY Slots DEF IInv, BootInv, Started, Idle, NoThread
<1>2. Queued' = Queued \cup {Idle} /\ Queued \subseteq Threads
  BY <1>1, QueuedAppend, QueuedThreads DEF IInv, TypeOK
<1>3. TypeOK'
  <2>1. quantum' \in [Threads -> Nat]
    BY <1>1, LimitsAssumption DEF IInv, TypeOK
  <2>2. state' \in [Threads -> States]
    BY <1>1 DEF IInv, TypeOK, States
  <2>3. readyq' \in Seq(Threads)
    BY <1>1 DEF IInv, TypeOK
  <2> QED
    BY <1>1, <2>1, <2>2, <2>3 DEF IInv, TypeOK
<1>4. BootInv'
  BY <1>1 DEF IInv, BootInv
<1>5. \A t : ProcessesOf(t)' = ProcessesOf(t) /\ Home(t)' = Home(t)
  BY DEF ProcessesOf, Home
<1>6. Idle \in ProcessesOf(Idle) /\ tid[Idle] # 0 /\ page_dir[Idle] = KernelDir
  BY Slots DEF ProcessesOf, IInv, BootInv
<1>7. ProcessInv'
  <2>1. \A t \in Queued' : tid'[t] # 0 /\ ProcessesOf(t)' # {}
    BY <1>2, <1>5, <1>6 DEF IInv, ProcessInv
  <2> QED
    BY <1>2, <2>1 DEF IInv, ProcessInv
<1>8. StackInv'
  BY DEF IInv, StackInv
<1>9. /\ state'[Idle] = "RUNNING"
      /\ \A t \in Threads \ {Idle} : state'[t] = "READY"
  BY <1>1 DEF IInv, TypeOK, BootInv
<1>10. DispatchInv'
  <2>1. OneRunning' /\ IdleRunnable'
    BY <1>1, <1>2, <1>9 DEF OneRunning, IdleRunnable
  <2>2. MachineFollows'
    <3>1. \A p \in ProcessesOf(Idle) : p = Idle
      BY <1>6 DEF IInv, ProcessInv, ProcessesOf
    <3> QED
      BY <1>1, <1>5, <1>6, <3>1 DEF MachineFollows
  <2>3. \A t \in Queued' \ {sched_current'} : saved_context'[t] = Home(t)'
    BY <1>1, <1>2, <1>5, Slots DEF IInv, DispatchInv
  <2>4. cpu'.stack = Home(sched_current)'
    BY <1>1 DEF Home
  <2> QED
    BY <1>1, <1>2, <2>1, <2>2, <2>3, <2>4 DEF DispatchInv
<1>11. FrameInv'
  BY <1>1, <1>2, <1>5, Slots DEF IInv, FrameInv, StacksPresent
<1> QED
  BY <1>3, <1>4, <1>7, <1>8, <1>10, <1>11 DEF IInv

(* The sti of kernel_main: the idle thread is the current one by then.     *)
LEMMA IdleLoopInv == IInv /\ IdleLoop => IInv'
<1> SUFFICES ASSUME IInv, IdleLoop PROVE IInv'
  OBVIOUS
<1> USE DEF IdleLoop, threadVars, processVars, schedVars
<1>1. /\ Queued' = Queued /\ Started /\ Started' /\ (StacksPresent' <=> StacksPresent)
      /\ cpu = [thr |-> Idle, mode |-> "boot", stack |-> BootStack]
      /\ cpu' = [thr |-> Idle, mode |-> "kernel", stack |-> BootStack]
  BY DEF Queued, Started, StacksPresent, IInv, BootInv
<1>2. \A t : ProcessesOf(t)' = ProcessesOf(t) /\ Home(t)' = Home(t)
  BY DEF ProcessesOf, Home
<1>3. TypeOK'
  BY <1>1, Slots DEF IInv, TypeOK, Modes, OpenModes
<1>4. BootInv'
  BY <1>1 DEF IInv, BootInv
<1>5. ProcessInv' /\ StackInv'
  BY <1>1, <1>2 DEF IInv, ProcessInv, StackInv
<1>6. DispatchInv'
  BY <1>1, <1>2 DEF IInv, DispatchInv, OneRunning, IdleRunnable, MachineFollows
<1>7. FrameInv'
  BY <1>1, <1>2 DEF IInv, FrameInv
<1> QED
  BY <1>3, <1>4, <1>5, <1>6, <1>7 DEF IInv

-----------------------------------------------------------------------------
(* The inductive invariant: code that runs by itself.                      *)

(* Once something other than the boot code runs, the dispatcher is up; and *)
(* whatever is not plain kernel code is not the idle thread.               *)
LEMMA RunningFacts ==
  ASSUME IInv, cpu.mode # "boot"
  PROVE  /\ boot = "run" /\ Started /\ sched_current \in Threads
         /\ g_current_thread = sched_current
         /\ cpu.stack = Home(sched_current) /\ esp0 = kstack[sched_current]
         /\ cpu.mode # "kernel" => sched_current # Idle
         /\ sched_current = Idle => cpu.thr = Idle
<1>1. boot = "run" /\ Started
  BY DEF IInv, BootInv, TypeOK
<1> QED
  BY <1>1 DEF IInv, TypeOK, DispatchInv, OneRunning, MachineFollows, Started

(* A step that changes no more than the mode and the stack of the running  *)
(* thread, and lands on that thread's own stack.                           *)
LEMMA CpuStepInv ==
  ASSUME IInv, OnlyCpu, Started, boot = "run", sched_current # Idle,
         NEW m \in Modes, cpu' = [thr |-> cpu.thr, mode |-> m, stack |-> Home(sched_current)]
  PROVE  IInv'
<1> USE DEF OnlyCpu, threadVars, processVars, schedVars, bootVars
<1>1. Queued' = Queued /\ Started' /\ (StacksPresent' <=> StacksPresent)
  BY DEF Queued, Started, StacksPresent
<1>2. \A t : ProcessesOf(t)' = ProcessesOf(t) /\ Home(t)' = Home(t)
  BY DEF ProcessesOf, Home
<1>3. Home(sched_current) \in Stacks
  BY Slots DEF IInv, TypeOK, Home, Started
<1>4. TypeOK'
  BY <1>3 DEF IInv, TypeOK
<1>5. BootInv'
  BY <1>1 DEF IInv, BootInv
<1>6. ProcessInv' /\ StackInv'
  BY <1>1, <1>2 DEF IInv, ProcessInv, StackInv
<1>7. DispatchInv'
  BY <1>1, <1>2 DEF IInv, DispatchInv, OneRunning, IdleRunnable, MachineFollows
<1>8. FrameInv'
  BY <1>1, <1>2 DEF IInv, FrameInv
<1> QED
  BY <1>4, <1>5, <1>6, <1>7, <1>8 DEF IInv

(* The CPU is the record of its three fields.                              *)
LEMMA CpuShape == TypeOK => cpu = [thr |-> cpu.thr, mode |-> cpu.mode, stack |-> cpu.stack]
BY DEF TypeOK

(* int 0x80 from ring 3 lands on the stack the TSS names: the thread's own.*)
LEMMA SyscallEnterInv == IInv /\ SyscallEnter => IInv'
<1> SUFFICES ASSUME IInv, SyscallEnter PROVE IInv'
  OBVIOUS
<1>1. cpu.mode = "user" /\ OnlyCpu
      /\ cpu' = [cpu EXCEPT !.mode = "syscall", !.stack = esp0]
  BY DEF SyscallEnter, Running
<1>2. sched_current # Idle /\ esp0 = Home(sched_current) /\ Started /\ boot = "run"
  BY <1>1, RunningFacts DEF Home
<1>3. cpu' = [thr |-> cpu.thr, mode |-> "syscall", stack |-> Home(sched_current)]
  BY <1>1, <1>2, CpuShape DEF IInv
<1>4. "syscall" \in Modes
  BY DEF Modes
<1> QED
  BY <1>1, <1>2, <1>3, <1>4, CpuStepInv

(* A change of the mode alone, by a thread that is not the idle one.       *)
LEMMA SameStackInv ==
  ASSUME IInv, OnlyCpu, cpu.mode \notin {"boot", "kernel"} \/ cpu.thr # Idle,
         cpu.mode # "boot", NEW m \in Modes, cpu' = [cpu EXCEPT !.mode = m]
  PROVE  IInv'
<1>1. sched_current # Idle /\ cpu.stack = Home(sched_current) /\ Started /\ boot = "run"
  BY RunningFacts
<1>2. cpu' = [thr |-> cpu.thr, mode |-> m, stack |-> Home(sched_current)]
  BY <1>1, CpuShape DEF IInv
<1> QED
  BY <1>1, <1>2, CpuStepInv

(* The return from a system call and the critical sections of a kernel     *)
(* thread.                                                                 *)
LEMMA ModeStepsInv == IInv /\ (SyscallReturn \/ Cli \/ Sti) => IInv'
<1>1. {"user", "cli", "kernel"} \subseteq Modes
  BY DEF Modes, OpenModes
<1>2. ASSUME IInv, SyscallReturn PROVE IInv'
  BY <1>1, <1>2, SameStackInv DEF SyscallReturn, Running
<1>3. ASSUME IInv, Cli PROVE IInv'
  BY <1>1, <1>3, SameStackInv DEF Cli, Running
<1>4. ASSUME IInv, Sti PROVE IInv'
  BY <1>1, <1>4, SameStackInv DEF Sti, Running
<1> QED
  BY <1>2, <1>3, <1>4

(* A latched request touches nothing the invariant speaks of.              *)
LEMMA TimerRaiseInv == IInv /\ TimerRaise => IInv'
<1> SUFFICES ASSUME IInv, TimerRaise PROVE IInv'
  OBVIOUS
<1> USE DEF TimerRaise, threadVars, processVars, schedVars, bootVars
<1>1. Queued' = Queued /\ (Started' <=> Started) /\ (StacksPresent' <=> StacksPresent)
  BY DEF Queued, Started, StacksPresent
<1>2. \A t : ProcessesOf(t)' = ProcessesOf(t) /\ Home(t)' = Home(t)
  BY DEF ProcessesOf, Home
<1>3. TypeOK' /\ BootInv' /\ StackInv'
  BY <1>1 DEF IInv, TypeOK, BootInv, StackInv
<1>4. ProcessInv' /\ FrameInv'
  BY <1>1, <1>2 DEF IInv, ProcessInv, FrameInv
<1>5. DispatchInv'
  BY <1>1, <1>2 DEF IInv, DispatchInv, OneRunning, IdleRunnable, MachineFollows
<1> QED
  BY <1>3, <1>4, <1>5 DEF IInv

(* proc_exit marks the current thread, never the idle one.                 *)
LEMMA ExitInv == IInv /\ Exit => IInv'
<1> SUFFICES ASSUME IInv, Exit PROVE IInv'
  OBVIOUS
<1> USE DEF Exit, Running, processVars, schedVars, bootVars
<1>1. /\ boot = "run" /\ Started /\ sched_current \in Threads
      /\ g_current_thread = sched_current /\ sched_current # Idle
      /\ cpu.stack = Home(sched_current)
  BY RunningFacts
<1>2. Queued' = Queued /\ Started' /\ (StacksPresent' <=> StacksPresent)
  BY <1>1 DEF Queued, Started, StacksPresent
<1>3. \A t : ProcessesOf(t)' = ProcessesOf(t) /\ Home(t)' = Home(t)
  BY DEF ProcessesOf, Home
<1>4. cpu' = [thr |-> cpu.thr, mode |-> "exited", stack |-> cpu.stack]
  BY CpuShape DEF IInv
<1>5. state' = [state EXCEPT ![sched_current] = "DEAD"] /\ state' \in [Threads -> States]
  BY <1>1 DEF IInv, TypeOK, States
<1>6. TypeOK'
  <2>1. cpu' \in [thr : {NoThread} \cup Threads, mode : Modes, stack : Stacks]
    BY <1>4 DEF IInv, TypeOK, Modes, OpenModes
  <2> QED
    BY <1>5, <2>1 DEF IInv, TypeOK
<1>7. BootInv'
  BY <1>1, <1>2 DEF IInv, BootInv
<1>8. ProcessInv' /\ StackInv'
  BY <1>2, <1>3 DEF IInv, ProcessInv, StackInv
<1>9. OneRunning' /\ IdleRunnable'
  <2>1. state'[sched_current] = "DEAD" /\ state \in [Threads -> States]
        /\ \A t \in Threads \ {sched_current} : state'[t] = state[t]
    BY <1>1, <1>5 DEF IInv, TypeOK
  <2>2. OneRunning /\ IdleRunnable
    BY DEF IInv, DispatchInv
  <2> QED
    BY <1>1, <1>2, <2>1, <2>2, Slots DEF OneRunning, IdleRunnable
<1>10. MachineFollows'
  BY <1>1, <1>3 DEF IInv, DispatchInv, MachineFollows
<1>11. /\ frame' = frame /\ saved_context' = saved_context
       /\ sched_current' = sched_current /\ cpu'.thr = cpu.thr /\ cpu'.stack = cpu.stack
  BY <1>4
<1> HIDE DEF Exit
<1>12. DispatchInv'
  <2>1. /\ \A t \in Queued' \ {sched_current'} : saved_context'[t] = Home(t)'
        /\ Started' => sched_current' \in Queued' /\ cpu'.stack = Home(sched_current)'
    BY <1>1, <1>2, <1>3, <1>11 DEF IInv, DispatchInv
  <2>2. frame'[BootStack] = [thr |-> Idle, mode |-> "kernel"]
    BY <1>1, <1>11 DEF IInv, DispatchInv
  <2> QED
    BY <1>1, <1>9, <1>10, <1>11, <2>1, <2>2 DEF DispatchInv
<1>13. FrameInv'
  <2>1. FrameInv
    BY DEF IInv
  <2> HIDE DEF Running, processVars, schedVars, bootVars
  <2> QED
    BY <1>1, <1>2, <1>3, <1>11, <2>1 DEF FrameInv
<1> QED
  BY <1>6, <1>7, <1>8, <1>12, <1>13 DEF IInv

-----------------------------------------------------------------------------
(* The inductive invariant: the dispatcher.                                *)

(* The stack a queued thread lives on is one of the named stacks.          *)
LEMMA HomeFacts ==
  ASSUME IInv, NEW t \in Threads
  PROVE  /\ Home(t) \in Stacks /\ Home(t) # NoStack
         /\ t # Idle => Home(t) # BootStack
         /\ t = Idle => Home(t) = BootStack
BY Slots DEF IInv, TypeOK, Home

(* No two queued threads push their frames on the same stack, as long as   *)
(* each was given one.                                                     *)
LEMMA HomesDistinct ==
  ASSUME IInv, StacksPresent, NEW t \in Queued, NEW u \in Queued, t # u
  PROVE  Home(t) # Home(u)
<1>1. t \in Threads /\ u \in Threads /\ tid[t] # 0 /\ tid[u] # 0
  BY QueuedThreads DEF IInv, TypeOK, ProcessInv
<1>2. kstack[t] # LowPage /\ kstack[u] # LowPage
  BY <1>1 DEF StacksPresent
<1>3. kstack[t] # kstack[u]
  BY <1>1, <1>2 DEF IInv, StackInv
<1>4. kstack[t] # BootStack /\ kstack[u] # BootStack
  BY <1>1, Slots DEF IInv, TypeOK
<1> QED
  BY <1>1, <1>3, <1>4 DEF Home

(* scheduler_tick, entered on the current thread's own stack: whichever    *)
(* thread it picks, that thread is resumed as itself.                      *)
LEMMA TickInv ==
  ASSUME IInv, Started, boot = "run", NEW m \in Modes, NEW q \in [Threads -> Nat],
         sched_current = Idle => m = "kernel",
         Tick(Home(sched_current), m, q), pending' \in BOOLEAN
  PROVE  IInv'
<1> DEFINE cur == sched_current
           s == Home(cur)
<1>1. cur \in Threads /\ cur \in Queued /\ s \in Stacks /\ Idle \in Threads
  BY HomeFacts, Slots DEF IInv, TypeOK, DispatchInv, Started
<1>2. UniquePids
  BY DEF IInv, ProcessInv, UniquePids
<1>3. TypeOK'
  BY <1>1, <1>2, TickType DEF IInv
<1>4. /\ Queued' = Queued /\ (StacksPresent' <=> StacksPresent)
      /\ \A t : ProcessesOf(t)' = ProcessesOf(t) /\ Home(t)' = Home(t)
      /\ boot' = boot
  BY DEF Tick, Queued, StacksPresent, ProcessesOf, Home, processVars, bootVars
<1>5. /\ \A t \in Threads : saved_context'[t] = IF t = cur THEN s ELSE saved_context[t]
      /\ frame'[s] = [thr |-> cpu.thr, mode |-> m]
      /\ \A r \in Stacks \ {s} : frame'[r] = frame[r]
  BY <1>1 DEF Tick, Pushed, IInv, TypeOK
<1>6. /\ \A t \in Queued : t \in Threads
      /\ \A t \in Queued \ {cur} : saved_context[t] = Home(t)
      /\ cur = Idle => cpu.thr = Idle
      /\ cur # Idle => frame[BootStack] = [thr |-> Idle, mode |-> "kernel"]
  BY QueuedThreads DEF IInv, TypeOK, DispatchInv
<1>7. /\ cur = Idle => s = BootStack
      /\ cur # Idle => s # BootStack
      /\ frame'[BootStack] = [thr |-> Idle, mode |-> "kernel"]
  BY <1>1, <1>5, <1>6, HomeFacts, Slots
<1>8. ASSUME StacksPresent
      PROVE  /\ cpu.thr = cur
             /\ \A t \in Queued \ {cur} : frame'[Home(t)].thr = t
             /\ frame'[s].thr = cur
  <2>1. cpu.thr = cur /\ \A t \in Queued \ {cur} : frame[Home(t)].thr = t
    BY <1>8 DEF IInv, FrameInv
  <2>2. \A t \in Queued \ {cur} : Home(t) # s /\ Home(t) \in Stacks
    BY <1>1, <1>6, <1>8, HomesDistinct, HomeFacts
  <2> QED
    BY <1>5, <2>1, <2>2
<1>9. StackInv'
  BY DEF Tick, IInv, StackInv
<1>10. ProcessInv'
  BY <1>4 DEF Tick, processVars, IInv, ProcessInv
<1>11. /\ state[cur] \in {"RUNNING", "DEAD"}
       /\ \A t \in Threads : state[t] = "RUNNING" => t = cur
       /\ Idle \in Queued /\ state[Idle] \in {"READY", "RUNNING"}
       /\ esp0 = kstack[cur] /\ ProcessesOf(cur) # {}
       /\ \A p \in ProcessesOf(cur) : cr3 = page_dir[p]
       /\ g_current_thread = cur /\ state \in [Threads -> States]
  BY DEF IInv, TypeOK, DispatchInv, OneRunning, IdleRunnable, MachineFollows
<1>12. ASSUME Started' PROVE BootInv'
  BY <1>4, <1>12 DEF Tick, processVars, bootVars, IInv, BootInv
<1>13. CASE Continue(s, q)
  <2>1. /\ sched_current' = cur /\ g_current_thread' = cur /\ esp0' = esp0 /\ cr3' = cr3
        /\ state' = [state EXCEPT ![cur] = "RUNNING"]
        /\ cpu' = [thr |-> cpu.thr, mode |-> m, stack |-> s] /\ Started'
    <3>1. cpu' = [thr |-> frame'[s].thr, mode |-> frame'[s].mode, stack |-> s]
      BY <1>13 DEF Continue, Resume
    <3>2. cpu' = [thr |-> cpu.thr, mode |-> m, stack |-> s]
      BY <1>5, <3>1
    <3>3. Started'
      BY <1>13 DEF Continue, Started
    <3> QED
      BY <1>11, <1>13, <3>2, <3>3 DEF Continue
  <2>2. OneRunning' /\ IdleRunnable' /\ MachineFollows'
    <3>1. state'[cur] = "RUNNING" /\ \A t \in Threads \ {cur} : state'[t] = state[t]
      BY <1>1, <1>11, <2>1
    <3>2. OneRunning' /\ IdleRunnable'
      BY <1>1, <1>4, <1>11, <2>1, <3>1 DEF OneRunning, IdleRunnable
    <3>3. MachineFollows'
      BY <1>4, <1>11, <2>1 DEF MachineFollows, Tick, processVars
    <3> QED
      BY <3>2, <3>3
  <2>3. DispatchInv'
    <3>1. \A t \in Queued' \ {sched_current'} : saved_context'[t] = Home(t)'
      BY <1>4, <1>5, <1>6, <2>1
    <3> QED
      BY <1>1, <1>4, <1>6, <1>7, <2>1, <2>2, <3>1 DEF DispatchInv
  <2>4. FrameInv'
    BY <1>4, <1>8, <2>1 DEF FrameInv
  <2>5. BootInv'
    BY <1>12, <2>1
  <2> QED
    BY <1>3, <1>9, <1>10, <2>3, <2>4, <2>5 DEF IInv
<1>14. CASE \E next \in Threads : SwitchTo(next, s, q)
  <2> PICK next \in Threads : SwitchTo(next, s, q)
    BY <1>14
  <2>1. /\ next # cur /\ next \in Queued /\ Preempted[next] = "READY"
        /\ sched_current' = next /\ g_current_thread' = next /\ esp0' = kstack[next]
        /\ state' = [Preempted EXCEPT ![next] = "RUNNING"] /\ Started'
    BY Slots DEF SwitchTo, IsNextReady, IsReady, SetCurrent, Started
  <2>2. /\ saved_context'[next] = Home(next) /\ Home(next) # NoStack
        /\ Home(next) \in Stacks
    BY <1>5, <1>6, <2>1, HomeFacts
  <2>3. cpu' = [thr |-> frame'[Home(next)].thr, mode |-> frame'[Home(next)].mode,
                stack |-> Home(next)]
    BY <2>2 DEF SwitchTo, ResumeSaved, Resume
  <2>4. OneRunning' /\ IdleRunnable'
    <3>1. /\ Preempted[cur] \in {"READY", "DEAD"} /\ Preempted \in [Threads -> States]
          /\ \A t \in Threads \ {cur} : Preempted[t] = state[t]
          /\ Preempted[Idle] \in {"READY", "RUNNING"}
      BY <1>1, <1>11 DEF Preempted, States
    <3>2. /\ state'[next] = "RUNNING"
          /\ \A t \in Threads \ {next} : state'[t] = Preempted[t]
      BY <2>1, <3>1
    <3> QED
      BY <1>1, <1>4, <1>11, <2>1, <3>1, <3>2 DEF OneRunning, IdleRunnable
  <2>5. MachineFollows'
    <3>1. PICK p \in ProcessesOf(next) : TRUE
      BY <2>1 DEF IInv, ProcessInv
    <3>2. DirOf(next) = page_dir[p] /\ page_dir[p] # 0
      BY <1>2, DirOfMatch DEF ProcessesOf, IInv, ProcessInv
    <3>3. \A r \in ProcessesOf(next) : r = p
      BY <1>2 DEF UniquePids, ProcessesOf
    <3>4. cr3' = page_dir[p]
      <4>1. CASE pid[next] = pid[cur]
        <5>1. ProcessesOf(next) = ProcessesOf(cur)
          BY <4>1 DEF ProcessesOf
        <5> QED
          BY <1>11, <4>1, <5>1 DEF SwitchTo, LoadCr3
      <4>2. CASE pid[next] # pid[cur]
        BY <3>2, <4>2 DEF SwitchTo, LoadCr3
      <4> QED
        BY <4>1, <4>2
    <3> QED
      BY <1>4, <2>1, <3>1, <3>3, <3>4 DEF MachineFollows, Tick, processVars
  <2>6. DispatchInv'
    <3>1. \A t \in Queued' \ {sched_current'} : saved_context'[t] = Home(t)'
      BY <1>4, <1>5, <1>6, <2>1
    <3>2. next = Idle => cpu'.thr = Idle /\ cpu'.mode = "kernel"
      BY <1>7, <2>3, HomeFacts
    <3>3. cpu'.stack = Home(sched_current)'
      BY <1>4, <2>1, <2>3
    <3> QED
      BY <1>4, <1>7, <2>1, <2>4, <2>5, <3>1, <3>2, <3>3 DEF DispatchInv
  <2>7. FrameInv'
    <3> SUFFICES ASSUME StacksPresent
                 PROVE  /\ cpu'.thr = next
                        /\ \A t \in Queued \ {next} : frame'[Home(t)].thr = t
      BY <1>4, <2>1 DEF FrameInv
    <3> QED
      BY <1>8, <2>1, <2>3
  <2>8. BootInv'
    BY <1>4, <1>12, <2>1, <2>3
  <2> QED
    BY <1>3, <1>9, <1>10, <2>6, <2>7, <2>8 DEF IInv
<1> QED
  BY <1>13, <1>14 DEF Tick

(* The stack the IRQ0 stub pushes on is the interrupted thread's own.      *)
LEMMA EntryStackIsHome ==
  ASSUME IInv, cpu.mode # "boot"
  PROVE  EntryStack = Home(sched_current)
BY RunningFacts DEF EntryStack, Home

(* What a step of the dispatcher starts from.                              *)
TickFrom(m, q) ==
  /\ Started /\ boot = "run" /\ m \in Modes /\ q \in [Threads -> Nat]
  /\ sched_current = Idle => m = "kernel"
  /\ Tick(Home(sched_current), m, q)
  /\ pending' \in BOOLEAN

(* The timer interrupt is such an entry.                                   *)
LEMMA TimerIrqIsTick == IInv /\ TimerIrq => TickFrom(cpu.mode, quantum)
<1> SUFFICES ASSUME IInv, TimerIrq PROVE TickFrom(cpu.mode, quantum)
  OBVIOUS
<1>1. cpu.mode # "boot" /\ cpu.mode \in Modes /\ quantum \in [Threads -> Nat]
  BY DEF TimerIrq, IF_set, OpenModes, IInv, TypeOK
<1>2. sched_current = Idle => cpu.mode = "kernel"
  BY <1>1, RunningFacts
<1>3. Started /\ boot = "run" /\ EntryStack = Home(sched_current)
  BY <1>1, RunningFacts, EntryStackIsHome
<1>4. pending' = FALSE
  BY DEF TimerIrq
<1>5. pending' \in BOOLEAN
  BY <1>4
<1>6. Tick(Home(sched_current), cpu.mode, quantum)
  BY <1>3 DEF TimerIrq
<1> QED
  BY <1>1, <1>2, <1>3, <1>5, <1>6 DEF TickFrom

YieldQuantum == [quantum EXCEPT ![sched_current] = 0]

(* So is the interrupt raised by scheduler_yield.                          *)
LEMMA YieldIsTick == IInv /\ Yield => TickFrom("sysret", YieldQuantum)
<1> SUFFICES ASSUME IInv, Yield PROVE TickFrom("sysret", YieldQuantum)
  OBVIOUS
<1>1. cpu.mode = "syscall"
  BY DEF Yield, Running
<1>2. /\ Started /\ boot = "run" /\ sched_current # Idle
      /\ cpu.stack = Home(sched_current)
  BY <1>1, RunningFacts
<1>3. "sysret" \in Modes
  BY DEF Modes
<1>4. YieldQuantum \in [Threads -> Nat]
  BY DEF YieldQuantum, IInv, TypeOK
<1>5. pending \in BOOLEAN
  BY DEF IInv, TypeOK
<1>6. pending' = pending
  BY DEF Yield
<1>7. pending' \in BOOLEAN
  BY <1>5, <1>6
<1>8. Tick(Home(sched_current), "sysret", YieldQuantum)
  BY <1>2 DEF Yield, YieldQuantum
<1> QED
  BY <1>2, <1>3, <1>4, <1>7, <1>8 DEF TickFrom

(* Both ways into scheduler_tick keep the invariant.                       *)
LEMMA DispatchStepInv == IInv /\ (TimerIrq \/ Yield) => IInv'
BY TimerIrqIsTick, YieldIsTick, TickInv DEF TickFrom

(* Stuttering keeps it.                                                    *)
LEMMA StutterInv == IInv /\ UNCHANGED vars => IInv'
<1> SUFFICES ASSUME IInv, UNCHANGED vars PROVE IInv'
  OBVIOUS
<1> USE DEF vars, threadVars, processVars, schedVars, memoryVars, machineVars, bootVars
<1>1. Queued' = Queued /\ (Started' <=> Started) /\ (StacksPresent' <=> StacksPresent)
  BY DEF Queued, Started, StacksPresent
<1>2. \A t : ProcessesOf(t)' = ProcessesOf(t) /\ Home(t)' = Home(t)
  BY DEF ProcessesOf, Home
<1>3. TypeOK' /\ BootInv' /\ StackInv'
  BY <1>1 DEF IInv, TypeOK, BootInv, StackInv
<1>4. ProcessInv' /\ FrameInv'
  BY <1>1, <1>2 DEF IInv, ProcessInv, FrameInv
<1>5. DispatchInv'
  BY <1>1, <1>2 DEF IInv, DispatchInv, OneRunning, IdleRunnable, MachineFollows
<1> QED
  BY <1>3, <1>4, <1>5 DEF IInv

(* Every step keeps the inductive invariant.                               *)
LEMMA NextInv == IInv /\ [Next]_vars => IInv'
<1>1. IInv /\ Boot => IInv'
  BY ProcInitInv, CreateKernelInv, CreateUserInv, SchedulerInitInv, IdleLoopInv DEF Boot
<1>2. IInv /\ Next => IInv'
  BY <1>1, TimerRaiseInv, DispatchStepInv, SyscallEnterInv, ModeStepsInv, ExitInv DEF Next
<1> QED
  BY <1>2, StutterInv

(* The inductive invariant holds in every state of every behaviour of the  *)
(* boot code, the process table and the dispatcher.                        *)
THEOREM Inductive == Spec => []IInv
<1>1. Init => IInv
  BY InitInv
<1>2. IInv /\ [Next]_vars => IInv'
  BY NextInv
<1> QED
  BY <1>1, <1>2, PTL DEF Spec

-----------------------------------------------------------------------------
(* What follows from it.                                                   *)

(* The tables, the queue and the machine registers stay within their       *)
(* types: no slot, frame or pid outside its range is ever used.            *)
THEOREM TypeCorrect == Spec => []TypeOK
<1>1. IInv => TypeOK
  BY DEF IInv
<1> QED
  BY <1>1, Inductive, PTL

(* scheduler_tick keeps exactly one thread RUNNING, the current one, and   *)
(* process.c and scheduler.c agree on it.                                  *)
THEOREM OneRunningAlways == Spec => []OneRunning
<1>1. IInv => OneRunning
  BY DEF IInv, DispatchInv
<1> QED
  BY <1>1, Inductive, PTL

(* The idle thread never leaves the queue and never dies: the claim of     *)
(* scheduler.c:108 that keeps queue_next_ready from finding nothing.       *)
THEOREM IdleRunnableAlways == Spec => []IdleRunnable
<1>1. IInv => IdleRunnable
  BY DEF IInv, DispatchInv
<1> QED
  BY <1>1, Inductive, PTL

(* Whatever the order of interrupts, yields and exits, the code on the CPU *)
(* is the current thread's and every other thread's frame waits intact     *)
(* where it was pushed, as long as no thread lacks a kernel stack.         *)
THEOREM ContextIntactAlways == Spec => []ContextIntact
<1>1. IInv => ContextIntact
  <2> SUFFICES ASSUME IInv, Started, StacksPresent
               PROVE  /\ cpu.thr = sched_current
                      /\ \A t \in Queued \ {sched_current} :
                           saved_context[t] # NoStack /\ frame[saved_context[t]].thr = t
    BY DEF ContextIntact
  <2>1. \A t \in Queued \ {sched_current} : saved_context[t] = Home(t)
    BY DEF IInv, DispatchInv
  <2>2. \A t \in Queued : Home(t) # NoStack
    BY HomeFacts, QueuedThreads DEF IInv, TypeOK
  <2>3. cpu.thr = sched_current /\ \A t \in Queued \ {sched_current} : frame[Home(t)].thr = t
    BY DEF IInv, FrameInv
  <2> QED
    BY <2>1, <2>2, <2>3
<1> QED
  BY <1>1, Inductive, PTL

(* The page directory in CR3 and the stack in the TSS are always those of  *)
(* the current thread's process and of the current thread.                 *)
THEOREM MachineFollowsAlways == Spec => []MachineFollows
<1>1. IInv => MachineFollows
  BY DEF IInv, DispatchInv
<1> QED
  BY <1>1, Inductive, PTL

(* Failed creations leave no active process without a thread to run.       *)
THEOREM EveryProcessQueuedAlways == Spec => []EveryProcessQueued
<1>1. IInv => EveryProcessQueued
  BY DEF IInv, ProcessInv, DispatchInv, IdleRunnable, EveryProcessQueued
<1> QED
  BY <1>1, Inductive, PTL

-----------------------------------------------------------------------------
(* Action properties.                                                      *)

DeadStep ==
  \A t \in Threads : state[t] = "DEAD" =>
    /\ state'[t] = "DEAD"
    /\ sched_current # t => sched_current' # t

(* The dispatcher neither revives a dead thread nor turns to one: when the *)
(* current thread is dead there is another READY one, the idle thread.     *)
LEMMA TickDead ==
  ASSUME IInv, NEW m \in Modes, NEW q \in [Threads -> Nat], TickFrom(m, q)
  PROVE  DeadStep
<1> DEFINE cur == sched_current
           s == Home(cur)
<1>1. /\ cur \in Threads /\ state \in [Threads -> States] /\ Idle \in Threads
      /\ \A t \in Queued : t \in Threads
      /\ Idle \in Queued /\ state[Idle] \in {"READY", "RUNNING"}
      /\ state[cur] \in {"RUNNING", "DEAD"}
      /\ \A t \in Threads : state[t] = "RUNNING" => t = cur
  BY QueuedThreads, Slots
     DEF TickFrom, IInv, TypeOK, DispatchInv, OneRunning, IdleRunnable, Started
<1>2. /\ Preempted[cur] = "DEAD" <=> state[cur] = "DEAD"
      /\ Preempted \in [Threads -> States]
      /\ \A t \in Threads \ {cur} : Preempted[t] = state[t]
  BY <1>1 DEF Preempted, States
<1>3. CASE Continue(s, q)
  <2>1. sched_current' = cur /\ state' = [state EXCEPT ![cur] = "RUNNING"]
    BY <1>3 DEF Continue
  <2>2. state[cur] # "DEAD"
    <3> SUFFICES ASSUME state[cur] = "DEAD" PROVE FALSE
      OBVIOUS
    <3>1. ~SliceLeft(q)
      BY <1>2 DEF SliceLeft
    <3>2. Idle # cur /\ Preempted[Idle] = "READY"
      BY <1>1, <1>2
    <3>3. IsReady(Idle)
      BY <1>1, <3>2 DEF IsReady
    <3> QED
      BY <1>1, <1>3, <3>1, <3>2, <3>3 DEF Continue
  <2> QED
    BY <1>1, <2>1, <2>2 DEF DeadStep
<1>4. CASE \E next \in Threads : SwitchTo(next, s, q)
  <2> PICK next \in Threads : SwitchTo(next, s, q)
    BY <1>4
  <2>1. /\ Preempted[next] = "READY" /\ sched_current' = next /\ next # cur
        /\ state' = [Preempted EXCEPT ![next] = "RUNNING"]
    BY DEF SwitchTo, IsNextReady, IsReady, SetCurrent
  <2>2. state[next] # "DEAD"
    BY <1>2, <2>1
  <2>3. \A t \in Threads \ {next} : state'[t] = Preempted[t]
    BY <1>2, <2>1
  <2> QED
    BY <1>1, <1>2, <2>1, <2>2, <2>3 DEF DeadStep
<1> QED
  BY <1>3, <1>4 DEF TickFrom, Tick

(* No step of the system revives or dispatches a dead thread.              *)
LEMMA NextDead == IInv /\ Next => DeadStep
<1> SUFFICES ASSUME IInv, Next PROVE DeadStep
  OBVIOUS
<1>1. CASE ~Started
  BY <1>1 DEF IInv, BootInv, DeadStep
<1>2. CASE Started /\ Boot
  <2>1. IdleLoop
    BY <1>2 DEF Boot, IInv, BootInv, ProcInit, CreateKernel, CreateUser, CreateNext, SchedulerInit
  <2> QED
    BY <2>1 DEF IdleLoop, threadVars, schedVars, DeadStep
<1>3. CASE TimerIrq \/ Yield
  <2>1. PICK m \in Modes, q \in [Threads -> Nat] : TickFrom(m, q)
    BY <1>3, TimerIrqIsTick, YieldIsTick DEF TickFrom
  <2> QED
    BY <2>1, TickDead
<1>4. CASE TimerRaise \/ SyscallEnter \/ SyscallReturn \/ Cli \/ Sti
  BY <1>4 DEF TimerRaise, SyscallEnter, SyscallReturn, Cli, Sti, OnlyCpu,
              threadVars, schedVars, DeadStep
<1>5. CASE Exit
  <2>1. g_current_thread \in Threads /\ state \in [Threads -> States]
    BY <1>5, RunningFacts DEF Exit, Running, IInv, TypeOK
  <2> QED
    BY <1>5, <2>1 DEF Exit, schedVars, DeadStep
<1> QED
  BY <1>1, <1>2, <1>3, <1>4, <1>5 DEF Next

(* A thread that exited is never made ready again and never dispatched     *)
(* again, although it stays in the queue queue_next_ready walks.           *)
THEOREM DeadStaysOffAlways == Spec => DeadStaysOff
<1>1. IInv /\ [Next]_vars => [DeadStep]_vars
  BY NextDead
<1>2. Spec => [][DeadStep]_vars
  BY <1>1, Inductive, PTL DEF Spec
<1> QED
  BY <1>2 DEF DeadStaysOff, DeadStep

SliceStep ==
  Started =>
    /\ sched_current' # sched_current =>
         quantum[sched_current] <= 1 \/ state[sched_current] = "DEAD" \/ Yield
    /\ (sched_current' = sched_current /\ TimerIrq
          /\ \E t \in Queued \ {sched_current} : state[t] = "READY")
         => quantum'[sched_current] < quantum[sched_current]

(* A slice with ticks to spare, charged for this one, belongs to a thread  *)
(* that keeps the CPU; with none, to one that loses it if another waits.   *)
LEMMA SliceEnds ==
  ASSUME IInv, Started, NEW q \in [Threads -> Nat]
  PROVE  /\ ~SliceLeft(q) => q[sched_current] <= 1 \/ state[sched_current] = "DEAD"
         /\ SliceLeft(q) => Charged(q)[sched_current] < q[sched_current]
<1> DEFINE cur == sched_current
<1>1. /\ cur \in Threads /\ state \in [Threads -> States]
      /\ state[cur] \in {"RUNNING", "DEAD"}
  BY DEF IInv, TypeOK, DispatchInv, OneRunning, Started
<1>2. Charged(q)[cur] = IF q[cur] > 0 THEN q[cur] - 1 ELSE q[cur]
  BY <1>1 DEF Charged
<1>3. state[cur] = "RUNNING" => Preempted[cur] = "READY"
  BY <1>1 DEF Preempted
<1>4. q[cur] \in Nat
  BY <1>1
<1> QED
  BY <1>1, <1>2, <1>3, <1>4 DEF SliceLeft

(* A timer interrupt shortens the slice, or ends it.                       *)
LEMMA TimerSlice == IInv /\ TimerIrq => SliceStep
<1> SUFFICES ASSUME IInv, TimerIrq, Started PROVE SliceStep
  BY DEF SliceStep
<1> DEFINE cur == sched_current
<1>1. /\ quantum \in [Threads -> Nat] /\ state \in [Threads -> States]
      /\ cur \in Threads /\ \A t \in Queued : t \in Threads
  BY QueuedThreads DEF IInv, TypeOK, DispatchInv, OneRunning, Started
<1>2. \A t \in Queued \ {cur} : state[t] = "READY" => IsReady(t)
  BY <1>1 DEF IsReady, Preempted
<1>3. CASE Continue(EntryStack, quantum)
  <2>1. cur' = cur
    BY <1>3 DEF Continue
  <2>2. CASE \E t \in Queued \ {cur} : state[t] = "READY"
    <3>1. SliceLeft(quantum) /\ quantum' = Charged(quantum)
      BY <1>1, <1>2, <1>3, <2>2 DEF Continue
    <3> QED
      BY <1>1, <2>1, <3>1, SliceEnds DEF SliceStep
  <2> QED
    BY <2>1, <2>2 DEF SliceStep
<1>4. CASE \E next \in Threads : SwitchTo(next, EntryStack, quantum)
  <2>1. cur' # cur /\ ~SliceLeft(quantum)
    BY <1>4 DEF SwitchTo, SetCurrent
  <2> QED
    BY <1>1, <2>1, SliceEnds DEF SliceStep
<1> QED
  BY <1>3, <1>4 DEF TimerIrq, Tick

(* No other step but a yield takes the CPU away.                           *)
LEMMA NextSlice == IInv /\ Next => SliceStep
<1> SUFFICES ASSUME IInv, Next, Started PROVE SliceStep
  BY DEF SliceStep
<1>1. CASE Boot
  <2>1. IdleLoop
    BY <1>1 DEF Boot, IInv, BootInv, ProcInit, CreateKernel, CreateUser, CreateNext, SchedulerInit
  <2>2. cpu.mode = "boot"
    BY <2>1 DEF IdleLoop, IInv, BootInv
  <2>3. ~TimerIrq
    BY <2>2 DEF TimerIrq, IF_set, OpenModes
  <2> QED
    BY <2>1, <2>3 DEF IdleLoop, threadVars, schedVars, SliceStep
<1>2. CASE TimerIrq
  BY <1>2, TimerSlice
<1>3. CASE Yield
  <2>1. ~TimerIrq
    BY <1>3 DEF Yield, Running, TimerIrq, IF_set, OpenModes
  <2> QED
    BY <1>3, <2>1 DEF SliceStep
<1>4. CASE TimerRaise \/ SyscallEnter \/ SyscallReturn \/ Exit \/ Cli \/ Sti
  <2>1. sched_current' = sched_current
    BY <1>4 DEF TimerRaise, SyscallEnter, SyscallReturn, Exit, Cli, Sti, OnlyCpu, schedVars
  <2>2. TimerRaise => ~TimerIrq
    BY DEF TimerRaise, TimerIrq
  <2>3. (SyscallEnter \/ SyscallReturn \/ Exit \/ Cli \/ Sti) => ~TimerIrq
    BY DEF SyscallEnter, SyscallReturn, Exit, Cli, Sti, Running, TimerIrq, IF_set, OpenModes
  <2> QED
    BY <1>4, <2>1, <2>2, <2>3 DEF SliceStep
<1> QED
  BY <1>1, <1>2, <1>3, <1>4 DEF Next

(* A thread loses the CPU only at the end of its slice, by yielding or by  *)
(* exiting, and a tick that finds another thread waiting shortens it.      *)
THEOREM SliceHonouredAlways == Spec => SliceHonoured
<1>1. IInv /\ [Next]_vars => [SliceStep]_vars
  BY NextSlice
<1>2. Spec => [][SliceStep]_vars
  BY <1>1, Inductive, PTL DEF Spec
<1> QED
  BY <1>2 DEF SliceHonoured, SliceStep

-----------------------------------------------------------------------------
(* Scheduler implements RoundRobin.  First the operators of the mapping:   *)
(* what is kept of a list, element by element.                             *)

(* What Only goes through, element by element, exists.                     *)
IsKept(f, S, q, n) ==
  f = [k \in 0 .. n |-> IF k = 0 THEN <<>>
                        ELSE IF q[k] \in S THEN Append(f[k - 1], q[k]) ELSE f[k - 1]]

HasKept(S, q, n) == \E f : IsKept(f, S, q, n)

LEMMA KeptExists ==
  ASSUME NEW S, NEW q, NEW m \in Nat
  PROVE  HasKept(S, q, m)
<1> DEFINE H == {n \in Nat : HasKept(S, q, n)}
<1>1. 0 \in H
  <2>1. PICK f : f = [k \in 0 .. 0 |-> <<>>]
    OBVIOUS
  <2>2. f = [k \in 0 .. 0 |-> IF k = 0 THEN <<>>
                              ELSE IF q[k] \in S THEN Append(f[k - 1], q[k]) ELSE f[k - 1]]
    BY <2>1
  <2> QED
    BY <2>2 DEF HasKept, IsKept
<1>2. ASSUME NEW n \in Nat, n \in H PROVE n + 1 \in H
  <2>1. PICK f : IsKept(f, S, q, n)
    BY <1>2 DEF HasKept
  <2>2. \A k \in 0 .. n : f[k] = IF k = 0 THEN <<>>
                                 ELSE IF q[k] \in S THEN Append(f[k - 1], q[k]) ELSE f[k - 1]
    BY <2>1 DEF IsKept
  <2>3. PICK x : x = IF q[n + 1] \in S THEN Append(f[n], q[n + 1]) ELSE f[n]
    OBVIOUS
  <2>4. PICK g : g = [k \in 0 .. n + 1 |-> IF k = n + 1 THEN x ELSE f[k]]
    OBVIOUS
  <2>5. /\ \A k \in 0 .. n : g[k] = f[k]
        /\ g[n + 1] = x
        /\ g = [k \in 0 .. n + 1 |-> g[k]]
    BY <2>4
  <2>6. ASSUME NEW k \in 0 .. n + 1
        PROVE  g[k] = IF k = 0 THEN <<>>
                      ELSE IF q[k] \in S THEN Append(g[k - 1], q[k]) ELSE g[k - 1]
    <3>1. CASE k = 0
      <4>1. 0 \in 0 .. n
        OBVIOUS
      <4> QED
        BY <2>2, <2>5, <3>1, <4>1
    <3>2. CASE k = n + 1
      <4>1. n \in 0 .. n /\ k # 0 /\ k - 1 = n
        BY <3>2
      <4>2. g[n] = f[n]
        BY <2>5, <4>1
      <4> QED
        BY <2>3, <2>5, <3>2, <4>1, <4>2
    <3>3. CASE k # 0 /\ k # n + 1
      <4>1. k \in 0 .. n /\ k - 1 \in 0 .. n
        BY <3>3
      <4> QED
        BY <2>2, <2>5, <3>3, <4>1
    <3> QED
      BY <3>1, <3>2, <3>3
  <2>7. IsKept(g, S, q, n + 1)
    BY <2>5, <2>6 DEF IsKept
  <2> QED
    BY <2>7 DEF HasKept
<1> HIDE DEF H
<1>3. Nat \subseteq H
  BY <1>1, <1>2, SetInduction
<1> QED
  BY <1>3 DEF H

(* Only keeps an element or leaves it out, one after the other.            *)
LEMMA OnlySteps ==
  ASSUME NEW S, NEW T, NEW q \in Seq(T)
  PROVE  /\ OnlyUpTo(S, q)[0] = <<>>
         /\ \A k \in 1 .. Len(q) :
              OnlyUpTo(S, q)[k] = IF q[k] \in S THEN Append(OnlyUpTo(S, q)[k - 1], q[k])
                                  ELSE OnlyUpTo(S, q)[k - 1]
<1>1. Len(q) \in Nat
  OBVIOUS
<1>2. \E f : IsKept(f, S, q, Len(q))
  BY <1>1, KeptExists DEF HasKept
<1>3. IsKept(OnlyUpTo(S, q), S, q, Len(q))
  <2>1. OnlyUpTo(S, q) = CHOOSE f : IsKept(f, S, q, Len(q))
    BY DEF OnlyUpTo, IsKept
  <2> QED
    BY <1>2, <2>1
<1>4. PICK g : g = OnlyUpTo(S, q) /\ IsKept(g, S, q, Len(q))
  BY <1>3
<1>5. \A k \in 0 .. Len(q) :
        g[k] = IF k = 0 THEN <<>>
               ELSE IF q[k] \in S THEN Append(g[k - 1], q[k]) ELSE g[k - 1]
  BY <1>4 DEF IsKept
<1>6. 0 \in 0 .. Len(q) /\ \A k \in 1 .. Len(q) : k \in 0 .. Len(q) /\ k # 0
  BY <1>1
<1> QED
  BY <1>4, <1>5, <1>6

(* Appending to a concatenation.                                           *)
AppendsInside(T) ==
  \A p \in Seq(T), q \in Seq(T), x \in T : Append(p \o q, x) = p \o Append(q, x)

LEMMA AppendConcat == ASSUME NEW T PROVE AppendsInside(T)
<1> SUFFICES ASSUME NEW p \in Seq(T), NEW q \in Seq(T), NEW x \in T
             PROVE  Append(p \o q, x) = p \o Append(q, x)
  BY Zenon DEF AppendsInside
<1>1. p \o q \in Seq(T) /\ <<x>> \in Seq(T)
  BY ConcatProperties
<1>2. Append(p \o q, x) = (p \o q) \o <<x>> /\ Append(q, x) = q \o <<x>>
  BY <1>1, AppendIsConcat
<1>3. (p \o q) \o <<x>> = p \o (q \o <<x>>)
  BY <1>1, ConcatAssociative
<1> QED
  BY <1>2, <1>3


(* The step from n to n + 1.                                               *)
LEMMA OnlyStep ==
  ASSUME NEW S, NEW T, NEW q \in Seq(T), NEW n \in Nat, n + 1 <= Len(q)
  PROVE  OnlyUpTo(S, q)[n + 1] = IF q[n + 1] \in S THEN Append(OnlyUpTo(S, q)[n], q[n + 1])
                                 ELSE OnlyUpTo(S, q)[n]
<1>1. PICK k \in 1 .. Len(q) : k = n + 1 /\ k - 1 = n
  OBVIOUS
<1>2. OnlyUpTo(S, q)[k] = IF q[k] \in S THEN Append(OnlyUpTo(S, q)[k - 1], q[k])
                          ELSE OnlyUpTo(S, q)[k - 1]
  BY OnlySteps
<1> QED
  BY <1>1, <1>2

(* Nothing is kept of nothing.                                             *)
LEMMA OnlyStart ==
  ASSUME NEW S, NEW T, NEW q \in Seq(T)
  PROVE  OnlyUpTo(S, q)[0] = <<>>
BY OnlySteps

(* What Only returns is a sequence.                                        *)
LEMMA OnlyTyped ==
  ASSUME NEW S, NEW T, NEW q \in Seq(T), NEW m \in 0 .. Len(q)
  PROVE  OnlyUpTo(S, q)[m] \in Seq(T)
<1> DEFINE H == {n \in Nat : n <= Len(q) => OnlyUpTo(S, q)[n] \in Seq(T)}
<1>1. 0 \in H
  <2>1. <<>> \in Seq(T)
    BY EmptySeq
  <2> QED
    BY <2>1, OnlyStart
<1>2. ASSUME NEW n \in Nat, n \in H PROVE n + 1 \in H
  <2> SUFFICES ASSUME n + 1 <= Len(q) PROVE OnlyUpTo(S, q)[n + 1] \in Seq(T)
    OBVIOUS
  <2>1. n + 1 \in 1 .. Len(q) /\ (n + 1) - 1 = n /\ n <= Len(q)
    OBVIOUS
  <2>2. q[n + 1] \in T /\ OnlyUpTo(S, q)[n] \in Seq(T)
    BY <1>2, <2>1, ElementOfSeq
  <2>3. Append(OnlyUpTo(S, q)[n], q[n + 1]) \in Seq(T)
    BY <2>2, AppendProperties
  <2>4. OnlyUpTo(S, q)[n + 1] = IF q[n + 1] \in S THEN Append(OnlyUpTo(S, q)[n], q[n + 1])
                                ELSE OnlyUpTo(S, q)[n]
    BY OnlyStep
  <2> QED
    BY <2>2, <2>3, <2>4
<1> HIDE DEF H
<1>3. Nat \subseteq H
  BY <1>1, <1>2, SetInduction
<1>4. m \in Nat /\ m <= Len(q)
  OBVIOUS
<1> QED
  BY <1>3, <1>4 DEF H

(* Only looks at S on the elements of the list only.                       *)
LEMMA OnlySame ==
  ASSUME NEW S, NEW R, NEW T, NEW q \in Seq(T), NEW m \in 0 .. Len(q),
         \A i \in 1 .. Len(q) : q[i] \in S <=> q[i] \in R
  PROVE  OnlyUpTo(S, q)[m] = OnlyUpTo(R, q)[m]
<1> DEFINE H == {n \in Nat : n <= Len(q) => OnlyUpTo(S, q)[n] = OnlyUpTo(R, q)[n]}
<1>1. 0 \in H
  BY OnlyStart
<1>2. ASSUME NEW n \in Nat, n \in H PROVE n + 1 \in H
  <2> SUFFICES ASSUME n + 1 <= Len(q)
               PROVE  OnlyUpTo(S, q)[n + 1] = OnlyUpTo(R, q)[n + 1]
    OBVIOUS
  <2>1. n + 1 \in 1 .. Len(q) /\ (n + 1) - 1 = n /\ n <= Len(q)
    OBVIOUS
  <2>2. OnlyUpTo(S, q)[n] = OnlyUpTo(R, q)[n]
    BY <1>2, <2>1
  <2>3. OnlyUpTo(S, q)[n + 1] = IF q[n + 1] \in S THEN Append(OnlyUpTo(S, q)[n], q[n + 1])
                                ELSE OnlyUpTo(S, q)[n]
    BY <2>1, OnlyStep
  <2>4. OnlyUpTo(R, q)[n + 1] = IF q[n + 1] \in R THEN Append(OnlyUpTo(R, q)[n], q[n + 1])
                                ELSE OnlyUpTo(R, q)[n]
    BY <2>1, OnlyStep
  <2> QED
    BY <2>1, <2>2, <2>3, <2>4
<1> HIDE DEF H
<1>3. Nat \subseteq H
  BY <1>1, <1>2, SetInduction
<1>4. m \in Nat /\ m <= Len(q)
  OBVIOUS
<1> QED
  BY <1>3, <1>4 DEF H

(* Nothing is kept of a list without elements of S.                        *)
LEMMA OnlyNone ==
  ASSUME NEW S, NEW T, NEW q \in Seq(T), NEW m \in 0 .. Len(q),
         \A i \in 1 .. Len(q) : q[i] \notin S
  PROVE  OnlyUpTo(S, q)[m] = <<>>
<1> DEFINE H == {n \in Nat : n <= Len(q) => OnlyUpTo(S, q)[n] = <<>>}
<1>1. 0 \in H
  BY OnlyStart
<1>2. ASSUME NEW n \in Nat, n \in H PROVE n + 1 \in H
  <2> SUFFICES ASSUME n + 1 <= Len(q) PROVE OnlyUpTo(S, q)[n + 1] = <<>>
    OBVIOUS
  <2>1. n + 1 \in 1 .. Len(q) /\ (n + 1) - 1 = n /\ n <= Len(q)
    OBVIOUS
  <2>2. OnlyUpTo(S, q)[n] = <<>>
    BY <1>2, <2>1
  <2> QED
    BY <2>1, <2>2, OnlyStep
<1> HIDE DEF H
<1>3. Nat \subseteq H
  BY <1>1, <1>2, SetInduction
<1>4. m \in Nat /\ m <= Len(q)
  OBVIOUS
<1> QED
  BY <1>3, <1>4 DEF H

(* What is kept of a list does not depend on what follows it.              *)
LEMMA OnlyPrefix ==
  ASSUME NEW S, NEW T, NEW p \in Seq(T), NEW q \in Seq(T), NEW m \in 0 .. Len(p)
  PROVE  OnlyUpTo(S, p \o q)[m] = OnlyUpTo(S, p)[m]
<1> DEFINE H == {n \in Nat : n <= Len(p) => OnlyUpTo(S, p \o q)[n] = OnlyUpTo(S, p)[n]}
<1>0. /\ p \o q \in Seq(T) /\ Len(p \o q) = Len(p) + Len(q)
      /\ \A k \in 1 .. Len(p) : (p \o q)[k] = p[k]
  BY ConcatParts
<1>1. 0 \in H
  <2>1. PICK r \in Seq(T) : r = p \o q
    BY <1>0
  <2>2. OnlyUpTo(S, r)[0] = <<>> /\ OnlyUpTo(S, p)[0] = <<>>
    BY OnlyStart
  <2> QED
    BY <2>1, <2>2
<1>2. ASSUME NEW n \in Nat, n \in H PROVE n + 1 \in H
  <2> SUFFICES ASSUME n + 1 <= Len(p) PROVE OnlyUpTo(S, p \o q)[n + 1] = OnlyUpTo(S, p)[n + 1]
    OBVIOUS
  <2>1. /\ n + 1 \in 1 .. Len(p) /\ (n + 1) - 1 = n /\ n <= Len(p)
        /\ n + 1 \in 1 .. Len(p \o q)
    BY <1>0
  <2>2. OnlyUpTo(S, p \o q)[n] = OnlyUpTo(S, p)[n] /\ (p \o q)[n + 1] = p[n + 1]
    BY <1>0, <1>2, <2>1
  <2>3. PICK r \in Seq(T) : r = p \o q
    BY <1>0
  <2>4. OnlyUpTo(S, r)[n + 1] = IF r[n + 1] \in S THEN Append(OnlyUpTo(S, r)[n], r[n + 1])
                                ELSE OnlyUpTo(S, r)[n]
    <3>1. PICK k \in Nat : k = n /\ k + 1 <= Len(r)
      BY <1>0, <2>3
    <3>2. OnlyUpTo(S, r)[k + 1] = IF r[k + 1] \in S THEN Append(OnlyUpTo(S, r)[k], r[k + 1])
                                  ELSE OnlyUpTo(S, r)[k]
      BY <3>1, OnlyStep
    <3> QED
      BY <3>1, <3>2
  <2>5. OnlyUpTo(S, p)[n + 1] = IF p[n + 1] \in S THEN Append(OnlyUpTo(S, p)[n], p[n + 1])
                                ELSE OnlyUpTo(S, p)[n]
    BY <2>1, OnlyStep
  <2> QED
    BY <2>2, <2>3, <2>4, <2>5
<1> HIDE DEF H
<1>3. Nat \subseteq H
  BY <1>1, <1>2, SetInduction
<1>4. m \in Nat /\ m <= Len(p)
  OBVIOUS
<1> QED
  BY <1>3, <1>4 DEF H

(* What is kept of a concatenation.                                        *)
LEMMA OnlyConcat ==
  ASSUME NEW S, NEW T, NEW p \in Seq(T), NEW q \in Seq(T)
  PROVE  Only(S, p \o q) = Only(S, p) \o Only(S, q)
<1> DEFINE l == Only(S, p)
           H == {n \in Nat : n <= Len(q) =>
                   OnlyUpTo(S, p \o q)[Len(p) + n] = l \o OnlyUpTo(S, q)[n]}
<1>0. /\ p \o q \in Seq(T) /\ Len(p \o q) = Len(p) + Len(q)
      /\ \A k \in 1 .. Len(q) : (p \o q)[Len(p) + k] = q[k]
  BY ConcatParts
<1>t. l \in Seq(T)
  <2>1. Len(p) \in 0 .. Len(p)
    OBVIOUS
  <2> QED
    BY <2>1, OnlyTyped DEF Only
<1>a. OnlyUpTo(S, p \o q)[Len(p)] = l
  <2>1. Len(p) \in 0 .. Len(p)
    OBVIOUS
  <2> QED
    BY <2>1, OnlyPrefix DEF Only
<1> HIDE DEF l
<1>1. 0 \in H
  <2>1. Len(p) + 0 = Len(p)
    OBVIOUS
  <2>2. l \o <<>> = l
    BY <1>t, ConcatEmptySeq
  <2>3. OnlyUpTo(S, q)[0] = <<>>
    BY OnlyStart
  <2> QED
    BY <1>a, <2>1, <2>2, <2>3
<1>2. ASSUME NEW n \in Nat, n \in H PROVE n + 1 \in H
  <2> SUFFICES ASSUME n + 1 <= Len(q)
               PROVE  OnlyUpTo(S, p \o q)[Len(p) + (n + 1)] = l \o OnlyUpTo(S, q)[n + 1]
    OBVIOUS
  <2>1. /\ n + 1 \in 1 .. Len(q) /\ (n + 1) - 1 = n /\ n \in 0 .. Len(q)
        /\ Len(p) + (n + 1) \in 1 .. Len(p \o q)
        /\ (Len(p) + (n + 1)) - 1 = Len(p) + n
    BY <1>0
  <2>2. /\ OnlyUpTo(S, p \o q)[Len(p) + n] = l \o OnlyUpTo(S, q)[n]
        /\ (p \o q)[Len(p) + (n + 1)] = q[n + 1]
    BY <1>0, <1>2, <2>1
  <2>3. PICK r \in Seq(T) : r = p \o q
    BY <1>0
  <2>4. PICK u \in Seq(T) : u = OnlyUpTo(S, q)[n]
    BY <2>1, OnlyTyped
  <2>5. PICK x \in T : x = q[n + 1]
    BY <2>1, ElementOfSeq
  <2>6. OnlyUpTo(S, r)[Len(p) + (n + 1)] = IF x \in S THEN Append(l \o u, x) ELSE l \o u
    <3>1. PICK k \in Nat : k = Len(p) + n /\ k + 1 = Len(p) + (n + 1) /\ k + 1 <= Len(r)
      BY <1>0, <2>1, <2>3
    <3>2. OnlyUpTo(S, r)[k + 1] = IF r[k + 1] \in S THEN Append(OnlyUpTo(S, r)[k], r[k + 1])
                                  ELSE OnlyUpTo(S, r)[k]
      BY <3>1, OnlyStep
    <3> QED
      BY <2>2, <2>3, <2>4, <2>5, <3>1, <3>2
  <2>7. OnlyUpTo(S, q)[n + 1] = IF x \in S THEN Append(u, x) ELSE u
    BY <2>1, <2>4, <2>5, OnlyStep
  <2>8. Append(l \o u, x) = l \o Append(u, x)
    <3>1. AppendsInside(T)
      BY AppendConcat
    <3> QED
      BY <1>t, <2>4, <2>5, <3>1, Zenon DEF AppendsInside
  <2> QED
    BY <2>3, <2>6, <2>7, <2>8
<1> HIDE DEF H
<1>3. Nat \subseteq H
  BY <1>1, <1>2, SetInduction
<1>4. Len(q) \in Nat /\ Len(q) <= Len(q) /\ Len(p \o q) = Len(p) + Len(q)
  BY <1>0
<1> QED
  BY <1>3, <1>4 DEF H, l, Only

(* A selection of a list is a list.                                        *)
LEMMA OnlyIsSeq == ASSUME NEW S, NEW T, NEW q \in Seq(T) PROVE Only(S, q) \in Seq(T)
<1>1. Len(q) \in 0 .. Len(q)
  OBVIOUS
<1> QED
  BY <1>1, OnlyTyped DEF Only

(* What is kept when one more element follows.                             *)
LEMMA OnlyAppend ==
  ASSUME NEW S, NEW T, NEW q \in Seq(T), NEW x \in T
  PROVE  Only(S, Append(q, x)) = IF x \in S THEN Append(Only(S, q), x) ELSE Only(S, q)
<1>1. PICK r \in Seq(T) : /\ r = Append(q, x) /\ Len(r) = Len(q) + 1
                          /\ r[Len(q) + 1] = x
  BY AppendProperties
<1>2. PICK n \in Nat : n = Len(q) /\ n + 1 = Len(r) /\ n + 1 <= Len(r)
  BY <1>1
<1>3. OnlyUpTo(S, r)[n + 1] = IF r[n + 1] \in S THEN Append(OnlyUpTo(S, r)[n], r[n + 1])
                              ELSE OnlyUpTo(S, r)[n]
  <2>1. n + 1 <= Len(r)
    BY <1>2
  <2> QED
    BY <2>1, OnlyStep
<1>4. OnlyUpTo(S, r)[n] = OnlyUpTo(S, q)[n]
  <2>1. <<x>> \in Seq(T) /\ Append(q, x) = q \o <<x>>
    BY AppendIsConcat
  <2>2. PICK e \in Seq(T) : e = <<x>>
    BY <2>1
  <2>3. n \in 0 .. Len(q)
    BY <1>2
  <2>4. OnlyUpTo(S, q \o e)[n] = OnlyUpTo(S, q)[n]
    BY <2>3, OnlyPrefix
  <2>5. r = q \o e
    BY <1>1, <2>1, <2>2
  <2> QED
    BY <2>4, <2>5
<1> QED
  BY <1>1, <1>2, <1>3, <1>4 DEF Only

-----------------------------------------------------------------------------
(* The circular list, read from one element to another.                    *)
Between(q, i, j) ==
  IF i < j THEN SubSeq(q, i + 1, j - 1)
  ELSE SubSeq(q, i + 1, Len(q)) \o SubSeq(q, 1, j - 1)

(* A stretch of the list, with bounds that may leave it empty.             *)
LEMMA PartTyped ==
  ASSUME NEW T, NEW q \in Seq(T), NEW a \in 1 .. Len(q) + 1, NEW b \in 0 .. Len(q)
  PROVE  /\ SubSeq(q, a, b) \in Seq(T)
         /\ Len(SubSeq(q, a, b)) = IF a <= b THEN b - a + 1 ELSE 0
         /\ \A k \in 1 .. b - a + 1 : SubSeq(q, a, b)[k] = q[a + k - 1]
<1>1. \A k \in a .. b : q[k] \in T
  BY ElementOfSeq
<1>2. a \in Int /\ b \in Int
  OBVIOUS
<1> QED
  BY <1>1, <1>2, SubSeqProperties

(* A stretch of the list, split at one of its elements.                    *)
LEMMA PartSplit ==
  ASSUME NEW T, NEW q \in Seq(T), NEW j \in 1 .. Len(q), NEW a \in 1 .. j,
         NEW b \in j .. Len(q)
  PROVE  SubSeq(q, a, b) = Append(SubSeq(q, a, j - 1), q[j]) \o SubSeq(q, j + 1, b)
<1>1. a \in 1 .. Len(q) /\ j \in a .. Len(q) /\ a \in 1 .. Len(q) + 1 /\ j \in a - 1 .. Len(q)
      /\ j - 1 \in 0 .. Len(q)
  OBVIOUS
<1>2. SubSeq(q, a, j) = SubSeq(q, a, j - 1) \o <<q[j]>>
  BY <1>1, SubSeqRecursiveSecond
<1>3. SubSeq(q, a, j - 1) \in Seq(T) /\ q[j] \in T
  BY <1>1, PartTyped, ElementOfSeq
<1>4. SubSeq(q, a, j) = Append(SubSeq(q, a, j - 1), q[j])
  BY <1>2, <1>3, AppendIsConcat
<1>5. SubSeq(q, a, j) \o SubSeq(q, j + 1, b) = SubSeq(q, a, b)
  BY <1>1, ConcatAdjacentSubSeq
<1> QED
  BY <1>4, <1>5

LEMMA BetweenTyped ==
  ASSUME NEW T, NEW q \in Seq(T), NEW i \in 1 .. Len(q), NEW j \in 1 .. Len(q)
  PROVE  Between(q, i, j) \in Seq(T)
<1>1. /\ SubSeq(q, i + 1, j - 1) \in Seq(T)
      /\ SubSeq(q, i + 1, Len(q)) \in Seq(T)
      /\ SubSeq(q, 1, j - 1) \in Seq(T)
  <2>1. i + 1 \in 1 .. Len(q) + 1 /\ j - 1 \in 0 .. Len(q) /\ 1 \in 1 .. Len(q) + 1
        /\ Len(q) \in 0 .. Len(q)
    OBVIOUS
  <2> QED
    BY <2>1, PartTyped
<1> QED
  BY <1>1, ConcatProperties DEF Between

(* Once around from i passes j: what is before it, and what is after.      *)
LEMMA ReadFromSplit ==
  ASSUME NEW T, NEW q \in Seq(T), NEW i \in 1 .. Len(q), NEW j \in 1 .. Len(q), i # j
  PROVE  ReadFrom(q, i) = Append(Between(q, i, j), q[j]) \o Between(q, j, i)
<1>1. PICK x \in T : x = q[j]
  BY ElementOfSeq
<1>2. PICK n \in Nat : n = Len(q)
  OBVIOUS
<1>a. /\ i + 1 \in 1 .. Len(q) + 1 /\ j + 1 \in 1 .. Len(q) + 1 /\ 1 \in 1 .. Len(q) + 1
      /\ i - 1 \in 0 .. Len(q) /\ j - 1 \in 0 .. Len(q) /\ n \in 0 .. Len(q)
  BY <1>2
<1>b. /\ SubSeq(q, i + 1, n) \in Seq(T) /\ SubSeq(q, 1, i - 1) \in Seq(T)
      /\ SubSeq(q, j + 1, n) \in Seq(T) /\ SubSeq(q, 1, j - 1) \in Seq(T)
      /\ SubSeq(q, i + 1, j - 1) \in Seq(T) /\ SubSeq(q, j + 1, i - 1) \in Seq(T)
  BY <1>a, PartTyped
<1>3. PICK u \in Seq(T) : u = SubSeq(q, i + 1, n)
  BY <1>b
<1>4. PICK v \in Seq(T) : v = SubSeq(q, 1, i - 1)
  BY <1>b
<1>5. PICK y \in Seq(T) : y = SubSeq(q, j + 1, n)
  BY <1>b
<1>6. PICK z \in Seq(T) : z = SubSeq(q, 1, j - 1)
  BY <1>b
<1>7. AppendsInside(T)
  BY AppendConcat
<1>8. CASE i < j
  <2>1. PICK w \in Seq(T) : w = SubSeq(q, i + 1, j - 1)
    BY <1>b
  <2>2. u = Append(w, x) \o y
    <3>1. i + 1 \in 1 .. j /\ n \in j .. Len(q)
      BY <1>2, <1>8
    <3> QED
      BY <1>1, <1>3, <1>5, <2>1, <3>1, PartSplit
  <2>3. Append(w, x) \in Seq(T)
    BY <1>1, <2>1, AppendProperties
  <2>4. Append(w, x) \o (y \o v) = (Append(w, x) \o y) \o v
    <3>1. PICK p \in Seq(T) : p = Append(w, x)
      BY <2>3
    <3>2. p \in Seq(T) /\ y \in Seq(T) /\ v \in Seq(T)
      BY <1>4, <1>5, <3>1
    <3>3. p \o (y \o v) = (p \o y) \o v
      <4>1. \A a, b, c \in Seq(T) : a \o (b \o c) = (a \o b) \o c
        <5>1. Associative(T)
          BY ConcatRegroup
        <5> QED
          BY <5>1, Zenon DEF Associative
      <4>2. \A b, c \in Seq(T) : p \o (b \o c) = (p \o b) \o c
        BY <3>2, <4>1
      <4>3. \A c \in Seq(T) : p \o (y \o c) = (p \o y) \o c
        BY <3>2, <4>2
      <4> QED
        BY <3>2, <4>3
    <3> QED
      BY <3>1, <3>3
  <2>5. Between(q, i, j) = w
    BY <1>8, <2>1 DEF Between
  <2>6. Between(q, j, i) = y \o v
    <3>1. ~(j < i)
      BY <1>8
    <3> QED
      BY <1>2, <1>4, <1>5, <3>1, Zenon DEF Between
  <2>7. ReadFrom(q, i) = u \o v
    BY <1>2, <1>3, <1>4 DEF ReadFrom
  <2> QED
    BY <1>1, <2>2, <2>4, <2>5, <2>6, <2>7
<1>9. CASE j < i
  <2>1. PICK w \in Seq(T) : w = SubSeq(q, j + 1, i - 1)
    BY <1>b
  <2>2. v = Append(z, x) \o w
    <3>1. 1 \in 1 .. j /\ i - 1 \in j .. Len(q)
      BY <1>9
    <3> QED
      BY <1>1, <1>4, <1>6, <2>1, <3>1, PartSplit
  <2>3. Append(z, x) \in Seq(T)
    BY <1>1, <1>6, AppendProperties
  <2>4. u \o (Append(z, x) \o w) = (u \o Append(z, x)) \o w
    <3>1. PICK p \in Seq(T) : p = Append(z, x)
      BY <2>3
    <3>2. u \in Seq(T) /\ p \in Seq(T) /\ w \in Seq(T)
      BY <1>3, <2>1, <3>1
    <3>3. u \o (p \o w) = (u \o p) \o w
      <4>1. \A a, b, c \in Seq(T) : a \o (b \o c) = (a \o b) \o c
        <5>1. Associative(T)
          BY ConcatRegroup
        <5> QED
          BY <5>1, Zenon DEF Associative
      <4>2. \A b, c \in Seq(T) : u \o (b \o c) = (u \o b) \o c
        BY <3>2, <4>1
      <4>3. \A c \in Seq(T) : u \o (p \o c) = (u \o p) \o c
        BY <3>2, <4>2
      <4> QED
        BY <3>2, <4>3
    <3> QED
      BY <3>1, <3>3
  <2>5. u \o Append(z, x) = Append(u \o z, x)
    BY <1>1, <1>3, <1>6, <1>7, Zenon DEF AppendsInside
  <2>6. Between(q, j, i) = w
    BY <1>9, <2>1 DEF Between
  <2>7. Between(q, i, j) = u \o z
    <3>1. ~(i < j)
      BY <1>9
    <3> QED
      BY <1>2, <1>3, <1>6, <3>1, Zenon DEF Between
  <2>8. ReadFrom(q, i) = u \o v
    BY <1>2, <1>3, <1>4 DEF ReadFrom
  <2> QED
    BY <1>1, <2>2, <2>4, <2>5, <2>6, <2>7, <2>8
<1> QED
  BY <1>8, <1>9

(* How far queue_next_ready walks from the i-th element to the m-th.       *)
Walk(n, i, m) == (m - i - 1) % n

(* The walk wraps once at most.                                            *)
LEMMA WalkCases ==
  ASSUME NEW n \in Nat, NEW i \in 1 .. n, NEW m \in 1 .. n
  PROVE  Walk(n, i, m) = IF i < m THEN m - i - 1 ELSE n + m - i - 1
<1>1. CASE i < m
  BY <1>1 DEF Walk
<1>2. CASE m <= i
  <2>1. n + m - i - 1 \in 0 .. n - 1 /\ m - i - 1 = (n + m - i - 1) - n
    BY <1>2
  <2>2. (m - i - 1) % n = n + m - i - 1
    BY <1>2, <2>1
  <2> QED
    BY <1>2, <2>2 DEF Walk
<1> QED
  BY <1>1, <1>2

(* What lies between i and j is met before j.                              *)
LEMMA BetweenMet ==
  ASSUME NEW T, NEW q \in Seq(T), NEW i \in 1 .. Len(q), NEW j \in 1 .. Len(q), i # j,
         NEW k \in 1 .. Len(Between(q, i, j))
  PROVE  \E m \in 1 .. Len(q) :
           /\ Between(q, i, j)[k] = q[m]
           /\ m # i /\ Walk(Len(q), i, m) < Walk(Len(q), i, j)
<1>1. PICK n \in Nat : n = Len(q)
  OBVIOUS
<1>2. \A m \in 1 .. n : Walk(n, i, m) = IF i < m THEN m - i - 1 ELSE n + m - i - 1
  BY <1>1, WalkCases
<1>3. /\ i + 1 \in 1 .. Len(q) + 1 /\ 1 \in 1 .. Len(q) + 1
      /\ j - 1 \in 0 .. Len(q) /\ n \in 0 .. Len(q)
  BY <1>1
<1>4. CASE i < j
  <2>1. Between(q, i, j) = SubSeq(q, i + 1, j - 1)
    BY <1>4 DEF Between
  <2>2. PICK a \in Nat, b \in Nat : a = i + 1 /\ b = j - 1 /\ a \in 1 .. Len(q) + 1
                                    /\ b \in 0 .. Len(q)
    BY <1>3
  <2>3. /\ Len(SubSeq(q, a, b)) = IF a <= b THEN b - a + 1 ELSE 0
        /\ \A l \in 1 .. b - a + 1 : SubSeq(q, a, b)[l] = q[a + l - 1]
    BY <2>2, PartTyped
  <2>4. k \in 1 .. b - a + 1
    BY <2>1, <2>2, <2>3
  <2>5. PICK m \in 1 .. n : m = a + k - 1 /\ m = i + k /\ m < j
    BY <1>1, <2>2, <2>4
  <2>6. Between(q, i, j)[k] = q[m]
    BY <2>1, <2>2, <2>3, <2>4, <2>5
  <2>7. Walk(n, i, m) < Walk(n, i, j)
    BY <1>1, <1>2, <1>4, <2>4, <2>5
  <2> QED
    BY <1>1, <2>4, <2>5, <2>6, <2>7
<1>5. CASE j < i
  <2>1. PICK u \in Seq(T) : u = SubSeq(q, i + 1, n) /\ Len(u) = n - i
                            /\ \A l \in 1 .. n - i : u[l] = q[i + l]
    <3>1. PICK a \in Nat : a = i + 1 /\ a \in 1 .. Len(q) + 1
      BY <1>3
    <3>2. /\ SubSeq(q, a, n) \in Seq(T)
          /\ Len(SubSeq(q, a, n)) = IF a <= n THEN n - a + 1 ELSE 0
          /\ \A l \in 1 .. n - a + 1 : SubSeq(q, a, n)[l] = q[a + l - 1]
      BY <1>3, <3>1, PartTyped
    <3>3. n - a + 1 = n - i /\ (IF a <= n THEN n - a + 1 ELSE 0) = n - i
      BY <1>1, <3>1
    <3>4. ASSUME NEW l \in 1 .. n - i PROVE SubSeq(q, a, n)[l] = q[i + l]
      <4>1. l \in 1 .. n - a + 1 /\ a + l - 1 = i + l
        BY <1>1, <3>1
      <4> QED
        BY <3>2, <4>1
    <3> QED
      BY <3>1, <3>2, <3>3, <3>4
  <2>2. PICK z \in Seq(T) : z = SubSeq(q, 1, j - 1) /\ Len(z) = j - 1
                            /\ \A l \in 1 .. j - 1 : z[l] = q[l]
    <3>1. PICK b \in Nat : b = j - 1 /\ b \in 0 .. Len(q)
      BY <1>3
    <3>2. /\ SubSeq(q, 1, b) \in Seq(T)
          /\ Len(SubSeq(q, 1, b)) = IF 1 <= b THEN b - 1 + 1 ELSE 0
          /\ \A l \in 1 .. b - 1 + 1 : SubSeq(q, 1, b)[l] = q[1 + l - 1]
      BY <1>3, <3>1, PartTyped
    <3>3. b - 1 + 1 = b /\ (IF 1 <= b THEN b - 1 + 1 ELSE 0) = b
          /\ \A l \in 1 .. b : 1 + l - 1 = l
      BY <3>1
    <3> QED
      BY <3>1, <3>2, <3>3
  <2>3. Between(q, i, j) = u \o z
    <3>1. ~(i < j)
      BY <1>5
    <3> QED
      BY <1>1, <2>1, <2>2, <3>1, Zenon DEF Between
  <2>4. /\ Len(u \o z) = Len(u) + Len(z)
        /\ \A l \in 1 .. Len(u) : (u \o z)[l] = u[l]
        /\ \A l \in 1 .. Len(z) : (u \o z)[Len(u) + l] = z[l]
    BY ConcatParts
  <2>5. k \in 1 .. (n - i) + (j - 1)
    BY <2>1, <2>2, <2>3, <2>4
  <2>6. CASE k <= n - i
    <3>1. PICK m \in 1 .. n : m = i + k
      BY <1>1, <2>5, <2>6
    <3>2. k \in 1 .. n - i
      BY <2>5, <2>6
    <3>3. Between(q, i, j)[k] = q[m]
      BY <2>1, <2>3, <2>4, <3>1, <3>2
    <3>4. Walk(n, i, m) < Walk(n, i, j)
      BY <1>1, <1>2, <1>5, <3>1, <3>2
    <3> QED
      BY <1>1, <3>1, <3>2, <3>3, <3>4
  <2>7. CASE k > n - i
    <3>0. /\ k - (n - i) \in 1 .. n /\ k = (n - i) + (k - (n - i))
          /\ k - (n - i) < j
      BY <1>1, <2>5, <2>7
    <3>1. PICK m \in 1 .. n : m = k - (n - i) /\ k = (n - i) + m /\ m < j
      BY <3>0
    <3>2. m \in 1 .. j - 1
      BY <1>1, <3>1
    <3>3. Between(q, i, j)[k] = q[m]
      BY <2>1, <2>2, <2>3, <2>4, <3>1, <3>2
    <3>4. Walk(n, i, m) < Walk(n, i, j)
      BY <1>1, <1>2, <1>5, <3>1, <3>2
    <3> QED
      BY <1>1, <1>5, <3>1, <3>2, <3>3, <3>4
  <2> QED
    BY <1>1, <2>5, <2>6, <2>7
<1> QED
  BY <1>4, <1>5

(* The line from i: what waits before j, j itself, what waits after it.    *)
LEMMA LineFrom ==
  ASSUME NEW S, NEW T, NEW q \in Seq(T), NEW i \in 1 .. Len(q), NEW j \in 1 .. Len(q), i # j
  PROVE  Only(S, ReadFrom(q, i)) =
           (IF q[j] \in S THEN Append(Only(S, Between(q, i, j)), q[j])
            ELSE Only(S, Between(q, i, j))) \o Only(S, Between(q, j, i))
<1>1. PICK u \in Seq(T) : u = Between(q, i, j)
  BY BetweenTyped
<1>2. PICK v \in Seq(T) : v = Between(q, j, i)
  BY BetweenTyped
<1>3. PICK x \in T : x = q[j]
  BY ElementOfSeq
<1>4. ReadFrom(q, i) = Append(u, x) \o v
  BY <1>1, <1>2, <1>3, ReadFromSplit
<1>5. Append(u, x) \in Seq(T)
  BY <1>1, <1>3, AppendProperties
<1>6. Only(S, Append(u, x) \o v) = Only(S, Append(u, x)) \o Only(S, v)
  BY <1>2, <1>5, OnlyConcat
<1>7. Only(S, Append(u, x)) = IF x \in S THEN Append(Only(S, u), x) ELSE Only(S, u)
  <2>1. u \in Seq(T) /\ x \in T
    BY <1>1, <1>3
  <2> QED
    BY <2>1, OnlyAppend
<1> QED
  BY <1>1, <1>2, <1>3, <1>4, <1>6, <1>7

-----------------------------------------------------------------------------
(* The waiting line, when the queue or the current thread changes.         *)
PosIn(q, t) == CHOOSE i \in 1 .. Len(q) : q[i] = t
NoRepeats(q) == \A a, b \in 1 .. Len(q) : q[a] = q[b] => a = b

(* queue_next_ready finds an element where it is, since it is there once.  *)
LEMMA PosFound ==
  ASSUME NEW q, NoRepeats(q), NEW m \in 1 .. Len(q)
  PROVE  PosIn(q, q[m]) = m
BY DEF PosIn, NoRepeats

(* A list with one more element in front.                                  *)
LEMMA FirstAndRest ==
  ASSUME NEW T, NEW x \in T, NEW b \in Seq(T)
  PROVE  <<x>> \o b # <<>> /\ Head(<<x>> \o b) = x /\ Tail(<<x>> \o b) = b
<1>1. PICK p \in Seq(T) : p = <<x>> /\ Len(p) = 1 /\ p[1] = x
  <2>1. <<x>> \in Seq(T) /\ Len(<<x>>) = 1 /\ <<x>>[1] = x
    OBVIOUS
  <2> QED
    BY <2>1
<1>2. PICK r \in Seq(T) : /\ r = <<x>> \o b /\ Len(r) = 1 + Len(b) /\ r[1] = x
                          /\ \A k \in 1 .. Len(b) : r[1 + k] = b[k]
  <2>1. /\ p \o b \in Seq(T) /\ Len(p \o b) = Len(p) + Len(b)
        /\ \A k \in 1 .. Len(p) : (p \o b)[k] = p[k]
        /\ \A k \in 1 .. Len(b) : (p \o b)[Len(p) + k] = b[k]
    BY ConcatParts
  <2>2. 1 \in 1 .. Len(p)
    BY <1>1
  <2> QED
    BY <1>1, <2>1, <2>2
<1>3. r # <<>>
  <2>1. Len(r) # 0 /\ Len(<<>>) = 0
    BY <1>2
  <2> QED
    BY <2>1
<1>4. /\ Head(r) = r[1] /\ Tail(r) \in Seq(T) /\ Len(Tail(r)) = Len(r) - 1
      /\ \A k \in 1 .. Len(Tail(r)) : Tail(r)[k] = r[k + 1]
  BY <1>2, <1>3, HeadTailProperties
<1>5. Tail(r) = b
  <2>1. Len(Tail(r)) = Len(b)
    BY <1>2, <1>4
  <2>2. ASSUME NEW k \in 1 .. Len(b) PROVE Tail(r)[k] = b[k]
    <3>1. k + 1 = 1 + k /\ k \in 1 .. Len(Tail(r))
      BY <2>1
    <3> QED
      BY <1>2, <1>4, <3>1
  <2> QED
    BY <1>4, <2>1, <2>2, SeqEqual
<1> QED
  BY <1>2, <1>3, <1>4, <1>5

(* From i, the walk meets no element of S before j.                        *)
MetFirst(S, q, i, j) ==
  \A m \in 1 .. Len(q) :
    m # i /\ q[m] \in S => Walk(Len(q), i, j) <= Walk(Len(q), i, m)

LineTurns(S, q, i, j) ==
  LET l == Only(S, ReadFrom(q, i))
  IN  /\ l # <<>> /\ Head(l) = q[j]
      /\ Only(S, ReadFrom(q, j)) = IF q[i] \in S THEN Append(Tail(l), q[i]) ELSE Tail(l)

(* The dispatcher turns to the first element of the line; the current one  *)
(* goes to its end, unless it is no longer in S.                           *)
LEMMA LineMoves ==
  ASSUME NEW S, NEW T, NEW q \in Seq(T), NEW i \in 1 .. Len(q), NEW j \in 1 .. Len(q),
         i # j, q[j] \in S, MetFirst(S, q, i, j)
  PROVE  LineTurns(S, q, i, j)
<1>1. PICK u \in Seq(T) : u = Between(q, i, j)
  BY BetweenTyped
<1>2. PICK v \in Seq(T) : v = Between(q, j, i)
  BY BetweenTyped
<1>3. Only(S, u) = <<>>
  <2>1. ASSUME NEW k \in 1 .. Len(u) PROVE u[k] \notin S
    <3>1. k \in 1 .. Len(Between(q, i, j))
      BY <1>1
    <3>2. PICK m \in 1 .. Len(q) : /\ Between(q, i, j)[k] = q[m] /\ m # i
                                   /\ Walk(Len(q), i, m) < Walk(Len(q), i, j)
      BY <3>1, BetweenMet
    <3>3. /\ Walk(Len(q), i, m) = IF i < m THEN m - i - 1 ELSE Len(q) + m - i - 1
          /\ Walk(Len(q), i, j) = IF i < j THEN j - i - 1 ELSE Len(q) + j - i - 1
      BY WalkCases
    <3>4. ~(Walk(Len(q), i, j) <= Walk(Len(q), i, m))
      BY <3>2, <3>3
    <3> QED
      BY <1>1, <3>2, <3>4 DEF MetFirst
  <2>2. Len(u) \in 0 .. Len(u)
    OBVIOUS
  <2>3. OnlyUpTo(S, u)[Len(u)] = <<>>
    BY <2>1, <2>2, OnlyNone
  <2> QED
    BY <2>3 DEF Only
<1>4. PICK x \in T : x = q[j]
  BY ElementOfSeq
<1>5. PICK y \in T : y = q[i]
  BY ElementOfSeq
<1>6. PICK b \in Seq(T) : b = Only(S, v)
  BY <1>2, OnlyIsSeq
<1>7. Only(S, ReadFrom(q, i)) = <<x>> \o b
  <2>1. Only(S, ReadFrom(q, i)) = Append(Only(S, u), x) \o b
    BY <1>1, <1>2, <1>4, <1>6, LineFrom
  <2>2. Append(<<>>, x) = <<x>>
    OBVIOUS
  <2> QED
    BY <1>3, <2>1, <2>2
<1>8. Only(S, ReadFrom(q, j)) = IF y \in S THEN Append(b, y) ELSE b
  <2>1. Only(S, ReadFrom(q, j)) = (IF y \in S THEN Append(b, y) ELSE b) \o Only(S, u)
    BY <1>1, <1>2, <1>5, <1>6, LineFrom
  <2>2. (IF y \in S THEN Append(b, y) ELSE b) \in Seq(T)
    BY <1>5, <1>6, AppendProperties
  <2> QED
    BY <1>3, <2>1, <2>2, ConcatEmptySeq
<1>9. <<x>> \o b # <<>> /\ Head(<<x>> \o b) = x /\ Tail(<<x>> \o b) = b
  BY <1>4, <1>6, FirstAndRest
<1> QED
  BY <1>4, <1>5, <1>7, <1>8, <1>9 DEF LineTurns

(* The line is not empty when an element of S waits in it.                 *)
LEMMA LineNotEmpty ==
  ASSUME NEW S, NEW T, NEW q \in Seq(T), NEW i \in 1 .. Len(q), NEW j \in 1 .. Len(q),
         i # j, q[j] \in S
  PROVE  Only(S, ReadFrom(q, i)) # <<>>
<1>1. PICK u \in Seq(T) : u = Only(S, Between(q, i, j))
  BY BetweenTyped, OnlyIsSeq
<1>2. PICK v \in Seq(T) : v = Only(S, Between(q, j, i))
  BY BetweenTyped, OnlyIsSeq
<1>3. PICK x \in T : x = q[j]
  BY ElementOfSeq
<1>4. PICK w \in Seq(T) : w = Append(u, x) /\ Len(w) = Len(u) + 1
  BY <1>1, <1>3, AppendProperties
<1>5. Only(S, ReadFrom(q, i)) = w \o v
  BY <1>1, <1>2, <1>3, <1>4, LineFrom
<1>6. Len(w \o v) = Len(w) + Len(v)
  BY <1>2, <1>4, ConcatProperties
<1>7. Len(w \o v) # 0
  BY <1>1, <1>2, <1>4, <1>6
<1>8. Len(<<>>) = 0
  OBVIOUS
<1> QED
  BY <1>5, <1>7, <1>8

(* The line of the others does not look at the current element.            *)
LEMMA LineOfOthers ==
  ASSUME NEW S, NEW T, NEW q \in Seq(T), NoRepeats(q), NEW i \in 1 .. Len(q)
  PROVE  Only(S \ {q[i]}, ReadFrom(q, i)) = Only(S, ReadFrom(q, i))
<1>1. PICK x \in T : x = q[i]
  BY ElementOfSeq
<1>2. SubSeq(q, i + 1, Len(q)) \in Seq(T \ {x})
  <2>1. \A k \in i + 1 .. Len(q) : q[k] \in T \ {x}
    BY <1>1, ElementOfSeq DEF NoRepeats
  <2> QED
    BY <2>1, SubSeqProperties
<1>3. SubSeq(q, 1, i - 1) \in Seq(T \ {x})
  <2>1. \A k \in 1 .. i - 1 : q[k] \in T \ {x}
    BY <1>1, ElementOfSeq DEF NoRepeats
  <2> QED
    BY <2>1, SubSeqProperties
<1>4. PICK r \in Seq(T \ {x}) : r = ReadFrom(q, i)
  BY <1>2, <1>3, ConcatProperties DEF ReadFrom
<1>5. \A k \in 1 .. Len(r) : r[k] \in S <=> r[k] \in S \ {x}
  BY <1>4, ElementOfSeq
<1>6. Len(r) \in 0 .. Len(r)
  BY <1>4
<1>7. OnlyUpTo(S, r)[Len(r)] = OnlyUpTo(S \ {x}, r)[Len(r)]
  BY <1>4, <1>5, <1>6, OnlySame
<1> QED
  BY <1>1, <1>4, <1>7 DEF Only

(* Read from its last element, a list is the rest of it.                   *)
LEMMA ReadFromLast ==
  ASSUME NEW T, NEW q \in Seq(T), NEW x \in T
  PROVE  ReadFrom(Append(q, x), Len(q) + 1) = q
<1>1. PICK r \in Seq(T) : r = Append(q, x) /\ Len(r) = Len(q) + 1
                          /\ \A k \in 1 .. Len(q) : r[k] = q[k]
  <2>1. /\ Append(q, x) \in Seq(T) /\ Len(Append(q, x)) = Len(q) + 1
        /\ \A k \in 1 .. Len(q) : Append(q, x)[k] = q[k]
    BY AppendProperties
  <2> QED
    BY <2>1
<1>2. PICK n \in Nat : n = Len(q) /\ Len(r) = n + 1
  BY <1>1
<1>3. SubSeq(r, n + 1 + 1, n + 1) = <<>>
  BY <1>2, SubSeqEmpty
<1>4. SubSeq(r, 1, n) = q
  <2>1. \A k \in 1 .. n : r[k] \in T
    BY <1>1, <1>2, ElementOfSeq
  <2>2. /\ SubSeq(r, 1, n) \in Seq(T)
        /\ Len(SubSeq(r, 1, n)) = IF 1 <= n THEN n - 1 + 1 ELSE 0
        /\ \A k \in 1 .. n - 1 + 1 : SubSeq(r, 1, n)[k] = r[1 + k - 1]
    BY <1>2, <2>1, SubSeqProperties
  <2>3. Len(SubSeq(r, 1, n)) = n /\ \A k \in 1 .. n : SubSeq(r, 1, n)[k] = q[k]
    <3>1. ASSUME NEW k \in 1 .. n PROVE SubSeq(r, 1, n)[k] = q[k]
      <4>1. k \in 1 .. n - 1 + 1 /\ 1 + k - 1 = k
        BY <1>2
      <4> QED
        BY <1>1, <1>2, <2>2, <4>1
    <3> QED
      BY <1>2, <2>2, <3>1
  <2> QED
    BY <1>2, <2>2, <2>3, SeqEqual
<1>5. (n + 1) - 1 = n
  BY <1>2
<1>6. <<>> \o q = q
  BY ConcatEmptySeq
<1> QED
  BY <1>1, <1>2, <1>3, <1>4, <1>5, <1>6 DEF ReadFrom

-----------------------------------------------------------------------------
(* What a step does to the queue, to the current thread and to who lives.  *)
Still == readyq' = readyq /\ sched_current' = sched_current /\ Alive' = Alive

Joins(t) ==
  /\ ~Started /\ ~Started' /\ t \in Alive \ Queued
  /\ readyq' = Append(readyq, t) /\ Alive' = Alive

Begins(t) ==
  /\ ~Started /\ sched_current' = t /\ t \in Alive \ Queued
  /\ readyq' = Append(readyq, t) /\ Alive' = Alive

Departs ==
  /\ Started
  /\ readyq' = readyq /\ sched_current' = sched_current
  /\ Alive' = Alive \ {sched_current}
  /\ \E u \in Queued \cap Alive : u # sched_current

TurnsTo(t) ==
  /\ Started
  /\ readyq' = readyq /\ sched_current' = t /\ Alive' = Alive
  /\ t \in Queued \cap Alive /\ t # sched_current
  /\ \A u \in Queued \cap Alive : u # sched_current => StepsTo(t) <= StepsTo(u)

(* A thread created before the dispatcher starts is appended once.         *)
LEMMA StartJoins ==
  ASSUME IInv, boot = "create", sched_current' = sched_current, NEW t \in Threads,
         NEW owner, NEW mode, NEW used, StartThread(t, owner, mode, used)
  PROVE  Joins(t)
<1>1. ~Started /\ \A u \in Threads : state[u] = "READY"
  BY DEF IInv, BootInv
<1>2. t \notin Queued
  BY DEF StartThread, IsFirst, FreeThreads, IInv, ProcessInv
<1>3. state' = [state EXCEPT ![t] = "READY"] /\ state \in [Threads -> States]
  BY DEF StartThread, IInv, TypeOK
<1>4. \A u \in Threads : state'[u] = "READY"
  BY <1>1, <1>3
<1>5. Alive = Threads /\ Alive' = Threads
  BY <1>1, <1>4 DEF Alive
<1>6. ~Started'
  BY <1>1 DEF Started
<1>7. readyq' = Append(readyq, t)
  BY DEF StartThread
<1> QED
  BY <1>1, <1>2, <1>5, <1>6, <1>7 DEF Joins

(* The boot code lets threads join, then makes the idle thread current.    *)
LEMMA BootKinds ==
  ASSUME IInv, Boot
  PROVE  Still \/ \E t \in Threads : Joins(t) \/ Begins(t)
<1>1. CASE ProcInit
  BY <1>1 DEF ProcInit, Still, Alive
<1>2. CASE CreateKernel \/ CreateUser
  <2>1. boot = "create" /\ sched_current' = sched_current
    BY <1>2 DEF CreateKernel, CreateUser, CreateNext
  <2>2. \/ UNCHANGED <<threadVars, readyq>>
        \/ \E t \in Threads, used \in Int, mode \in Modes : StartThread(t, next_pid, mode, used)
    <3>1. /\ "kernel" \in Modes /\ "user" \in Modes
          /\ frames_used \in Int /\ frames_used + USER_FRAMES \in Int
      BY LimitsAssumption DEF Modes, OpenModes, IInv, TypeOK
    <3>2. CASE CreateKernel
      BY <3>1, <3>2 DEF CreateKernel, NoProcessSlot, NoThreadSlot
    <3>3. CASE CreateUser
      BY <3>1, <3>3 DEF CreateUser, NoProcessSlot, NoThreadSlot
    <3> QED
      BY <1>2, <3>2, <3>3
  <2>3. CASE UNCHANGED <<threadVars, readyq>>
    BY <2>1, <2>3 DEF threadVars, Still, Alive
  <2>4. ASSUME NEW t \in Threads, NEW used \in Int, NEW mode \in Modes,
               StartThread(t, next_pid, mode, used)
        PROVE  Joins(t)
    BY <2>1, <2>4, StartJoins
  <2> QED
    BY <2>2, <2>3, <2>4
<1>3. CASE SchedulerInit
  <2>1. /\ ~Started /\ g_current_thread = Idle /\ Idle \in Threads \ Queued
        /\ \A t \in Threads : state[t] = "READY"
    BY <1>3, Slots DEF SchedulerInit, IInv, BootInv
  <2>2. state' = [state EXCEPT ![Idle] = "RUNNING"] /\ state \in [Threads -> States]
    BY <1>3, <2>1 DEF SchedulerInit, IInv, TypeOK
  <2>3. \A t \in Threads : state'[t] # "DEAD" /\ state[t] # "DEAD"
    BY <2>1, <2>2
  <2>4. Alive = Threads /\ Alive' = Threads
    BY <2>3 DEF Alive
  <2>5. sched_current' = Idle /\ readyq' = Append(readyq, Idle)
    BY <1>3, <2>1 DEF SchedulerInit
  <2> QED
    BY <2>1, <2>4, <2>5 DEF Begins
<1>4. CASE IdleLoop
  BY <1>4 DEF IdleLoop, threadVars, schedVars, Still, Alive
<1> QED
  BY <1>1, <1>2, <1>3, <1>4 DEF Boot

(* A step of the dispatcher.                                               *)
LEMMA TickKinds ==
  ASSUME IInv, NEW m \in Modes, NEW q \in [Threads -> Nat], TickFrom(m, q)
  PROVE  Still \/ \E t \in Threads : TurnsTo(t)
<1> DEFINE cur == sched_current
           s == Home(cur)
<1>1. /\ Started /\ cur \in Threads /\ state \in [Threads -> States]
      /\ \A t \in Queued : t \in Threads
      /\ state[cur] \in {"RUNNING", "DEAD"}
      /\ \A t \in Threads : state[t] = "RUNNING" => t = cur
  BY QueuedThreads
     DEF TickFrom, IInv, TypeOK, DispatchInv, OneRunning, Started
<1>2. /\ Preempted[cur] = "DEAD" <=> state[cur] = "DEAD"
      /\ Preempted \in [Threads -> States]
      /\ \A t \in Threads \ {cur} : Preempted[t] = state[t]
  BY <1>1 DEF Preempted, States
<1>3. readyq' = readyq
  BY DEF TickFrom, Tick
<1>4. \A t \in Threads : state[t] = "DEAD" => state'[t] = "DEAD"
  BY TickDead DEF DeadStep
<1>5. CASE Continue(s, q)
  <2>1. sched_current' = cur /\ state' = [state EXCEPT ![cur] = "RUNNING"]
    BY <1>5 DEF Continue
  <2>2. \A t \in Threads : state[t] # "DEAD" => state'[t] # "DEAD"
    BY <1>1, <2>1
  <2>3. Alive' = Alive
    BY <1>4, <2>2 DEF Alive
  <2> QED
    BY <1>3, <2>1, <2>3 DEF Still
<1>6. CASE \E next \in Threads : SwitchTo(next, s, q)
  <2> PICK next \in Threads : SwitchTo(next, s, q)
    BY <1>6
  <2>1. /\ IsReady(next) /\ sched_current' = next /\ next # cur
        /\ \A u \in Threads : IsReady(u) => StepsTo(next) <= StepsTo(u)
        /\ state' = [Preempted EXCEPT ![next] = "RUNNING"]
    BY DEF SwitchTo, IsNextReady, SetCurrent
  <2>2. \A u \in Threads \ {cur} : IsReady(u) <=> u \in Queued \cap Alive
    <3>1. \A u \in Threads \ {cur} : Preempted[u] = "READY" <=> state[u] # "DEAD"
      BY <1>1, <1>2 DEF States
    <3> QED
      BY <3>1 DEF IsReady, Alive
  <2>3. \A t \in Threads : state[t] # "DEAD" => state'[t] # "DEAD"
    BY <1>1, <1>2, <2>1
  <2>4. Alive' = Alive
    BY <1>4, <2>3 DEF Alive
  <2>5. next \in Queued \cap Alive
    BY <2>1, <2>2
  <2>6. \A u \in Queued \cap Alive : u # sched_current => StepsTo(next) <= StepsTo(u)
    BY <1>1, <2>1, <2>2
  <2> QED
    BY <1>1, <1>3, <2>1, <2>4, <2>5, <2>6 DEF TurnsTo
<1> QED
  BY <1>5, <1>6 DEF TickFrom, Tick

(* proc_exit leaves the thread in the queue and marks it dead.             *)
LEMMA ExitDeparts == IInv /\ Exit => Departs
<1> SUFFICES ASSUME IInv, Exit PROVE Departs
  OBVIOUS
<1>1. /\ Started /\ sched_current \in Threads /\ g_current_thread = sched_current
      /\ sched_current # Idle
  BY RunningFacts DEF Exit, Running
<1>2. state' = [state EXCEPT ![sched_current] = "DEAD"] /\ state \in [Threads -> States]
  BY <1>1 DEF Exit, IInv, TypeOK
<1>3. Alive' = Alive \ {sched_current}
  BY <1>1, <1>2 DEF Alive, Exit, schedVars
<1>4. Idle \in Queued \cap Alive
  BY <1>1, Slots DEF IInv, DispatchInv, IdleRunnable, Alive
<1>5. readyq' = readyq /\ sched_current' = sched_current
  BY DEF Exit, schedVars
<1> QED
  BY <1>1, <1>3, <1>4, <1>5 DEF Departs

(* There are no other steps.                                               *)
LEMMA NextKinds ==
  ASSUME IInv, [Next]_vars
  PROVE  \/ Still \/ Departs
         \/ \E t \in Threads : Joins(t) \/ Begins(t) \/ TurnsTo(t)
<1>1. CASE Boot
  BY <1>1, BootKinds
<1>2. CASE TimerIrq \/ Yield
  <2>1. PICK m \in Modes, q \in [Threads -> Nat] : TickFrom(m, q)
    BY <1>2, TimerIrqIsTick, YieldIsTick DEF TickFrom
  <2> QED
    BY <2>1, TickKinds
<1>3. CASE TimerRaise \/ SyscallEnter \/ SyscallReturn \/ Cli \/ Sti
  BY <1>3 DEF TimerRaise, SyscallEnter, SyscallReturn, Cli, Sti, OnlyCpu,
              threadVars, schedVars, Still, Alive
<1>4. CASE Exit
  BY <1>4, ExitDeparts
<1>5. CASE UNCHANGED vars
  BY <1>5 DEF vars, threadVars, schedVars, Still, Alive
<1> QED
  BY <1>1, <1>2, <1>3, <1>4, <1>5 DEF Next

-----------------------------------------------------------------------------
(* No thread is twice in the queue.                                        *)
(* A queue that gets a thread it does not hold.                            *)
LEMMA AppendDistinct ==
  ASSUME NEW T, NEW q \in Seq(T), NEW x \in T, NoRepeats(q),
         \A k \in 1 .. Len(q) : q[k] # x
  PROVE  NoRepeats(Append(q, x))
<1>1. PICK r \in Seq(T) : /\ r = Append(q, x) /\ Len(r) = Len(q) + 1
                          /\ \A k \in 1 .. Len(q) : r[k] = q[k]
                          /\ r[Len(q) + 1] = x
  <2>1. /\ Append(q, x) \in Seq(T) /\ Len(Append(q, x)) = Len(q) + 1
        /\ \A k \in 1 .. Len(q) : Append(q, x)[k] = q[k]
        /\ Append(q, x)[Len(q) + 1] = x
    BY AppendProperties
  <2> QED
    BY <2>1
<1>2. PICK n \in Nat : n = Len(q)
  OBVIOUS
<1>3. ASSUME NEW a \in 1 .. n + 1, NEW b \in 1 .. n + 1, r[a] = r[b] PROVE a = b
  <2>1. CASE a \in 1 .. n /\ b \in 1 .. n
    BY <1>1, <1>2, <1>3, <2>1 DEF NoRepeats
  <2>2. CASE a = n + 1 /\ b \in 1 .. n
    BY <1>1, <1>2, <1>3, <2>2
  <2>3. CASE b = n + 1 /\ a \in 1 .. n
    BY <1>1, <1>2, <1>3, <2>3
  <2>4. CASE a = n + 1 /\ b = n + 1
    BY <2>4
  <2> QED
    BY <2>1, <2>2, <2>3, <2>4
<1> QED
  BY <1>1, <1>2, <1>3 DEF NoRepeats

(* scheduler_add_thread is called once for each thread slot.               *)
LEMMA DistinctNext == IInv /\ NoRepeats(readyq) /\ [Next]_vars => NoRepeats(readyq')
<1> SUFFICES ASSUME IInv, NoRepeats(readyq), [Next]_vars PROVE NoRepeats(readyq')
  OBVIOUS
<1>1. readyq \in Seq(Threads)
  BY DEF IInv, TypeOK
<1>2. ASSUME NEW t \in Threads, t \notin Queued, readyq' = Append(readyq, t)
      PROVE  NoRepeats(readyq')
  <2>1. \A k \in 1 .. Len(readyq) : readyq[k] # t
    BY <1>2 DEF Queued
  <2> QED
    BY <1>1, <1>2, <2>1, AppendDistinct
<1> QED
  BY <1>2, NextKinds DEF Still, Departs, Joins, Begins, TurnsTo

-----------------------------------------------------------------------------
(* Every step is a step of the abstract dispatcher, or none.               *)
(* Pos looks at the queue only.                                            *)
LEMMA PosIsPosIn == Pos(sched_current) = PosIn(readyq, sched_current)
BY DEF Pos, PosIn

(* The current thread has one place in the queue.                          *)
LEMMA QueueFacts ==
  ASSUME IInv, NoRepeats(readyq)
  PROVE  /\ readyq \in Seq(Threads) /\ Len(readyq) \in Nat
         /\ Started => \E i \in 1 .. Len(readyq) :
              readyq[i] = sched_current /\ PosIn(readyq, sched_current) = i
<1>1. readyq \in Seq(Threads) /\ Len(readyq) \in Nat
  BY DEF IInv, TypeOK
<1>2. ASSUME Started
      PROVE  \E i \in 1 .. Len(readyq) :
               readyq[i] = sched_current /\ PosIn(readyq, sched_current) = i
  <2>1. sched_current \in Queued
    BY <1>2 DEF IInv, DispatchInv
  <2>2. PICK i \in 1 .. Len(readyq) : readyq[i] = sched_current
    BY <2>1 DEF Queued
  <2> QED
    BY <2>2, PosFound
<1> QED
  BY <1>1, <1>2

(* Interrupts that change no more than frames and quanta are not seen.     *)
LEMMA StillMaps == Still => UNCHANGED RR!vars
<1> SUFFICES ASSUME Still PROVE UNCHANGED RR!vars
  OBVIOUS
<1>1. WaitingLine' = WaitingLine
  BY DEF Still, WaitingLine, Started, Pos
<1>2. Leaving' = Leaving
  BY DEF Still, Leaving, Started
<1> QED
  BY <1>1, <1>2 DEF Still, RR!vars

(* A new thread goes to the end of the line.                               *)
LEMMA JoinsMaps ==
  ASSUME IInv, NEW t \in Threads, Joins(t)
  PROVE  RR!Admit(t)
<1>1. readyq \in Seq(Threads)
  BY DEF IInv, TypeOK
<1>2. WaitingLine = Only(Alive, readyq) /\ WaitingLine' = Only(Alive', readyq')
  BY DEF Joins, WaitingLine
<1>3. t \in Alive /\ Alive' = Alive /\ readyq' = Append(readyq, t)
  BY DEF Joins
<1>4. Only(Alive, Append(readyq, t)) = Append(Only(Alive, readyq), t)
  BY <1>1, <1>3, OnlyAppend
<1>5. WaitingLine' = Append(WaitingLine, t)
  BY <1>2, <1>3, <1>4
<1>6. t \notin RR!InLine
  <2>1. readyq \in Seq(Queued)
    BY <1>1, ElementOfSeq DEF Queued
  <2>2. WaitingLine \in Seq(Queued)
    BY <1>2, <2>1, OnlyIsSeq
  <2>3. \A k \in 1 .. Len(WaitingLine) : WaitingLine[k] \in Queued
    BY <2>2, ElementOfSeq
  <2> QED
    BY <2>3 DEF Joins, RR!InLine
<1>7. sched_current = NoThread /\ sched_current' = sched_current /\ Leaving' = Leaving
  BY DEF Joins, Started, Leaving
<1> QED
  BY <1>5, <1>6, <1>7 DEF RR!Admit

(* The first thread to run is not in the line.                             *)
LEMMA BeginsMaps ==
  ASSUME IInv, NoRepeats(readyq), NEW t \in Threads, Begins(t)
  PROVE  RR!Start(t)
<1>1. readyq \in Seq(Threads)
  BY DEF IInv, TypeOK
<1>2. /\ t \in Alive /\ Alive' = Alive /\ readyq' = Append(readyq, t)
      /\ sched_current' = t /\ Started' /\ sched_current = NoThread /\ ~Started
      /\ t \notin Queued
  BY Slots DEF Begins, Started
<1>3. PosIn(readyq', t) = Len(readyq) + 1
  <2>1. PICK r \in Seq(Threads) : r = readyq' /\ Len(r) = Len(readyq) + 1
                                  /\ r[Len(readyq) + 1] = t
    BY <1>1, <1>2, AppendProperties
  <2>2. NoRepeats(r)
    <3>1. \A k \in 1 .. Len(readyq) : readyq[k] # t
      BY <1>2 DEF Queued
    <3> QED
      BY <1>1, <1>2, <2>1, <3>1, AppendDistinct
  <2>3. Len(readyq) + 1 \in 1 .. Len(r)
    BY <1>1, <2>1
  <2> QED
    BY <2>1, <2>2, <2>3, PosFound
<1>4. WaitingLine = Only(Alive, readyq)
  BY <1>2 DEF WaitingLine
<1>5. WaitingLine' = Only(Alive', ReadFrom(readyq', PosIn(readyq', t)))
  BY <1>2 DEF WaitingLine, Pos, PosIn
<1>6. ReadFrom(Append(readyq, t), Len(readyq) + 1) = readyq
  BY <1>1, ReadFromLast
<1>7. WaitingLine' = WaitingLine
  BY <1>2, <1>3, <1>4, <1>5, <1>6
<1>8. t \notin RR!InLine
  <2>1. readyq \in Seq(Queued)
    BY <1>1, ElementOfSeq DEF Queued
  <2>2. WaitingLine \in Seq(Queued)
    BY <1>4, <2>1, OnlyIsSeq
  <2>3. \A k \in 1 .. Len(WaitingLine) : WaitingLine[k] \in Queued
    BY <2>2, ElementOfSeq
  <2> QED
    BY <1>2, <2>3 DEF RR!InLine
<1>9. Leaving' = Leaving
  BY <1>2 DEF Leaving
<1> QED
  BY <1>2, <1>7, <1>8, <1>9 DEF RR!Start

(* A thread that exits is not in the line either.                          *)
LEMMA DepartsMaps ==
  ASSUME IInv, NoRepeats(readyq), Departs
  PROVE  RR!Leave
<1>1. readyq \in Seq(Threads) /\ Started
  BY DEF IInv, TypeOK, Departs
<1>2. PICK i \in 1 .. Len(readyq) : readyq[i] = sched_current
                                   /\ PosIn(readyq, sched_current) = i
  BY <1>1, QueueFacts
<1>3. /\ readyq' = readyq /\ sched_current' = sched_current /\ Started'
      /\ Alive' = Alive \ {readyq[i]}
  BY <1>1, <1>2 DEF Departs, Started
<1>4. WaitingLine = Only(Alive, ReadFrom(readyq, i))
  BY <1>1, <1>2, PosIsPosIn DEF WaitingLine
<1>5. WaitingLine' = Only(Alive \ {readyq[i]}, ReadFrom(readyq, i))
  BY <1>2, <1>3 DEF WaitingLine, Pos, PosIn
<1>6. WaitingLine' = WaitingLine
  BY <1>1, <1>4, <1>5, LineOfOthers
<1>7. WaitingLine # <<>>
  <2>1. PICK u \in Queued \cap Alive : u # sched_current
    BY DEF Departs
  <2>2. PICK j \in 1 .. Len(readyq) : readyq[j] = u
    BY <2>1 DEF Queued
  <2>3. i # j /\ readyq[j] \in Alive
    BY <1>2, <2>1, <2>2
  <2> QED
    BY <1>1, <1>4, <2>3, LineNotEmpty
<1>8. Leaving' = TRUE
  BY <1>2, <1>3 DEF Leaving
<1> QED
  BY <1>1, <1>3, <1>6, <1>7, <1>8 DEF Started, RR!Leave

(* The next thread is the head of the line.                                *)
LEMMA TurnsMaps ==
  ASSUME IInv, NoRepeats(readyq), NEW t \in Threads, TurnsTo(t)
  PROVE  RR!Rotate \/ RR!Retire
<1>1. readyq \in Seq(Threads) /\ Started
  BY DEF IInv, TypeOK, TurnsTo
<1>2. PICK i \in 1 .. Len(readyq) : readyq[i] = sched_current
                                   /\ PosIn(readyq, sched_current) = i
  BY <1>1, QueueFacts
<1>3. /\ readyq' = readyq /\ sched_current' = t /\ Alive' = Alive
      /\ t \in Queued \cap Alive /\ t # sched_current /\ t # NoThread /\ Started'
  BY Slots DEF TurnsTo, Started
<1>4. PICK j \in 1 .. Len(readyq) : readyq[j] = t
  BY <1>3 DEF Queued
<1>5. i # j /\ readyq[j] \in Alive /\ PosIn(readyq, t) = j
  <2>1. PosIn(readyq, readyq[j]) = j
    BY PosFound
  <2> QED
    BY <1>2, <1>3, <1>4, <2>1
<1>6. ASSUME NEW m \in 1 .. Len(readyq), m # i, readyq[m] \in Alive
      PROVE  Walk(Len(readyq), i, j) <= Walk(Len(readyq), i, m)
  <2>1. readyq[m] \in Queued \cap Alive
    BY <1>6 DEF Queued
  <2>2. readyq[m] # sched_current
    BY <1>2, <1>6 DEF NoRepeats
  <2>3. StepsTo(t) <= StepsTo(readyq[m])
    BY <2>1, <2>2 DEF TurnsTo
  <2>4. PosIn(readyq, readyq[m]) = m
    BY PosFound
  <2>5. Pos(readyq[m]) = m /\ Pos(t) = j /\ Pos(sched_current) = i
    BY <1>2, <1>5, <2>4 DEF Pos, PosIn
  <2> QED
    BY <2>3, <2>5 DEF StepsTo, Walk
<1>7. WaitingLine = Only(Alive, ReadFrom(readyq, i))
  BY <1>1, <1>2, PosIsPosIn DEF WaitingLine
<1>8. WaitingLine' = Only(Alive, ReadFrom(readyq, j))
  BY <1>3, <1>5 DEF WaitingLine, Pos, PosIn
<1>9. /\ WaitingLine # <<>> /\ Head(WaitingLine) = readyq[j]
      /\ WaitingLine' = IF readyq[i] \in Alive THEN Append(Tail(WaitingLine), readyq[i])
                        ELSE Tail(WaitingLine)
  <2>0. PICK q \in Seq(Threads) : q = readyq
    BY <1>1
  <2>1. PICK S : S = Alive
    OBVIOUS
  <2>2. /\ i \in 1 .. Len(q) /\ j \in 1 .. Len(q) /\ i # j /\ q[j] \in S
        /\ MetFirst(S, q, i, j)
    BY <1>5, <1>6, <2>0, <2>1 DEF MetFirst
  <2>3. LineTurns(S, q, i, j)
    BY <2>2, LineMoves
  <2> QED
    BY <1>7, <1>8, <2>0, <2>1, <2>3 DEF LineTurns
<1>10. (Leaving <=> readyq[i] \notin Alive) /\ Leaving' = FALSE
  BY <1>1, <1>2, <1>3 DEF Leaving
<1>11. sched_current # NoThread
  BY <1>1 DEF Started
<1>12. CASE readyq[i] \in Alive
  BY <1>2, <1>3, <1>4, <1>9, <1>10, <1>11, <1>12 DEF RR!Rotate
<1>13. CASE readyq[i] \notin Alive
  BY <1>2, <1>3, <1>4, <1>9, <1>10, <1>11, <1>13 DEF RR!Retire
<1> QED
  BY <1>12, <1>13

(* So every step maps to a step or to a stutter.                           *)
LEMMA NextMaps ==
  ASSUME IInv, NoRepeats(readyq), [Next]_vars
  PROVE  [RR!Next]_(RR!vars)
<1>1. CASE Still
  BY <1>1, StillMaps
<1>2. CASE Departs
  BY <1>2, DepartsMaps DEF RR!Next
<1>3. ASSUME NEW t \in Threads, Joins(t) \/ Begins(t) \/ TurnsTo(t) PROVE RR!Next
  BY <1>3, JoinsMaps, BeginsMaps, TurnsMaps DEF RR!Next
<1> QED
  BY <1>1, <1>2, <1>3, NextKinds

(* Before proc_init nobody waits and nobody runs.                          *)
LEMMA InitMaps == Init => RR!Init
<1> SUFFICES ASSUME Init PROVE RR!Init
  OBVIOUS
<1>1. readyq = <<>> /\ sched_current = NoThread /\ ~Started
  BY DEF Init, Started
<1>2. <<>> \in Seq(Threads) /\ Len(<<>>) = 0
  BY EmptySeq
<1>3. OnlyUpTo(Alive, <<>>)[0] = <<>>
  BY <1>2, OnlyStart
<1>4. WaitingLine = <<>>
  BY <1>1, <1>2, <1>3 DEF WaitingLine, Only
<1>5. Leaving = FALSE
  BY <1>1 DEF Leaving
<1> QED
  BY <1>1, <1>4, <1>5 DEF RR!Init

(* Whatever the order of interrupts, yields, exits and failed creations,   *)
(* the threads get the CPU as in a rotating line: each switch goes to the  *)
(* thread that has waited longest, the one that loses the CPU goes to the  *)
(* end, one that exited is not seen again (scheduler_tick, proc_exit).     *)
THEOREM SchedulerIsRoundRobin == Spec => RR!Spec
<1>1. Init => NoRepeats(readyq)
  BY DEF Init, NoRepeats
<1>2. IInv /\ NoRepeats(readyq) /\ [Next]_vars => NoRepeats(readyq)'
  BY DistinctNext
<1>3. IInv /\ NoRepeats(readyq) /\ [Next]_vars => [RR!Next]_(RR!vars)
  BY NextMaps
<1> QED
  BY <1>1, <1>2, <1>3, InitMaps, Inductive, PTL DEF Spec, RR!Spec

=============================================================================
