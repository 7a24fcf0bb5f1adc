-------------------------------- MODULE Vmm --------------------------------
(***************************************************************************)
(* Page directories and tables: kernel/mm/vmm.c, and what kernel_main and  *)
(* proc_create_user do with them, one action per page or table.  All of it *)
(* happens at boot with interrupts off.                                    *)
(*                                                                         *)
(* An address is its page number; directories and tables are frames of     *)
(* the pool whose content, mem, is ENTRIES entries.  pmm.c hands out the   *)
(* lowest free frame and nothing in the kernel gives one back.             *)
(* The slots of processes and threads, and CR3, are in Scheduler;          *)
(* vmm_unmap_page has no caller.                                           *)
(***************************************************************************)
EXTENDS Integers, FiniteSets

CONSTANTS
  ENTRIES,        \* of a directory or a table
  KERNEL_TABLES,  \* tables of vmm_init's identity map
  PoolFrames,     \* frames of the pool
  PoolEnds,       \* where the pool may end: RAM differs from machine to machine
  NUSERS,         \* user processes created
  CODE_START, CODE_PAGES,
  STACK_START, STACK_PAGES,  \* USER_STACK_TOP - USER_STACK_SIZE
  THUNK_PAGE

Pages == 0 .. ENTRIES * ENTRIES - 1
KernelPages == 0 .. KERNEL_TABLES * ENTRIES - 1
CodePages == CODE_START .. CODE_START + CODE_PAGES - 1
StackPages == STACK_START .. STACK_START + STACK_PAGES - 1
Users == 1 .. NUSERS

Pdi(v) == v \div ENTRIES
Pti(v) == v % ENTRIES

ASSUME SizesAssumption ==
  /\ ENTRIES \in Nat \ {0}
  /\ KERNEL_TABLES \in 1 .. ENTRIES - 1
  /\ NUSERS \in Nat
  /\ PoolEnds \subseteq Nat

(* The pool lies in the identity map, above page 0; the image of the user  *)
(* process, linked after the kernel, too; its stack lies beyond the map,   *)
(* in one table, and has more than one page.  .user holds one function, so *)
(* that the entry is in the first page of the image.                       *)
ASSUME PlacesAssumption ==
  /\ PoolFrames \subseteq KernelPages \ {0}
  /\ CODE_START \in Nat /\ CODE_PAGES \in Nat /\ CodePages \subseteq KernelPages
  /\ STACK_START \in Nat /\ STACK_PAGES \in Nat \ {0, 1}
  /\ StackPages \subseteq Pages \ KernelPages
  /\ \A v, w \in StackPages : Pdi(v) = Pdi(w)
  /\ THUNK_PAGE \in KernelPages

VARIABLES
  mem,           \* the content of the pool's frames
  free,          \* the frames pmm_alloc_frame has not handed out
  g_kernel_dir,
  job, i,        \* what is being done, and its loop variable
  frame,         \* the local variable of proc_create_user
  proc,          \* the process being created
  page_dir,      \* of each process
  active,
  kstack         \* frame of the kernel stack of each process's thread

procVars == <<page_dir, active, kstack>>
vmmVars == <<mem, free, g_kernel_dir, job, i, frame, proc, procVars>>

Flags == {"PRESENT", "WRITABLE", "USER"}
Indices == 0 .. ENTRIES - 1
Cleared == [k \in Indices |-> [frame |-> 0, flags |-> {}]]
Present(e) == "PRESENT" \in e.flags

-----------------------------------------------------------------------------
IsLowest(f) == f \in free /\ \A g \in free : f <= g

Taken(f) == free' = free \ {f}

(* vmm_map_page, with get_or_create_table.  When no table can be had it    *)
(* returns without a word.                                                 *)
Promoted(pde, flags) ==
  IF "USER" \in flags
  THEN [pde EXCEPT !.flags = @ \cup {"USER"} \cup (flags \cap {"WRITABLE"})]
  ELSE pde

Pte(f, flags) == [frame |-> f, flags |-> flags \cup {"PRESENT"}]

MapPage(dir, v, f, flags) ==
  LET pde == mem[dir][Pdi(v)] IN
  \/ /\ Present(pde)
     /\ mem' = [mem EXCEPT ![dir][Pdi(v)] = Promoted(pde, flags),
                           ![pde.frame][Pti(v)] = Pte(f, flags)]
     /\ UNCHANGED free
  \/ /\ ~Present(pde)
     /\ free = {}
     /\ UNCHANGED <<mem, free>>
  \/ /\ ~Present(pde)
     /\ \E t \in PoolFrames :
          /\ IsLowest(t)
          /\ mem' = [mem EXCEPT
                       ![dir][Pdi(v)] = Pte(t, flags \cup {"WRITABLE"}),
                       ![t] = [Cleared EXCEPT ![Pti(v)] = Pte(f, flags)]]
          /\ Taken(t)

-----------------------------------------------------------------------------
VmmInit ==
  /\ mem = [f \in PoolFrames |-> Cleared]
  /\ \E end \in PoolEnds : free = {f \in PoolFrames : f < end}
  /\ g_kernel_dir = 0
  /\ job = "vmm_init"
  /\ i = 0
  /\ frame = 0
  /\ proc = 0
  /\ page_dir = [p \in Users |-> 0]
  /\ active = [p \in Users |-> FALSE]
  /\ kstack = [p \in Users |-> 0]

(* The pool is taken to hold the directory and the tables of the kernel    *)
(* and the stacks of its two threads; vmm_init does not check it.          *)
KernelDirectory ==
  /\ job = "vmm_init"
  /\ Cardinality(free) >= KERNEL_TABLES + 3
  /\ \E f \in PoolFrames :
       /\ IsLowest(f)
       /\ g_kernel_dir' = f
       /\ mem' = [mem EXCEPT ![f] = Cleared]
       /\ Taken(f)
  /\ job' = "identity"
  /\ UNCHANGED <<i, frame, proc, procVars>>

IdentityMap ==
  /\ job = "identity"
  /\ i \in KernelPages
  /\ MapPage(g_kernel_dir, i, i, {"PRESENT", "WRITABLE"})
  /\ i' = i + 1
  /\ UNCHANGED <<g_kernel_dir, job, frame, proc, procVars>>

(* proc_init and proc_create_kernel take a frame each, for the stacks of   *)
(* the idle thread and of gui_server.                                      *)
KernelThreads ==
  /\ job = "identity"
  /\ i \notin KernelPages
  /\ \E f, g \in PoolFrames :
       /\ IsLowest(f)
       /\ g \in free \ {f} /\ \A h \in free \ {f} : g <= h
       /\ free' = free \ {f, g}
  /\ job' = "next"
  /\ UNCHANGED <<mem, g_kernel_dir, i, frame, proc, procVars>>

(* proc_create_user: the process slot, then vmm_create_directory.          *)
CreateUser ==
  /\ job = "next"
  /\ proc < NUSERS
  /\ proc' = proc + 1
  /\ active' = [active EXCEPT ![proc'] = TRUE]
  /\ job' = "create_directory"
  /\ UNCHANGED <<mem, free, g_kernel_dir, i, frame, page_dir, kstack>>

(* proc->active = 0; return NULL                                           *)
GiveUpActive == job' = "next"
GiveUp == job' = "next" /\ active' = [active EXCEPT ![proc] = FALSE]

CreateDirectory ==
  /\ job = "create_directory"
  /\ \/ /\ free = {}
        /\ GiveUp
        /\ UNCHANGED <<mem, free, i, page_dir>>
     \/ /\ \E f \in PoolFrames :
             /\ IsLowest(f)
             /\ page_dir' = [page_dir EXCEPT ![proc] = f]
             /\ mem' = [mem EXCEPT ![f] = Cleared]
             /\ Taken(f)
        /\ job' = "clone"
        /\ i' = 0
        /\ UNCHANGED active
  /\ UNCHANGED <<g_kernel_dir, frame, proc, kstack>>

(* One round of the loop of vmm_create_directory over the directory of the *)
(* kernel.                                                                 *)
CopyBlank(table) == Cleared
Copy(table) == [k \in Indices |-> [table[k] EXCEPT !.flags = @ \cup {"USER"}]]

WithUser(e) == [e EXCEPT !.flags = @ \cup {"USER"}]

CloneInto(f, pde) ==
  mem' = [mem EXCEPT ![f] = Copy(mem[pde.frame]),
                     ![page_dir[proc]][i] = [WithUser(pde) EXCEPT !.frame = f]]

Clone ==
  /\ job = "clone"
  /\ i \in Indices
  /\ LET pde == mem[g_kernel_dir][i] IN
       \/ /\ ~Present(pde)
          /\ UNCHANGED <<mem, free>>
       \/ /\ Present(pde)
          /\ free = {}
          /\ mem' = [mem EXCEPT ![page_dir[proc]][i] = WithUser(pde)]
          /\ UNCHANGED free
       \/ /\ Present(pde)
          /\ \E f \in PoolFrames : IsLowest(f) /\ CloneInto(f, pde) /\ Taken(f)
  /\ i' = i + 1
  /\ UNCHANGED <<g_kernel_dir, job, frame, proc, procVars>>

Cloned ==
  /\ job = "clone"
  /\ i \notin Indices
  /\ job' = "code"
  /\ i' = CODE_START
  /\ UNCHANGED <<mem, free, g_kernel_dir, frame, proc, procVars>>

Everything == {"PRESENT", "USER", "WRITABLE"}

MapCode ==
  /\ job = "code"
  /\ i \in CodePages
  /\ MapPage(page_dir[proc], i, i, Everything)
  /\ i' = i + 1
  /\ UNCHANGED <<g_kernel_dir, job, frame, proc, procVars>>

CodeMapped ==
  /\ job = "code"
  /\ i \notin CodePages
  /\ job' = "stack"
  /\ i' = STACK_START
  /\ UNCHANGED <<mem, free, g_kernel_dir, frame, proc, procVars>>

(* A frame for each page of the user stack, then its mapping.              *)
NoStackFrameUnchecked == frame' = 0 /\ job' = "map" /\ UNCHANGED active
NoStackFrame == GiveUp /\ UNCHANGED frame

FrameOnce(f) == frame' = IF frame = 0 THEN f ELSE frame
FramePerPage(f) == frame' = f

StackFrame ==
  /\ job = "stack"
  /\ i \in StackPages
  /\ \/ free = {} /\ NoStackFrame /\ UNCHANGED free
     \/ \E f \in PoolFrames :
          IsLowest(f) /\ Taken(f) /\ FramePerPage(f) /\ job' = "map" /\ UNCHANGED active
  /\ UNCHANGED <<mem, g_kernel_dir, i, proc, page_dir, kstack>>

MapStack ==
  /\ job = "map"
  /\ MapPage(page_dir[proc], i, frame, Everything)
  /\ job' = "stack"
  /\ i' = i + 1
  /\ UNCHANGED <<g_kernel_dir, frame, proc, procVars>>

(* The kernel stack of the thread is not checked.                          *)
UserThread ==
  /\ job = "stack"
  /\ i \notin StackPages
  /\ \/ free = {} /\ UNCHANGED <<free, kstack>>
     \/ \E f \in PoolFrames :
          IsLowest(f) /\ Taken(f) /\ kstack' = [kstack EXCEPT ![proc] = f]
  /\ job' = "thunk"
  /\ UNCHANGED <<mem, g_kernel_dir, i, frame, proc, page_dir, active>>

(* The page with the compiler's helper, readable in ring 3.                *)
MapThunk ==
  /\ job = "thunk"
  /\ MapPage(page_dir[proc], THUNK_PAGE, THUNK_PAGE, {"PRESENT", "USER"})
  /\ job' = "next"
  /\ UNCHANGED <<g_kernel_dir, i, frame, proc, procVars>>

Done == job = "next" /\ proc = NUSERS /\ UNCHANGED vmmVars

VmmNext ==
  \/ KernelDirectory \/ IdentityMap \/ KernelThreads
  \/ CreateUser \/ CreateDirectory \/ Clone \/ Cloned
  \/ MapCode \/ CodeMapped \/ StackFrame \/ MapStack \/ UserThread \/ MapThunk
  \/ Done

VmmSpec == VmmInit /\ [][VmmNext]_vmmVars

-----------------------------------------------------------------------------
(* The walk of the two levels, by the MMU and by is_user_ptr.              *)
PdeOf(dir, v) == mem[dir][Pdi(v)]
PteOf(dir, v) == mem[PdeOf(dir, v).frame][Pti(v)]
Mapped(dir, v) == Present(PdeOf(dir, v)) /\ Present(PteOf(dir, v))
Grants(dir, v, flag) == flag \in PdeOf(dir, v).flags /\ flag \in PteOf(dir, v).flags

IsUserPtr(dir, v) == Mapped(dir, v) /\ Grants(dir, v, "USER")

(* The processes whose creation succeeded.                                 *)
Created == {p \in Users : active[p] /\ (p < proc \/ (job = "next" /\ p = proc))}
KernelReady == job \notin {"vmm_init", "identity"}

(* vmm.c:7: system calls work without changing CR3.  A created process     *)
(* sees every page of the kernel where the kernel sees it.  vmm.c:92: "No  *)
(* queremos alterar las tablas del kernel": creating it has not changed    *)
(* the kernel's own tables, as long as the pool has not run dry.           *)
KernelVisible ==
  /\ \A p \in Created : \A v \in KernelPages :
       Mapped(page_dir[p], v) /\ PteOf(page_dir[p], v).frame = v
  /\ KernelReady /\ free # {} => \A v \in KernelPages :
       mem[mem[g_kernel_dir][Pdi(v)].frame][Pti(v)] = Pte(v, {"PRESENT", "WRITABLE"})

(* A created process can reach its code and its stack, and hand pointers   *)
(* into them to a system call, although vmm_map_page does not tell when it *)
(* maps nothing.                                                           *)
UserPagesReachable ==
  \A p \in Created :
    /\ \A v \in CodePages \cup StackPages : IsUserPtr(page_dir[p], v)
    /\ \A v \in StackPages : Grants(page_dir[p], v, "WRITABLE")

(* No frame of a created process's stack serves any other purpose: it is   *)
(* not part of another stack, nor a directory or a table in use.           *)
StackFrames(p) == {PteOf(page_dir[p], v).frame : v \in StackPages}
TablesOf(dir) == {dir} \cup {mem[dir][k].frame : k \in {k \in Indices : Present(mem[dir][k])}}
StacksPrivate ==
  \A p, q \in Created :
    /\ p # q => StackFrames(p) \cap StackFrames(q) = {}
    /\ StackFrames(p) \cap (TablesOf(page_dir[q]) \cup TablesOf(g_kernel_dir) \cup {kstack[q]}) = {}
    /\ Cardinality(StackFrames(p)) = STACK_PAGES
=============================================================================
