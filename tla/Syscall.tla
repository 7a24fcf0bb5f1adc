------------------------------ MODULE Syscall ------------------------------
(***************************************************************************)
(* A system call of one process: the wrappers of include/libsys.h, the     *)
(* stub syscall_entry and syscall_dispatch of kernel/interrupt/syscall.c.  *)
(*                                                                         *)
(* A value is named for where it comes from: an argument for its meaning,  *)
(* the rest of a register for the register.  What a C function leaves in   *)
(* the registers it may use is "lost".  cdecl is the calling convention of *)
(* the build: the first argument is pushed last, EAX holds the result, and *)
(* EAX, ECX and EDX belong to the function called.                         *)
(***************************************************************************)
EXTENDS Integers, Sequences, SequencesExt

VARIABLES
  regs,     \* the registers
  kstack,   \* the kernel stack above the interrupt frame, top first
  at,       \* where the process is in the stub
  call,     \* the call it makes
  before,   \* the registers at the INT
  used,     \* what the handler took each of its arguments from
  result    \* what syscall_dispatch returned

vars == <<regs, kstack, at, call, before, used, result>>

ArgRegs == <<"ebx", "ecx", "edx", "esi", "edi">>
Segments == {"ds", "es", "fs", "gs"}
Regs == {"eax", "ebp"} \cup Range(ArgRegs) \cup Segments
CallerSaved == {"eax", "ecx", "edx"}

(* The meaning of the arguments each wrapper puts in EBX, ECX, ...; the    *)
(* wrapper of SYS_GUI_DRAW_BUTTON asks for EDI twice and cannot be used.   *)
Library ==
  [exit |-> <<"code">>,
   yield |-> <<>>,
   draw_pixel |-> <<"x", "y", "color">>,
   fill_rect |-> <<"x", "y", "w", "h", "color">>,
   draw_string |-> <<"x", "y", "string", "fg", "bg">>,
   get_tick |-> <<>>,
   get_mouse |-> <<>>,
   get_mouse_state |-> <<"buffer">>,
   get_pixel |-> <<"x", "y">>,
   get_mouse_event |-> <<"buffer">>,
   debug |-> <<"string">>,
   draw_desktop |-> <<>>,
   draw_taskbar |-> <<>>,
   draw_window |-> <<"x", "y", "w", "h", "title">>,
   draw_window_text |-> <<"window", "rx", "ry", "text", "fg">>]

(* The parameter, a = 1 to e = 5, a handler takes each argument from.      *)
Handlers ==
  [exit |-> [code |-> 1],
   yield |-> <<>>,
   draw_pixel |-> [x |-> 1, y |-> 2, color |-> 3],
   fill_rect |-> [x |-> 1, y |-> 2, w |-> 3, h |-> 4, color |-> 5],
   draw_string |-> [x |-> 1, y |-> 2, string |-> 3, fg |-> 4, bg |-> 5],
   get_tick |-> <<>>,
   get_mouse_state |-> [buffer |-> 2],
   debug |-> [string |-> 2],
   get_mouse_event |-> [buffer |-> 2],
   draw_desktop |-> <<>>,
   draw_taskbar |-> <<>>,
   draw_window |-> [x |-> 1, y |-> 2, w |-> 3, h |-> 4, title |-> 5],
   draw_window_text |-> [window |-> 1, rx |-> 2, ry |-> 3, text |-> 4, fg |-> 5]]

Calls == DOMAIN Library
Handled == DOMAIN Handlers
Pointers == {"buffer", "string", "title", "window", "text"}

-----------------------------------------------------------------------------
Own(r) == "own " \o r
Values == {Own(r) : r \in Regs} \cup Calls \cup {"lost", "kernel data", "0", "-1", "ticks"}
            \cup UNION {Range(Library[c]) : c \in Calls}

Init ==
  /\ regs = [r \in Regs |-> Own(r)]
  /\ kstack = <<>>
  /\ at = "user"
  /\ call = "yield"
  /\ before = regs
  /\ used = <<>>
  /\ result = "0"

(* A wrapper: the number and the arguments, and int $0x30.                 *)
Wrapper ==
  /\ at = "user"
  /\ call' \in Calls
  /\ regs' = [r \in Regs |->
       CASE r = "eax" -> call'
         [] \E k \in DOMAIN Library[call'] : ArgRegs[k] = r ->
              Library[call'][CHOOSE k \in DOMAIN Library[call'] : ArgRegs[k] = r]
         [] OTHER -> Own(r)]
  /\ before' = regs'
  /\ at' = "entry"
  /\ UNCHANGED <<kstack, used, result>>

PushedOf(order) == [k \in DOMAIN order |-> regs[order[k]]]
SavedOrder == <<"gs", "fs", "es", "ds", "ebx", "ecx", "edx", "esi", "edi", "ebp">>

(* The caller's registers go on the stack, the number into EBP, the data   *)
(* segments of the kernel into the segment registers.                      *)
Save ==
  /\ at = "entry"
  /\ kstack' = PushedOf(SavedOrder) \o kstack
  /\ regs' = [r \in Regs |->
       CASE r = "ebp" -> regs["eax"]
         [] r \in Segments -> "kernel data"
         [] r = "eax" -> "lost"
         [] OTHER -> regs[r]]
  /\ at' = "saved"
  /\ UNCHANGED <<call, before, used, result>>

ParamOrderReversed == <<"ebp", "edi", "esi", "edx", "ecx", "ebx">>
ParamOrder == <<"ebp", "ebx", "ecx", "edx", "esi", "edi">>

PushParams ==
  /\ at = "saved"
  /\ kstack' = PushedOf(ParamOrder) \o kstack
  /\ at' = "dispatch"
  /\ UNCHANGED <<regs, call, before, used, result>>

Clobbered(ret) == [r \in Regs |->
  CASE r = "eax" -> ret [] r \in CallerSaved \ {"eax"} -> "lost" [] OTHER -> regs[r]]

(* The results a handler may return: a pointer the caller did not put      *)
(* there may happen to be valid, one of the caller's own is; the queue of  *)
(* mouse events may be empty.  debug returns 0 whatever it could copy.     *)
Results(num, taken) ==
  IF num \notin Handled THEN {"-1"}
  ELSE IF num = "get_tick" THEN {"ticks"}
  ELSE {"0"} \cup (IF \/ num = "get_mouse_event"
                      \/ \E m \in DOMAIN taken \cap Pointers : taken[m] # m
                   THEN {"-1"} ELSE {})

(* syscall_dispatch, on the parameters as they lie on the stack.           *)
Dispatch ==
  LET num == kstack[1]
      taken == IF num \in Handled
               THEN [m \in DOMAIN Handlers[num] |-> kstack[1 + Handlers[num][m]]]
               ELSE <<>>
  IN
  /\ at = "dispatch"
  /\ used' = taken
  /\ IF num = "exit"
     THEN at' = "gone" /\ UNCHANGED <<regs, result>>
     ELSE at' = "dispatched" /\ result' \in Results(num, taken) /\ regs' = Clobbered(result')
  /\ UNCHANGED <<kstack, call, before>>

(* add $24, %esp                                                           *)
DropParams == SubSeq(kstack, 7, Len(kstack))
Unpush ==
  /\ at = "dispatched"
  /\ kstack' = DropParams
  /\ at' = "restore"
  /\ UNCHANGED <<regs, call, before, used, result>>

RestoredOrder == <<"gs", "fs", "es", "ds", "ebx", "ecx", "edx", "esi", "edi", "ebp">>
Restore ==
  /\ at = "restore"
  /\ regs' = [r \in Regs |->
       IF r = "eax" THEN regs[r]
       ELSE kstack[CHOOSE k \in DOMAIN RestoredOrder : RestoredOrder[k] = r]]
  /\ kstack' = SubSeq(kstack, Len(RestoredOrder) + 1, Len(kstack))
  /\ at' = "dump"
  /\ UNCHANGED <<call, before, used, result>>

(* call dump_stack, whose two parameters are pushed and dropped.           *)
DumpStack ==
  /\ at = "dump"
  /\ regs' = Clobbered("lost")
  /\ at' = "iret"
  /\ UNCHANGED <<kstack, call, before, used, result>>

Iret ==
  /\ at = "iret"
  /\ at' = "user"
  /\ UNCHANGED <<regs, kstack, call, before, used, result>>

\* proc_exit does not return
Gone == at = "gone" /\ UNCHANGED vars

Next ==
  \/ Wrapper \/ Save \/ PushParams \/ Dispatch \/ Unpush \/ Restore \/ DumpStack \/ Iret
  \/ Gone

Spec == Init /\ [][Next]_vars

-----------------------------------------------------------------------------
(* Registers and stack hold values of the call, and one call after the     *)
(* other never takes more than sixteen words of the kernel stack.          *)
Misread == {"get_mouse_state", "get_mouse_event", "debug"}

(* libsys.h:11: EBX is argument 1, ECX argument 2 and so on.  Through the  *)
(* saves, the pushes and the dispatcher every handler works on what the    *)
(* wrapper was given under that name, but for the three calls of Misread.  *)
(* And at the IRET the interrupt frame is on top of the stack, and the     *)
(* registers that C code keeps across a call, and the segments, are the    *)
(* caller's.                                                               *)
StubTransparent ==
  /\ at \in {"dispatched", "gone"} /\ call \notin Misread =>
       \A m \in DOMAIN used : used[m] = m
  /\ at = "iret" =>
       /\ kstack = <<>>
       /\ \A r \in Regs \ CallerSaved : regs[r] = before[r]

(* What the stub has saved, and what lies above it while the dispatcher    *)
(* runs: registers of the caller, whatever the call.  The arguments are in *)
(* the registers the wrapper put them in, until they are on the stack.     *)
SavedWords == [k \in 1 .. 10 |-> before[SavedOrder[k]]]
ParamWords ==
  <<before["eax"], before["ebx"], before["ecx"], before["edx"], before["esi"], before["edi"]>>
Carried == before["eax"] = call /\ \A k \in DOMAIN Library[call] : before[ArgRegs[k]] = Library[call][k]

StubInv ==
  /\ DOMAIN regs = Regs /\ call \in Calls
  /\ at \in {"user", "entry", "saved", "dispatch", "dispatched", "restore", "dump", "iret", "gone"}
  /\ at \notin {"user", "gone"} => Carried
  /\ at \in {"user", "entry", "dump", "iret"} => kstack = <<>>
  /\ at \in {"saved", "restore"} => kstack = SavedWords
  /\ at \in {"dispatch", "dispatched"} => kstack = ParamWords \o SavedWords
  /\ at = "entry" => regs = before
  /\ at = "saved" =>
       /\ regs["ebp"] = before["eax"]
       /\ \A r \in Range(ArgRegs) : regs[r] = before[r]
  /\ at = "dump" => \A r \in Regs \ {"eax"} : regs[r] = before[r]
  /\ StubTransparent

(* libsys.h:12: "Retorno en EAX".                                          *)
ResultReturned == at = "iret" => regs["eax"] = result
=============================================================================
