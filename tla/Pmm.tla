-------------------------------- MODULE Pmm --------------------------------
(***************************************************************************)
(* The physical memory manager, kernel/mm/pmm.c: a bitmap of frames, the   *)
(* size pmm_init computes for the pool, and a counter of used frames.      *)
(*                                                                         *)
(* Addresses are in KB, so that a 32-bit byte address is a number below    *)
(* WORD_KB; every quantity of pmm.c is a multiple of a KB.  The bitmap is  *)
(* the set of frames whose bit is 1.  The scan by bytes and bits is the    *)
(* search for the lowest 0 bit.  held is the client's side: the addresses  *)
(* handed out and not given back.  Nobody frees a frame somebody else      *)
(* holds; freeing twice, and freeing the 0 of a failed request, may        *)
(* happen.                                                                 *)
(***************************************************************************)
EXTENDS Integers, FiniteSets

CONSTANTS
  LOW_KB,     \* memory below the 1 MB mark, which mem_upper leaves out
  PAGE_KB,    \* PAGE_SIZE
  BASE_KB,    \* PMM_FREE_START
  END_KB,     \* PMM_FREE_END
  WORD_KB,    \* 2^32 bytes
  MAX_FRAMES, \* bits of pmm_bitmap
  MemUpper    \* what the boot loader may report

ASSUME LayoutAssumption ==
  /\ LOW_KB \in Nat \ {0}
  /\ PAGE_KB \in Nat \ {0}
  /\ BASE_KB \in Nat \ {0}
  /\ END_KB \in Nat
  /\ WORD_KB \in Nat
  /\ MAX_FRAMES \in Nat
  /\ BASE_KB <= END_KB /\ END_KB < WORD_KB

(* RAM below 4 GB: the hole for devices ends it well before that.          *)
ASSUME MemUpperAssumption == MemUpper \subseteq 0 .. WORD_KB - LOW_KB - 1

VARIABLES bitmap, pmm_total_frames, pmm_used,
          mem_end,  \* end of RAM as pmm_init computed it, 0 before
          held,     \* addresses in the hands of callers
          out       \* the last result of pmm_alloc_frame

vars == <<bitmap, pmm_total_frames, pmm_used, mem_end, held, out>>

Bits == 0 .. MAX_FRAMES - 1
NoFrame == 0
AddrOf(f) == BASE_KB + f * PAGE_KB
FrameOf(addr) == (addr - BASE_KB) \div PAGE_KB

(* The statics before pmm_init.                                            *)
Init ==
  /\ bitmap = {}
  /\ pmm_total_frames = 0
  /\ pmm_used = 0
  /\ mem_end = 0
  /\ held = {}
  /\ out = NoFrame

MemEnd(kb) ==
  IF (kb + LOW_KB) % WORD_KB > END_KB THEN END_KB ELSE (kb + LOW_KB) % WORD_KB

(* Unsigned arithmetic: with less RAM than BASE_KB the difference wraps.   *)
EndFrameRoundedUp(end) ==
  LET n == (((end - BASE_KB) % WORD_KB) + PAGE_KB - 1) \div PAGE_KB
  IN  IF n > MAX_FRAMES THEN MAX_FRAMES ELSE n
EndFrame(end) ==
  LET n == ((end - BASE_KB) % WORD_KB) \div PAGE_KB
  IN  IF n > MAX_FRAMES THEN MAX_FRAMES ELSE n

(* pmm_init, once: start_frame is 0, so the pool is 0 .. end_frame - 1.    *)
PmmInit(kb) ==
  /\ mem_end = 0
  /\ mem_end' = MemEnd(kb)
  /\ pmm_total_frames' = EndFrame(MemEnd(kb))
  /\ bitmap' = Bits \ (0 .. EndFrame(MemEnd(kb)) - 1)
  /\ pmm_used' = 0
  /\ UNCHANGED <<held, out>>

(* pmm_alloc_frame.                                                        *)
MarkedLate(f) == bitmap
Marked(f) == bitmap \cup {f}
Lowest(f) == f \in Bits \ bitmap /\ \A g \in Bits \ bitmap : f <= g

Alloc ==
  /\ mem_end # 0
  /\ \/ \E f \in Bits :
          /\ Lowest(f)
          /\ bitmap' = Marked(f)
          /\ pmm_used' = pmm_used + 1
          /\ out' = AddrOf(f)
          /\ held' = held \cup {AddrOf(f)}
     \/ /\ Bits \ bitmap = {}
        /\ out' = NoFrame
        /\ UNCHANGED <<bitmap, pmm_used, held>>
  /\ UNCHANGED <<pmm_total_frames, mem_end>>

(* pmm_free_frame.                                                         *)
IgnoredOutOfRangeOnly(addr) == addr < BASE_KB \/ FrameOf(addr) >= MAX_FRAMES
Ignored(addr) ==
  addr < BASE_KB \/ FrameOf(addr) >= MAX_FRAMES \/ FrameOf(addr) \notin bitmap

Free(addr) ==
  /\ mem_end # 0
  /\ \/ /\ Ignored(addr)
        /\ UNCHANGED <<bitmap, pmm_used>>
     \/ /\ ~Ignored(addr)
        /\ bitmap' = bitmap \ {FrameOf(addr)}
        /\ pmm_used' = pmm_used - 1
  /\ held' = held \ {addr}
  /\ UNCHANGED <<pmm_total_frames, mem_end, out>>

Pool == 0 .. pmm_total_frames - 1
Freeable == {AddrOf(f) : f \in Pool} \cup {NoFrame}

Next ==
  \/ \E kb \in MemUpper : PmmInit(kb)
  \/ Alloc
  \/ \E addr \in Freeable : Free(addr)

Spec == Init /\ [][Next]_vars

-----------------------------------------------------------------------------
TypeOK ==
  /\ bitmap \subseteq Bits
  /\ pmm_total_frames \in 0 .. MAX_FRAMES
  /\ pmm_used \in 0 .. pmm_total_frames
  /\ mem_end \in 0 .. END_KB
  /\ held \subseteq {AddrOf(f) : f \in Pool}
  /\ out \in {NoFrame} \cup {AddrOf(f) : f \in Pool}

(* The counter, the bitmap and the callers agree: a frame is marked used   *)
(* just when somebody holds it, and pmm_free_frames (the difference of the *)
(* two counters) is the number of frames that can still be had.            *)
Accounting ==
  /\ mem_end # 0 => held = {AddrOf(f) : f \in Pool \cap bitmap}
  /\ mem_end # 0 => pmm_total_frames - pmm_used = Cardinality(Bits \ bitmap)

(* pmm.c:57: the frames of the pool lie in PMM_FREE_START..mem_end.        *)
FramesInRam == \A f \in Pool : AddrOf(f) + PAGE_KB <= mem_end

FreeAddrs == {AddrOf(f) : f \in Pool \ bitmap}

Promise == INSTANCE FrameAllocator
  WITH Frames <- {AddrOf(f) : f \in Bits}, None <- NoFrame,
       free <- FreeAddrs

(* The bitmap hands out each frame to one caller at a time and refuses     *)
(* only when all are taken; freeing twice does no harm.                    *)
ImplementsFrameAllocator == Promise!Spec
-----------------------------------------------------------------------------
(* The inductive invariant behind them: nothing is in use before pmm_init, *)
(* and afterwards no bit outside the pool is ever 0.                       *)
BeforeInit ==
  mem_end = 0 =>
    pmm_total_frames = 0 /\ pmm_used = 0 /\ bitmap = {} /\ held = {} /\ out = NoFrame

OutsideReserved == mem_end # 0 => Bits \ Pool \subseteq bitmap

PoolSize == mem_end # 0 => \E kb \in MemUpper :
              mem_end = MemEnd(kb) /\ pmm_total_frames = EndFrame(MemEnd(kb))

IInv == TypeOK /\ BeforeInit /\ OutsideReserved /\ PoolSize /\ Accounting
=============================================================================
