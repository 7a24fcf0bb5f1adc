------------------------- MODULE KernelPartsProofs -------------------------
(***************************************************************************)
(* Theorems about the parts of the kernel that MCKernelParts puts side by  *)
(* side: the frames of Pmm, for every page size, memory map and bitmap;    *)
(* the list of ReadyQueue, for every set of threads; the stub of Syscall,  *)
(* for every call; the reading of WallClock, for every clock chip; and the *)
(* address spaces of Vmm, for every size of tables, pool and user image.   *)
(***************************************************************************)
EXTENDS MCKernelParts, CommonTheorems, FiniteSetTheorems, FunctionTheorems

-----------------------------------------------------------------------------
(* The frames of pmm.c.                                                    *)

(* Addresses and frame numbers.                                            *)

(* Dividing by the page size recovers the frame an address was made from,  *)
(* and what division gives is a frame that ends within the range.          *)
LEMMA Division ==
  ASSUME NEW n \in Nat
  PROVE  /\ n \div PAGE_KB \in Nat
         /\ (n \div PAGE_KB) * PAGE_KB <= n
BY LayoutAssumption

(* Dividing a multiple of the page size is exact.                          *)
LEMMA ProductDivides ==
  ASSUME NEW f \in Nat
  PROVE  (f * PAGE_KB) \div PAGE_KB = f
BY LayoutAssumption

(* frame_to_addr and addr_to_frame are inverse, and no address is 0.       *)
LEMMA Addresses ==
  ASSUME NEW f \in Nat
  PROVE  /\ AddrOf(f) \in Nat /\ AddrOf(f) >= BASE_KB /\ AddrOf(f) # NoFrame
         /\ FrameOf(AddrOf(f)) = f
<1>1. f * PAGE_KB \in Nat
  BY LayoutAssumption
<1>2. AddrOf(f) - BASE_KB = f * PAGE_KB
  BY <1>1, LayoutAssumption DEF AddrOf
<1> QED
  BY <1>1, <1>2, ProductDivides, LayoutAssumption DEF AddrOf, FrameOf, NoFrame

(* Two frames never share an address.                                      *)
LEMMA AddrInjective == \A f, g \in Nat : AddrOf(f) = AddrOf(g) => f = g
BY Addresses

(* What pmm_init computes is within the bitmap and the address space.      *)
LEMMA EndOfRam ==
  ASSUME NEW kb \in MemUpper
  PROVE  /\ MemEnd(kb) \in 1 .. END_KB
         /\ EndFrame(MemEnd(kb)) \in 0 .. MAX_FRAMES
<1>1. kb \in Nat /\ kb + LOW_KB < WORD_KB
  BY MemUpperAssumption, LayoutAssumption
<1>2. (kb + LOW_KB) % WORD_KB = kb + LOW_KB
  BY <1>1, LayoutAssumption
<1>3. MemEnd(kb) \in 1 .. END_KB
  BY <1>1, <1>2, LayoutAssumption DEF MemEnd
<1>4. (MemEnd(kb) - BASE_KB) % WORD_KB \in Nat
  BY <1>3, LayoutAssumption
<1>5. ((MemEnd(kb) - BASE_KB) % WORD_KB) \div PAGE_KB \in Nat
  BY <1>4, Division
<1> QED
  BY <1>3, <1>5, LayoutAssumption DEF EndFrame

(* The bitmap is finite.                                                   *)
LEMMA BitsFinite == IsFiniteSet(Bits) /\ \A S \in SUBSET Bits : IsFiniteSet(S)
<1>1. IsFiniteSet(Bits)
  <2>1. 0 \in Int /\ MAX_FRAMES - 1 \in Int
    BY LayoutAssumption
  <2> QED
    BY <2>1, FS_Interval DEF Bits
<1> QED
  BY <1>1, FS_Subset

(* The pool of n frames has n frames.                                      *)
LEMMA PoolCount ==
  ASSUME NEW n \in Nat
  PROVE  IsFiniteSet(0 .. n - 1) /\ Cardinality(0 .. n - 1) = n
<1>1. 0 \in Int /\ n - 1 \in Int
  OBVIOUS
<1>2. /\ IsFiniteSet(0 .. n - 1)
      /\ Cardinality(0 .. n - 1) = IF 0 > n - 1 THEN 0 ELSE (n - 1) - 0 + 1
  BY <1>1, FS_Interval
<1> QED
  BY <1>2

(* Within a set of frames, marking and clearing one bit moves the count of *)
(* its clear bits by one.                                                  *)
LEMMA CountClear ==
  ASSUME NEW B \in SUBSET Bits, NEW f \in Bits
  PROVE  /\ Cardinality(Bits \ B) \in Nat
         /\ f \notin B => Cardinality(Bits \ (B \cup {f})) = Cardinality(Bits \ B) - 1
         /\ f \in B => Cardinality(Bits \ (B \ {f})) = Cardinality(Bits \ B) + 1
<1>1. IsFiniteSet(Bits \ B)
  BY BitsFinite
<1>2. Cardinality(Bits \ B) \in Nat
  BY <1>1, FS_CardinalityType
<1>3. ASSUME f \notin B
      PROVE  Cardinality(Bits \ (B \cup {f})) = Cardinality(Bits \ B) - 1
  <2>1. Bits \ (B \cup {f}) = (Bits \ B) \ {f} /\ f \in Bits \ B
    BY <1>3
  <2> QED
    BY <1>1, <2>1, FS_RemoveElement
<1>4. ASSUME f \in B
      PROVE  Cardinality(Bits \ (B \ {f})) = Cardinality(Bits \ B) + 1
  <2>1. Bits \ (B \ {f}) = (Bits \ B) \cup {f} /\ f \notin Bits \ B
    BY <1>4
  <2> QED
    BY <1>1, <2>1, FS_AddElement
<1> QED
  BY <1>2, <1>3, <1>4

(* The invariant.                                                          *)

(* The statics before pmm_init.                                            *)
LEMMA InitInv == Init => IInv
<1> SUFFICES ASSUME Init PROVE IInv
  OBVIOUS
<1> USE DEF Init
<1>1. TypeOK
  BY LayoutAssumption DEF TypeOK, NoFrame
<1>2. BeforeInit /\ OutsideReserved /\ PoolSize /\ Accounting
  BY DEF BeforeInit, OutsideReserved, PoolSize, Accounting
<1> QED
  BY <1>1, <1>2 DEF IInv

(* pmm_init: the clear bits are the pool.                                  *)
LEMMA PmmInitInv ==
  ASSUME IInv, NEW kb \in MemUpper, PmmInit(kb)
  PROVE  IInv'
<1> DEFINE n == EndFrame(MemEnd(kb))
<1>1. /\ mem_end' = MemEnd(kb) /\ mem_end' \in 1 .. END_KB
      /\ pmm_total_frames' = n /\ n \in 0 .. MAX_FRAMES
      /\ bitmap' = Bits \ (0 .. n - 1) /\ Pool' = 0 .. n - 1
      /\ pmm_used' = 0 /\ held' = {} /\ out' = NoFrame
  BY EndOfRam DEF PmmInit, Pool, IInv, BeforeInit
<1>2. 0 .. n - 1 \subseteq Bits
  BY <1>1, LayoutAssumption DEF Bits
<1>3. TypeOK'
  BY <1>1, LayoutAssumption DEF TypeOK, NoFrame
<1>4. BeforeInit' /\ OutsideReserved' /\ PoolSize'
  BY <1>1 DEF BeforeInit, OutsideReserved, PoolSize
<1>5. Accounting'
  <2>1. Bits \ bitmap' = 0 .. n - 1 /\ Pool' \cap bitmap' = {}
    BY <1>1, <1>2
  <2>2. Cardinality(0 .. n - 1) = n
    BY <1>1, PoolCount, LayoutAssumption
  <2>3. pmm_total_frames' - pmm_used' = n
    BY <1>1, LayoutAssumption
  <2>4. held' = {AddrOf(f) : f \in Pool' \cap bitmap'}
    BY <1>1, <2>1
  <2> QED
    BY <2>1, <2>2, <2>3, <2>4 DEF Accounting
<1> QED
  BY <1>3, <1>4, <1>5 DEF IInv

(* After pmm_init the clear bits are those of the pool that are not in use *)
(* and the held addresses are those of the pool's set bits.                *)
LEMMA PoolFacts ==
  ASSUME IInv, mem_end # 0
  PROVE  /\ Pool \subseteq Bits /\ Pool \subseteq Nat /\ Bits \ bitmap \subseteq Pool
         /\ \A f \in Nat : AddrOf(f) \in held <=> f \in Pool \cap bitmap
<1>1. /\ Pool \subseteq Bits /\ Pool \subseteq Nat
      /\ Bits \ bitmap \subseteq Pool
  BY LayoutAssumption DEF IInv, TypeOK, OutsideReserved, Pool, Bits
<1>2. held = {AddrOf(f) : f \in Pool \cap bitmap}
  BY DEF IInv, Accounting
<1> QED
  BY <1>1, <1>2, AddrInjective

(* pmm_alloc_frame: one bit, one count and one caller more.                *)
LEMMA AllocInv == IInv /\ Alloc => IInv'
<1> SUFFICES ASSUME IInv, Alloc PROVE IInv'
  OBVIOUS
<1>1. mem_end # 0 /\ mem_end' = mem_end /\ pmm_total_frames' = pmm_total_frames /\ Pool' = Pool
  BY DEF Alloc, Pool
<1>2. CASE /\ Bits \ bitmap = {} /\ out' = NoFrame
           /\ UNCHANGED <<bitmap, pmm_used, held>>
  BY <1>1, <1>2 DEF IInv, TypeOK, BeforeInit, OutsideReserved, PoolSize, Accounting
<1>3. ASSUME NEW f \in Bits, Lowest(f), bitmap' = Marked(f), pmm_used' = pmm_used + 1,
             out' = AddrOf(f), held' = held \cup {AddrOf(f)}
      PROVE  IInv'
  <2>1. f \in Bits \ bitmap /\ f \in Pool /\ bitmap' = bitmap \cup {f}
    BY <1>1, <1>3, PoolFacts DEF Lowest, Marked
  <2>2. /\ bitmap \in SUBSET Bits /\ pmm_used \in Nat /\ pmm_total_frames \in Nat
        /\ pmm_total_frames - pmm_used = Cardinality(Bits \ bitmap)
    BY <1>1, LayoutAssumption DEF IInv, TypeOK, Accounting
  <2>3. /\ Cardinality(Bits \ bitmap') \in Nat
        /\ Cardinality(Bits \ bitmap') = pmm_total_frames - pmm_used - 1
    BY <2>1, <2>2, CountClear
  <2>4. TypeOK'
    <3>1. pmm_used' \in 0 .. pmm_total_frames'
      BY <1>1, <1>3, <2>2, <2>3, CountClear
    <3>2. bitmap' \subseteq Bits /\ held' \subseteq {AddrOf(g) : g \in Pool'}
          /\ out' \in {AddrOf(g) : g \in Pool'}
      BY <1>1, <1>3, <2>1, <2>2 DEF IInv, TypeOK
    <3> QED
      BY <1>1, <3>1, <3>2 DEF IInv, TypeOK
  <2>5. BeforeInit' /\ OutsideReserved' /\ PoolSize'
    BY <1>1, <2>1 DEF IInv, BeforeInit, OutsideReserved, PoolSize
  <2>6. held' = {AddrOf(g) : g \in Pool' \cap bitmap'}
    BY <1>1, <1>3, <2>1 DEF IInv, Accounting
  <2>7. pmm_total_frames' - pmm_used' = Cardinality(Bits \ bitmap')
    BY <1>1, <1>3, <2>2, <2>3
  <2> QED
    BY <2>4, <2>5, <2>6, <2>7 DEF IInv, Accounting
<1> QED
  BY <1>2, <1>3 DEF Alloc

(* A free that pmm_free_frame ignores is of an address nobody holds.       *)
LEMMA IgnoredUnheld ==
  ASSUME IInv, mem_end # 0, NEW addr \in Freeable, Ignored(addr)
  PROVE  addr \notin held
<1>1. CASE addr = NoFrame
  BY <1>1, Addresses, PoolFacts DEF IInv, Accounting
<1>2. ASSUME NEW f \in Pool, addr = AddrOf(f)
      PROVE  addr \notin held
  <2>1. f \in Nat /\ f \in Bits
    BY PoolFacts
  <2>2. FrameOf(addr) = f /\ ~(addr < BASE_KB) /\ ~(f >= MAX_FRAMES)
    BY <1>2, <2>1, Addresses, LayoutAssumption DEF Bits
  <2>3. f \notin bitmap
    BY <2>2 DEF Ignored
  <2> QED
    BY <1>2, <2>1, <2>3, PoolFacts
<1> QED
  BY <1>1, <1>2 DEF Freeable

(* pmm_free_frame: one of each less, or nothing changes.                   *)
LEMMA FreeInv ==
  ASSUME IInv, NEW addr \in Freeable, Free(addr)
  PROVE  IInv'
<1>1. /\ mem_end # 0 /\ mem_end' = mem_end /\ pmm_total_frames' = pmm_total_frames
      /\ Pool' = Pool /\ out' = out /\ held' = held \ {addr}
  BY DEF Free, Pool
<1>2. /\ bitmap \in SUBSET Bits /\ pmm_used \in Nat /\ pmm_total_frames \in Nat
      /\ pmm_used <= pmm_total_frames
      /\ pmm_total_frames - pmm_used = Cardinality(Bits \ bitmap)
  BY <1>1, LayoutAssumption DEF IInv, TypeOK, Accounting
<1>3. CASE Ignored(addr)
  <2>1. bitmap' = bitmap /\ pmm_used' = pmm_used
    BY <1>3 DEF Free
  <2>2. addr \notin held
    BY <1>1, <1>3, IgnoredUnheld
  <2>3. held' = held
    BY <1>1, <2>2
  <2> QED
    BY <1>1, <2>1, <2>3 DEF IInv, TypeOK, BeforeInit, OutsideReserved, PoolSize, Accounting
<1>4. CASE ~Ignored(addr)
  <2> DEFINE f == FrameOf(addr)
  <2>1. addr >= BASE_KB => addr # NoFrame
    BY LayoutAssumption DEF NoFrame
  <2>2. PICK g \in Pool : addr = AddrOf(g)
    BY <1>4, LayoutAssumption DEF Freeable, Ignored, NoFrame
  <2>3. g \in Nat /\ g \in Bits /\ f = g
    BY <1>1, <2>2, PoolFacts, Addresses
  <2>4. /\ bitmap' = bitmap \ {g} /\ pmm_used' = pmm_used - 1 /\ g \in bitmap
    BY <1>4, <2>3 DEF Free, Ignored
  <2>5. /\ Cardinality(Bits \ bitmap') = pmm_total_frames - pmm_used + 1
    BY <1>2, <2>3, <2>4, CountClear
  <2>6. held' = {AddrOf(h) : h \in Pool' \cap bitmap'}
    <3>1. held = {AddrOf(h) : h \in Pool \cap bitmap}
      BY <1>1 DEF IInv, Accounting
    <3>2. \A h \in Pool : AddrOf(h) = addr => h = g
      BY <1>1, <2>2, <2>3, PoolFacts, AddrInjective
    <3> QED
      BY <1>1, <2>2, <2>4, <3>1, <3>2
  <2>7. pmm_used' \in 0 .. pmm_total_frames'
    <3>1. g \in Pool \cap bitmap
      BY <2>2, <2>4
    <3>2. Cardinality(Bits \ bitmap') <= pmm_total_frames
      <4>1. IsFiniteSet(Pool) /\ Cardinality(Pool) = pmm_total_frames
        BY <1>2, PoolCount DEF Pool
      <4>2. Bits \ bitmap' \in SUBSET Pool
        BY <1>1, <2>2, <2>4, PoolFacts
      <4> QED
        BY <4>1, <4>2, FS_Subset
    <3> QED
      BY <1>1, <1>2, <2>4, <2>5, <3>2
  <2>8. TypeOK'
    BY <1>1, <1>2, <2>4, <2>7 DEF IInv, TypeOK
  <2>9. BeforeInit' /\ OutsideReserved' /\ PoolSize'
    BY <1>1, <2>2, <2>4 DEF IInv, BeforeInit, OutsideReserved, PoolSize
  <2>10. pmm_total_frames' - pmm_used' = Cardinality(Bits \ bitmap')
    BY <1>1, <1>2, <2>4, <2>5
  <2> QED
    BY <2>6, <2>8, <2>9, <2>10 DEF IInv, Accounting
<1> QED
  BY <1>3, <1>4

(* Every step keeps the inductive invariant.                               *)
LEMMA NextInv == IInv /\ [Next]_vars => IInv'
<1> SUFFICES ASSUME IInv, [Next]_vars PROVE IInv'
  OBVIOUS
<1>1. CASE UNCHANGED vars
  BY <1>1 DEF vars, IInv, TypeOK, BeforeInit, OutsideReserved, PoolSize, Accounting, Pool
<1>2. CASE Next
  BY <1>2, PmmInitInv, AllocInv, FreeInv DEF Next
<1> QED
  BY <1>1, <1>2

(* The parts of IInv hold together in every reachable state: pmm_init      *)
(* establishes them, pmm_alloc_frame and pmm_free_frame keep them.         *)
THEOREM Inductive == Spec => []IInv
<1>1. Init => IInv
  BY InitInv
<1>2. IInv /\ [Next]_vars => IInv'
  BY NextInv
<1> QED
  BY <1>1, <1>2, PTL DEF Spec

(* The bitmap, the two counters and the callers agree in every state, for  *)
(* every memory map: pmm_free_frames is the number of frames that can      *)
(* still be had, and a set bit of the pool is a frame somebody holds.      *)
THEOREM AccountingAlways == Spec => []Accounting
<1>1. IInv => Accounting
  BY DEF IInv
<1> QED
  BY <1>1, Inductive, PTL

(* No bit outside the bitmap is used and the counter of used frames never  *)
(* runs below 0 or past the size of the pool.                              *)
THEOREM PmmTypeCorrect == Spec => []TypeOK
<1>1. IInv => TypeOK
  BY DEF IInv
<1> QED
  BY <1>1, Inductive, PTL

EnoughRam == \A kb \in MemUpper : kb + LOW_KB >= BASE_KB

(* With RAM up to the start of the pool or beyond, pmm_init's subtraction  *)
(* does not wrap and every frame it frees is memory the machine has.       *)
THEOREM FramesInRamWithEnough == EnoughRam => (Spec => []FramesInRam)
<1>1. EnoughRam /\ IInv => FramesInRam
  <2> SUFFICES ASSUME EnoughRam, IInv, NEW f \in Pool
               PROVE  AddrOf(f) + PAGE_KB <= mem_end
    BY DEF FramesInRam
  <2>1. f \in Nat /\ f + 1 <= pmm_total_frames /\ pmm_total_frames \in Nat
    BY LayoutAssumption DEF Pool, IInv, TypeOK
  <2>2. mem_end # 0
    BY <2>1 DEF IInv, BeforeInit
  <2>3. PICK kb \in MemUpper :
          mem_end = MemEnd(kb) /\ pmm_total_frames = EndFrame(MemEnd(kb))
    BY <2>2 DEF IInv, PoolSize
  <2>4. /\ kb \in Nat /\ kb + LOW_KB < WORD_KB /\ kb + LOW_KB >= BASE_KB
        /\ mem_end \in Nat
    BY <2>3, MemUpperAssumption, LayoutAssumption, EndOfRam DEF EnoughRam
  <2>5. mem_end >= BASE_KB /\ mem_end < WORD_KB
    <3>1. (kb + LOW_KB) % WORD_KB = kb + LOW_KB
      BY <2>4, LayoutAssumption
    <3> QED
      BY <2>3, <2>4, <3>1, LayoutAssumption DEF MemEnd
  <2>6. (mem_end - BASE_KB) % WORD_KB = mem_end - BASE_KB /\ mem_end - BASE_KB \in Nat
    BY <2>4, <2>5, LayoutAssumption
  <2> DEFINE q == (mem_end - BASE_KB) \div PAGE_KB
  <2>7. q \in Nat /\ q * PAGE_KB <= mem_end - BASE_KB
    BY <2>6, Division
  <2>8. pmm_total_frames <= q
    BY <2>3, <2>6, <2>7, LayoutAssumption DEF EndFrame
  <2>9. f + 1 <= q
    BY <2>1, <2>7, <2>8
  <2>10. (f + 1) * PAGE_KB <= q * PAGE_KB
    <3> HIDE DEF q
    <3> QED
      BY <2>1, <2>7, <2>9, LayoutAssumption
  <2>11. AddrOf(f) + PAGE_KB = BASE_KB + (f + 1) * PAGE_KB
    BY <2>1, LayoutAssumption DEF AddrOf
  <2> HIDE DEF q
  <2>12. (f + 1) * PAGE_KB \in Int /\ q * PAGE_KB \in Int
    BY <2>1, <2>7, LayoutAssumption
  <2> QED
    BY <2>4, <2>7, <2>10, <2>11, <2>12, LayoutAssumption
<1> SUFFICES ASSUME EnoughRam PROVE Spec => []FramesInRam
  OBVIOUS
<1>2. IInv => FramesInRam
  BY <1>1
<1> QED
  BY <1>2, Inductive, PTL

(* Refinement.                                                             *)

(* Marking one frame takes just its address out of the free ones.          *)
LEMMA FreeAfterMark ==
  ASSUME IInv, NEW B \in SUBSET Bits, NEW g \in Pool \ B
  PROVE  {AddrOf(f) : f \in Pool \ (B \cup {g})} = {AddrOf(f) : f \in Pool \ B} \ {AddrOf(g)}
<1>1. Pool \subseteq Nat
  BY LayoutAssumption DEF Pool, IInv, TypeOK
<1>2. \A f \in Pool : AddrOf(f) = AddrOf(g) => f = g
  BY <1>1, AddrInjective
<1> QED
  BY <1>2

(* Every step of the bitmap allocator is a step of the abstract one.       *)
LEMMA PromiseStep == IInv /\ [Next]_vars => [Promise!Next]_<<FreeAddrs, held, out>>
<1> SUFFICES ASSUME IInv, [Next]_vars
             PROVE  [Promise!Next]_<<FreeAddrs, held, out>>
  OBVIOUS
<1> USE DEF Promise!Next
<1>1. CASE UNCHANGED vars
  BY <1>1 DEF vars, FreeAddrs, Pool
<1>2. ASSUME NEW kb \in MemUpper, PmmInit(kb)
      PROVE  \E pool \in SUBSET {AddrOf(f) : f \in Bits} : Promise!Fill(pool)
  <2>1. FreeAddrs = {} /\ held = {} /\ UNCHANGED <<held, out>>
    BY <1>2, LayoutAssumption DEF PmmInit, IInv, BeforeInit, FreeAddrs, Pool
  <2>2. FreeAddrs' \in SUBSET {AddrOf(f) : f \in Bits}
    BY <1>2, EndOfRam, LayoutAssumption DEF PmmInit, FreeAddrs, Pool, Bits
  <2> QED
    BY <2>1, <2>2 DEF Promise!Fill, FreeAddrs
<1>3. CASE Alloc
  <2>1. mem_end # 0 /\ Pool' = Pool
    BY <1>3 DEF Alloc, Pool
  <2>2. CASE Bits \ bitmap = {} /\ out' = NoFrame /\ UNCHANGED <<bitmap, pmm_used, held>>
    <3>1. FreeAddrs = {} /\ FreeAddrs' = FreeAddrs
      BY <2>1, <2>2, PoolFacts DEF FreeAddrs
    <3> QED
      BY <2>2, <3>1 DEF Promise!Refuse, FreeAddrs
  <2>3. ASSUME NEW f \in Bits, Lowest(f), bitmap' = Marked(f), out' = AddrOf(f),
               held' = held \cup {AddrOf(f)}
        PROVE  Promise!Next
    <3>1. f \in Pool \ bitmap /\ bitmap' = bitmap \cup {f} /\ bitmap \in SUBSET Bits
      BY <2>1, <2>3, PoolFacts DEF Lowest, Marked, IInv, TypeOK
    <3>2. FreeAddrs' = FreeAddrs \ {AddrOf(f)} /\ AddrOf(f) \in FreeAddrs
      BY <2>1, <3>1, FreeAfterMark DEF FreeAddrs
    <3>3. Promise!Grant(AddrOf(f))
      BY <2>3, <3>2 DEF Promise!Grant, FreeAddrs
    <3> QED
      BY <3>3
  <2> QED
    BY <1>3, <2>2, <2>3 DEF Alloc
<1>4. ASSUME NEW addr \in Freeable, Free(addr)
      PROVE  [Promise!Next]_<<FreeAddrs, held, out>>
  <2>1. /\ mem_end # 0 /\ Pool' = Pool /\ out' = out /\ held' = held \ {addr}
    BY <1>4 DEF Free, Pool
  <2>2. CASE Ignored(addr)
    <3>1. FreeAddrs' = FreeAddrs
      BY <1>4, <2>1, <2>2 DEF Free, FreeAddrs
    <3>2. addr \notin held
      BY <1>4, <2>1, <2>2, IgnoredUnheld
    <3> QED
      BY <2>1, <3>1, <3>2
  <2>3. CASE ~Ignored(addr)
    <3>1. PICK g \in Pool : addr = AddrOf(g)
      BY <2>3, LayoutAssumption DEF Freeable, Ignored, NoFrame
    <3>2. g \in Nat /\ g \in Bits /\ FrameOf(addr) = g
      BY <2>1, <3>1, PoolFacts, Addresses
    <3>3. bitmap' = bitmap \ {g} /\ g \in bitmap
      BY <1>4, <2>3, <3>2 DEF Free, Ignored
    <3>4. addr \in held
      BY <2>1, <3>1, <3>2, <3>3, PoolFacts
    <3>5. FreeAddrs' = FreeAddrs \cup {addr}
      BY <2>1, <3>1, <3>3 DEF FreeAddrs
    <3>6. Promise!Return(addr)
      BY <2>1, <3>4, <3>5 DEF Promise!Return, FreeAddrs
    <3> QED
      BY <3>1, <3>2, <3>6
  <2> QED
    BY <2>2, <2>3
<1> QED
  BY <1>1, <1>2, <1>3, <1>4 DEF Next

(* pmm.c implements the abstract allocator: no frame ever has two holders, *)
(* a request is refused only when every frame is held, and a second free   *)
(* or the free of a failed request changes nothing.                        *)
THEOREM PmmImplementsFrameAllocator == Spec => ImplementsFrameAllocator
<1>1. Init => Promise!Init
  BY LayoutAssumption DEF Init, Promise!Init, Pool, FreeAddrs
<1>2. IInv /\ [Next]_vars => [Promise!Next]_<<FreeAddrs, held, out>>
  BY PromiseStep
<1>3. Spec => Promise!Init /\ [][Promise!Next]_<<FreeAddrs, held, out>>
  BY <1>1, <1>2, Inductive, PTL DEF Spec
<1> QED
  BY <1>3, PTL DEF ImplementsFrameAllocator, Promise!Spec

-----------------------------------------------------------------------------
(* The ready queue.                                                        *)

LEMMA NFacts == N \in Nat
BY ThreadsAssumption, FS_CardinalityType DEF N

(* A walk goes from a thread to its next: the equation of Walk has a       *)
(* solution, for every length.                                             *)
Steps(start, n, g) ==
  g = [x \in 0 .. n |-> IF x = 0 THEN start ELSE IF g[x - 1] = NULL THEN NULL ELSE next[g[x - 1]]]

LEMMA WalkExists ==
  ASSUME NEW start, NEW n \in Nat
  PROVE  \E g : Steps(start, n, g)
<1> DEFINE S == {m \in Nat : \E g : Steps(start, m, g)}
<1>1. 0 \in S
  <2> DEFINE g == [x \in 0 .. 0 |-> start]
  <2>1. g = [x \in 0 .. 0 |-> IF x = 0 THEN start ELSE IF g[x - 1] = NULL THEN NULL ELSE next[g[x - 1]]]
    OBVIOUS
  <2> QED
    BY <2>1 DEF Steps
<1>2. ASSUME NEW m \in Nat, m \in S PROVE m + 1 \in S
  <2>1. PICK g : Steps(start, m, g)
    BY <1>2
  <2> DEFINE v == IF g[m] = NULL THEN NULL ELSE next[g[m]]
             h == [x \in 0 .. m + 1 |-> IF x = m + 1 THEN v ELSE g[x]]
  <2>2. ASSUME NEW x \in 0 .. m + 1
        PROVE  h[x] = IF x = 0 THEN start ELSE IF h[x - 1] = NULL THEN NULL ELSE next[h[x - 1]]
    <3>1. CASE x = m + 1
      <4>1. h[x] = v /\ x # 0 /\ x - 1 = m /\ h[m] = g[m]
        BY <3>1
      <4> QED
        BY <4>1
    <3>2. CASE x # m + 1
      <4>1. x \in 0 .. m /\ h[x] = g[x] /\ (x # 0 => x - 1 \in 0 .. m /\ h[x - 1] = g[x - 1])
        BY <3>2
      <4>2. g[x] = IF x = 0 THEN start ELSE IF g[x - 1] = NULL THEN NULL ELSE next[g[x - 1]]
        BY <2>1, <4>1 DEF Steps
      <4> HIDE DEF h
      <4> QED
        BY <4>1, <4>2
    <3> QED
      BY <3>1, <3>2
  <2>3. h = [x \in 0 .. m + 1 |-> IF x = 0 THEN start ELSE IF h[x - 1] = NULL THEN NULL ELSE next[h[x - 1]]]
    BY <2>2
  <2>4. Steps(start, m + 1, h)
    BY <2>3 DEF Steps
  <2> HIDE DEF h
  <2> QED
    BY <2>4
<1> HIDE DEF S
<1>3. n \in S
  BY <1>1, <1>2, SetInduction
<1> QED
  BY <1>3 DEF S

LEMMA WalkSteps ==
  ASSUME NEW start
  PROVE  /\ Walk(start)[0] = start
         /\ \A x \in 1 .. N : Walk(start)[x] =
              IF Walk(start)[x - 1] = NULL THEN NULL ELSE next[Walk(start)[x - 1]]
<1>1. Walk(start) = CHOOSE g : Steps(start, N, g)
  BY DEF Walk, Steps
<1>2. Steps(start, N, Walk(start))
  BY <1>1, NFacts, WalkExists
<1> QED
  BY <1>2, NFacts DEF Steps

(* Threads that form a closed ring, from any of them.                      *)
Closed(r) ==
  /\ r \in Seq(Threads) /\ Len(r) >= 1
  /\ \A x, j \in 1 .. Len(r) : r[x] = r[j] => x = j
  /\ \A x \in 1 .. Len(r) : next[r[x]] = r[IF x = Len(r) THEN 1 ELSE x + 1]

(* No more than there are threads.                                         *)
LEMMA FewQueued ==
  ASSUME NEW r \in Seq(Threads), \A x, j \in 1 .. Len(r) : r[x] = r[j] => x = j
  PROVE  Len(r) <= N
<1>1. r \in [1 .. Len(r) -> Threads] /\ Len(r) \in Nat
  OBVIOUS
<1>2. r \in Injection(1 .. Len(r), Threads)
  BY <1>1 DEF Injection, IsInjective
<1>3. Cardinality(1 .. Len(r)) <= N
  BY <1>2, ThreadsAssumption, FS_Injection DEF N
<1>4. Cardinality(1 .. Len(r)) = Len(r)
  <2>1. 1 \in Int /\ Len(r) \in Int
    BY <1>1
  <2>2. Cardinality(1 .. Len(r)) = IF 1 > Len(r) THEN 0 ELSE Len(r) - 1 + 1
    BY <2>1, FS_Interval
  <2> QED
    BY <1>1, <2>2
<1> QED
  BY <1>3, <1>4

(* A walk along a ring meets its threads in order and is back after one    *)
(* round.                                                                  *)
LEMMA WalkRound ==
  ASSUME NEW r, Closed(r)
  PROVE  /\ Len(r) \in 1 .. N
         /\ \A x \in 0 .. Len(r) - 1 : Walk(r[1])[x] = r[x + 1]
         /\ Walk(r[1])[Len(r)] = r[1]
<1>1. r \in Seq(Threads) /\ Len(r) \in 1 .. N /\ Len(r) \in Nat /\ N \in Nat
  BY FewQueued, NFacts DEF Closed
<1> DEFINE w == Walk(r[1])
           S == {n \in Nat : n < Len(r) => w[n] = r[n + 1]}
<1>2. \A n \in Nat : n < Len(r) => n + 1 \in 1 .. Len(r) /\ r[n + 1] \in Threads /\ r[n + 1] # NULL
  BY <1>1, ThreadsAssumption
<1>3. \A x \in 1 .. N : w[x] = IF w[x - 1] = NULL THEN NULL ELSE next[w[x - 1]]
  BY WalkSteps
<1>4. 0 \in S
  BY WalkSteps
<1>5. ASSUME NEW n \in Nat, n \in S PROVE n + 1 \in S
  <2> SUFFICES ASSUME n + 1 < Len(r) PROVE w[n + 1] = r[(n + 1) + 1]
    OBVIOUS
  <2>1. w[n] = r[n + 1] /\ w[n] # NULL
    BY <1>1, <1>2, <1>5
  <2>2. n + 1 \in 1 .. N /\ (n + 1) - 1 = n
    BY <1>1
  <2>3. w[n + 1] = next[r[n + 1]]
    BY <1>3, <2>1, <2>2
  <2>4. n + 1 \in 1 .. Len(r) /\ n + 1 # Len(r)
    BY <1>1
  <2> QED
    BY <2>3, <2>4 DEF Closed
<1>6. Nat \subseteq S
  <2> HIDE DEF S
  <2> QED
    BY <1>4, <1>5, SetInduction
<1>7. \A x \in 0 .. Len(r) - 1 : w[x] = r[x + 1]
  BY <1>1, <1>6
<1>8. w[Len(r)] = r[1]
  <2>1. Len(r) - 1 \in 0 .. Len(r) - 1 /\ (Len(r) - 1) + 1 = Len(r) /\ Len(r) \in 1 .. Len(r)
    BY <1>1
  <2>2. w[Len(r) - 1] = r[Len(r)] /\ r[Len(r)] \in Threads
    BY <1>1, <1>7, <2>1
  <2>3. w[Len(r)] = next[r[Len(r)]]
    BY <1>1, <1>3, <2>2, ThreadsAssumption
  <2> QED
    BY <2>1, <2>3 DEF Closed
<1> QED
  BY <1>1, <1>7, <1>8

(* The threads of the list, from head, and from any of them.               *)
LEMMA ListClosed ==
  ASSUME NEW q \in Seq(Threads), Lists(q), q # <<>>
  PROVE  Closed(q) /\ head = q[1]
BY DEF Lists, Closed

Members(q) == {q[x] : x \in 1 .. Len(q)}
TurnedBy(q, k) == SubSeq(q, k + 1, Len(q)) \o SubSeq(q, 1, k)

LEMMA Turned ==
  ASSUME NEW q, Closed(q), NEW k \in 1 .. Len(q)
  PROVE  /\ Closed(TurnedBy(q, k)) /\ Len(TurnedBy(q, k)) = Len(q)
         /\ TurnedBy(q, k)[1] = next[q[k]]
         /\ Members(TurnedBy(q, k)) = Members(q)
<1> DEFINE L == Len(q)
           r == SubSeq(q, k + 1, Len(q)) \o SubSeq(q, 1, k)
<1>1. q \in Seq(Threads) /\ L \in Nat /\ k \in 1 .. L /\ k \in Nat
  BY DEF Closed
<1>2. /\ SubSeq(q, k + 1, L) \in Seq(Threads) /\ Len(SubSeq(q, k + 1, L)) = L - k
      /\ \A x \in 1 .. L - k : SubSeq(q, k + 1, L)[x] = q[k + x]
  BY <1>1
<1>3. /\ SubSeq(q, 1, k) \in Seq(Threads) /\ Len(SubSeq(q, 1, k)) = k
      /\ \A x \in 1 .. k : SubSeq(q, 1, k)[x] = q[x]
  BY <1>1
<1>4. /\ r \in Seq(Threads) /\ Len(r) = L
      /\ \A x \in 1 .. L : r[x] = IF x <= L - k THEN q[k + x] ELSE q[x - (L - k)]
  <2>1. PICK a, b : a = SubSeq(q, k + 1, L) /\ b = SubSeq(q, 1, k)
    OBVIOUS
  <2>2. a \in Seq(Threads) /\ b \in Seq(Threads) /\ Len(a) = L - k /\ Len(b) = k
    BY <1>2, <1>3, <2>1
  <2>3. /\ a \o b \in Seq(Threads) /\ Len(a \o b) = Len(a) + Len(b)
        /\ \A x \in 1 .. Len(a) + Len(b) :
             (a \o b)[x] = IF x <= Len(a) THEN a[x] ELSE b[x - Len(a)]
    BY <2>2, ConcatProperties
  <2>4. Len(a) + Len(b) = L
    BY <1>1, <2>2
  <2>5. ASSUME NEW x \in 1 .. L
        PROVE  (a \o b)[x] = IF x <= L - k THEN q[k + x] ELSE q[x - (L - k)]
    <3>1. CASE x <= L - k
      <4>1. x \in 1 .. L - k
        BY <1>1, <3>1
      <4> QED
        BY <1>2, <2>1, <2>2, <2>3, <2>4, <3>1, <4>1
    <3>2. CASE ~(x <= L - k)
      <4>1. x - (L - k) \in 1 .. k
        BY <1>1, <3>2
      <4> QED
        BY <1>3, <2>1, <2>2, <2>3, <2>4, <3>2, <4>1
    <3> QED
      BY <3>1, <3>2
  <2> QED
    BY <2>1, <2>3, <2>4, <2>5
<1> DEFINE At(x) == IF x <= L - k THEN k + x ELSE x - (L - k)
<1>5. \A x \in 1 .. L : At(x) \in 1 .. L /\ r[x] = q[At(x)]
  <2>1. \A x \in 1 .. L : At(x) \in 1 .. L
    BY <1>1
  <2>2. \A x \in 1 .. L : q[At(x)] = IF x <= L - k THEN q[k + x] ELSE q[x - (L - k)]
    OBVIOUS
  <2> HIDE DEF At, r
  <2> QED
    BY <1>4, <2>1, <2>2
<1>6. \A x, j \in 1 .. L : At(x) = At(j) => x = j
  BY <1>1
<1>7. \A x \in 1 .. L : IF At(x) = L THEN At(IF x = L THEN 1 ELSE x + 1) = 1
                        ELSE At(IF x = L THEN 1 ELSE x + 1) = At(x) + 1
  BY <1>1
<1>8. At(1) = IF k = L THEN 1 ELSE k + 1
  BY <1>1
<1>9. L >= 1 /\ \A x \in 1 .. L : (IF x = L THEN 1 ELSE x + 1) \in 1 .. L
  BY <1>1
<1>10. \A j \in 1 .. L : \E x \in 1 .. L : At(x) = j
  <2> SUFFICES ASSUME NEW j \in 1 .. L PROVE \E x \in 1 .. L : At(x) = j
    OBVIOUS
  <2>1. CASE j > k
    <3>1. j - k \in 1 .. L /\ At(j - k) = j
      BY <1>1, <2>1
    <3> QED
      BY <3>1
  <2>2. CASE j <= k
    <3>1. j + (L - k) \in 1 .. L /\ At(j + (L - k)) = j
      BY <1>1, <2>2
    <3> QED
      BY <3>1
  <2> QED
    BY <1>1, <2>1, <2>2
<1> HIDE DEF At, r
<1>11. ASSUME NEW x \in 1 .. L, NEW j \in 1 .. L, r[x] = r[j] PROVE x = j
  <2>1. At(x) \in 1 .. L /\ At(j) \in 1 .. L /\ q[At(x)] = q[At(j)]
    BY <1>5, <1>11
  <2>2. At(x) = At(j)
    BY <2>1 DEF Closed
  <2> QED
    BY <1>6, <2>2
<1>12. ASSUME NEW x \in 1 .. L PROVE next[r[x]] = r[IF x = L THEN 1 ELSE x + 1]
  <2> DEFINE n == IF x = L THEN 1 ELSE x + 1
  <2>1. n \in 1 .. L /\ r[n] = q[At(n)] /\ r[x] = q[At(x)] /\ At(x) \in 1 .. L
    BY <1>5, <1>9
  <2>2. next[q[At(x)]] = q[IF At(x) = L THEN 1 ELSE At(x) + 1]
    BY <2>1 DEF Closed
  <2>3. At(n) = IF At(x) = L THEN 1 ELSE At(x) + 1
    BY <1>7
  <2> QED
    BY <2>1, <2>2, <2>3
<1>13. Closed(r)
  BY <1>4, <1>9, <1>11, <1>12 DEF Closed
<1>14. r[1] = next[q[k]]
  BY <1>1, <1>5, <1>8, <1>9 DEF Closed
<1>15. {r[x] : x \in 1 .. L} = {q[x] : x \in 1 .. L}
  <2>1. \A x \in 1 .. L : r[x] \in {q[j] : j \in 1 .. L}
    BY <1>5
  <2>2. \A j \in 1 .. L : q[j] \in {r[x] : x \in 1 .. L}
    BY <1>5, <1>10
  <2> QED
    BY <2>1, <2>2
<1> QED
  BY <1>4, <1>13, <1>14, <1>15 DEF r, TurnedBy, Members

(* Ring is the list.                                                       *)
LEMMA RingIs ==
  ASSUME NEW q \in Seq(Threads), Lists(q)
  PROVE  /\ Ring = q
         /\ q # <<>> => Rounds # {}
<1>1. CASE q = <<>>
  BY <1>1 DEF Lists, Ring
<1>2. CASE q # <<>>
  <2> DEFINE L == Len(q)
             w == Walk(head)
  <2>1. Closed(q) /\ head = q[1] /\ head # NULL
    <3>1. Closed(q) /\ head = q[1]
      BY <1>2, ListClosed
    <3> QED
      BY <3>1, ThreadsAssumption DEF Closed
  <2>2. /\ L \in 1 .. N /\ w[L] = head
        /\ \A x \in 0 .. L - 1 : w[x] = q[x + 1]
    BY <2>1, WalkRound
  <2>3. L \in Nat /\ N \in Nat
    BY NFacts
  <2>4. L \in Rounds
    BY <2>2 DEF Rounds
  <2>5. ASSUME NEW k \in Rounds PROVE k >= L
    <3> SUFFICES ASSUME k < L PROVE FALSE
      BY <2>3, <2>5 DEF Rounds
    <3>1. k \in 0 .. L - 1 /\ k + 1 \in 1 .. L /\ 1 \in 1 .. L /\ k + 1 # 1 /\ w[k] = head
      BY <2>3, <2>5 DEF Rounds
    <3>2. q[k + 1] = q[1]
      BY <2>1, <2>2, <3>1
    <3> QED
      BY <2>1, <3>1, <3>2 DEF Closed
  <2>6. Rounds \subseteq Nat
    BY <2>3 DEF Rounds
  <2>7. (CHOOSE r \in Rounds : \A s \in Rounds : r <= s) = L
    <3>1. \E r \in Rounds : \A s \in Rounds : r <= s
      BY <2>4, <2>5
    <3>2. PICK m : m = CHOOSE r \in Rounds : \A s \in Rounds : r <= s
      OBVIOUS
    <3>3. m \in Rounds /\ \A s \in Rounds : m <= s
      BY <3>1, <3>2
    <3>4. m <= L /\ m >= L /\ m \in Nat
      BY <2>4, <2>5, <2>6, <3>3
    <3> QED
      BY <2>3, <3>2, <3>4
  <2>8. Ring = [x \in 1 .. L |-> w[x - 1]]
    BY <2>1, <2>4, <2>7 DEF Ring
  <2>9. ASSUME NEW x \in 1 .. L PROVE w[x - 1] = q[x]
    <3>1. x - 1 \in 0 .. L - 1 /\ (x - 1) + 1 = x
      BY <2>3
    <3> QED
      BY <2>2, <3>1
  <2>10. Ring = [x \in 1 .. L |-> q[x]]
    BY <2>8, <2>9
  <2> QED
    BY <2>4, <2>10
<1> QED
  BY <1>1, <1>2

(* Hence what RingShape says of it.                                        *)
LEMMA ListShape ==
  ASSUME NEW q \in Seq(Threads), Lists(q)
  PROVE  RingShape
<1>1. Ring = q /\ (q # <<>> => Rounds # {})
  BY RingIs
<1>2. Len(q) \in Nat /\ \A x \in 1 .. Len(q) : q[x] \in Threads /\ q[x] # NULL
  BY ThreadsAssumption
<1>3. (head = NULL <=> q = <<>>) /\ (tail = NULL <=> q = <<>>)
  <2>1. q # <<>> => 1 \in 1 .. Len(q) /\ Len(q) \in 1 .. Len(q)
    BY <1>2
  <2> QED
    BY <1>2, <2>1 DEF Lists
<1>4. head # NULL => Rounds # {} /\ tail = Ring[Len(Ring)]
  BY <1>1, <1>3 DEF Lists
<1>5. ASSUME NEW t \in Threads, next[t] # NULL PROVE t \in {q[x] : x \in 1 .. Len(q)}
  BY <1>5 DEF Lists
<1>6. ASSUME NEW x \in 1 .. Len(q) PROVE q[x] \in {t \in Threads : next[t] # NULL}
  <2>1. (IF x = Len(q) THEN 1 ELSE x + 1) \in 1 .. Len(q)
    BY <1>2
  <2> QED
    BY <1>2, <2>1 DEF Lists
<1>7. {t \in Threads : next[t] # NULL} = {Ring[x] : x \in 1 .. Len(Ring)}
  BY <1>1, <1>5, <1>6
<1> QED
  BY <1>3, <1>4, <1>7 DEF RingShape

(* A thread with no next pointer is not in the list.                       *)
LEMMA NotListed ==
  ASSUME NEW q \in Seq(Threads), Lists(q), NEW t \in Threads
  PROVE  next[t] = NULL <=> \A x \in 1 .. Len(q) : q[x] # t
<1>1. {u \in Threads : next[u] # NULL} = {q[x] : x \in 1 .. Len(q)}
  BY RingIs, ListShape DEF RingShape
<1> QED
  BY <1>1

(* queue_insert appends.                                                   *)
LEMMA InsertLists ==
  ASSUME NEW q \in Seq(Threads), Lists(q), NEW t \in Threads, Insert(t)
  PROVE  Append(q, t) \in Seq(Threads) /\ Lists(Append(q, t))'
<1> DEFINE L == Len(q)
           a == Append(q, t)
<1>1. L \in Nat /\ \A x \in 1 .. L : q[x] \in Threads /\ q[x] # t
  BY NotListed DEF Insert
<1>2. /\ a \in Seq(Threads) /\ Len(a) = L + 1 /\ a[L + 1] = t
      /\ \A x \in 1 .. L : a[x] = q[x]
  OBVIOUS
<1> HIDE DEF a
<1>3. next \in [Threads -> Pointers] /\ t \in Pointers /\ tail' = t
  BY DEF Lists, Insert, Pointers
<1>4. ASSUME NEW x \in 1 .. Len(a), NEW j \in 1 .. Len(a), a[x] = a[j] PROVE x = j
  BY <1>1, <1>2, <1>4 DEF Lists
<1>5. a # <<>> /\ a[Len(a)] = t
  BY <1>1, <1>2
<1>6. CASE q = <<>>
  <2>1. L = 0 /\ head = NULL
    BY <1>6 DEF Lists
  <2>2. head' = t /\ next' = [next EXCEPT ![t] = t]
    BY <2>1 DEF Insert
  <2>3. \A x \in 1 .. Len(a) : x = 1 /\ a[x] = t
    BY <1>2, <2>1
  <2>4. \A u \in Threads : (\A x \in 1 .. Len(a) : a[x] # u) => next'[u] = NULL
    <3>1. \A u \in Threads : u # t => next[u] = NULL
      BY <2>1 DEF Lists
    <3>2. 1 \in 1 .. Len(a) /\ a[1] = t
      BY <1>2, <2>1
    <3> QED
      BY <1>3, <2>2, <3>1, <3>2
  <2>5. next' \in [Threads -> Pointers] /\ next'[t] = t
    BY <1>3, <2>2
  <2>6. \A x \in 1 .. Len(a) : next'[a[x]] = a[IF x = Len(a) THEN 1 ELSE x + 1]
    BY <1>2, <2>1, <2>3, <2>5
  <2>7. head' = a[1]
    BY <1>2, <2>1, <2>2
  <2> QED
    BY <1>2, <1>3, <1>4, <1>5, <2>4, <2>5, <2>6, <2>7 DEF Lists
<1>7. CASE q # <<>>
  <2>1. L >= 1 /\ head = q[1] /\ tail = q[L] /\ head # NULL
    BY <1>1, <1>7, ThreadsAssumption DEF Lists
  <2>2. head' = head /\ next' = [next EXCEPT ![t] = head, ![tail] = t]
    BY <2>1 DEF Insert, LinkLast
  <2>3. tail \in Threads /\ tail # t /\ head \in Pointers
    BY <1>1, <2>1 DEF Pointers
  <2>4. /\ next' \in [Threads -> Pointers] /\ next'[t] = head /\ next'[tail] = t
        /\ \A u \in Threads : u # t /\ u # tail => next'[u] = next[u]
    BY <1>3, <2>2, <2>3
  <2>5. \A u \in Threads : (\A x \in 1 .. Len(a) : a[x] # u) => next'[u] = NULL
    <3> SUFFICES ASSUME NEW u \in Threads, \A x \in 1 .. Len(a) : a[x] # u
                 PROVE  next'[u] = NULL
      OBVIOUS
    <3>1. u # t /\ \A x \in 1 .. L : q[x] # u
      BY <1>1, <1>2
    <3>2. u # tail
      BY <2>1, <3>1
    <3> QED
      BY <2>4, <3>1, <3>2 DEF Lists
  <2>6. ASSUME NEW x \in 1 .. Len(a)
        PROVE  next'[a[x]] = a[IF x = Len(a) THEN 1 ELSE x + 1]
    <3>1. CASE x = L + 1
      <4>1. a[x] = t /\ x = Len(a) /\ a[1] = q[1]
        BY <1>1, <1>2, <2>1, <3>1
      <4> QED
        BY <2>1, <2>4, <4>1
    <3>2. CASE x = L
      <4>1. a[x] = tail /\ x # Len(a) /\ a[x + 1] = t
        BY <1>1, <1>2, <2>1, <3>2
      <4> QED
        BY <2>4, <4>1
    <3>3. CASE x < L
      <4>1. x \in 1 .. L /\ x # L /\ L \in 1 .. L /\ x + 1 \in 1 .. L /\ x # Len(a)
        BY <1>1, <1>2, <3>3
      <4>2. q[x] # tail /\ q[x] # t /\ q[x] \in Threads
        BY <1>1, <2>1, <4>1 DEF Lists
      <4>3. next'[q[x]] = q[x + 1]
        BY <2>4, <4>1, <4>2 DEF Lists
      <4> QED
        BY <1>2, <4>1, <4>3
    <3> QED
      BY <1>1, <1>2, <3>1, <3>2, <3>3
  <2>7. head' = a[1]
    BY <1>1, <1>2, <2>1, <2>2
  <2> QED
    BY <1>2, <1>3, <1>4, <1>5, <2>4, <2>5, <2>6, <2>7 DEF Lists
<1> QED
  BY <1>6, <1>7

(* Where queue_remove stops: at the thread before t, or at the tail if t   *)
(* is the head or not in the list.                                         *)
LEMMA StopsOnce ==
  ASSUME NEW q \in Seq(Threads), Lists(q), q # <<>>, NEW t \in Threads, NEW prev,
         IsPrev(prev, t), NEW m \in 1 .. Len(q),
         m < Len(q) => q[m + 1] = t,
         \A j \in 1 .. m - 1 : q[j + 1] # t
  PROVE  prev = q[m]
<1> DEFINE w == Walk(head)
           L == Len(q)
<1>1. Closed(q) /\ head = q[1] /\ L \in Nat /\ m \in 1 .. L /\ 1 \in 1 .. L
  BY ListClosed
<1>2. L \in 1 .. N /\ \A x \in 0 .. L - 1 : w[x] = q[x + 1]
  BY <1>1, WalkRound
<1>3. PICK x \in 0 .. N : /\ prev = w[x] /\ StopsAt(w, x, t)
                          /\ \A j \in 0 .. x - 1 : ~StopsAt(w, j, t)
  BY DEF IsPrev
<1> HIDE DEF w
<1>4. m - 1 \in 0 .. L - 1 /\ w[m - 1] = q[m]
  <2>1. m - 1 \in 0 .. L - 1 /\ (m - 1) + 1 = m
    BY <1>1
  <2> QED
    BY <1>2, <2>1
<1>5. StopsAt(w, m - 1, t)
  <2>1. q[m] # NULL
    BY <1>1, ThreadsAssumption
  <2>2. next[q[m]] = q[IF m = L THEN 1 ELSE m + 1]
    BY <1>1 DEF Closed
  <2>3. next[q[m]] \in {t, head}
    BY <1>1, <2>2
  <2> QED
    BY <1>4, <2>1, <2>3 DEF StopsAt
<1>6. ASSUME NEW j \in 0 .. m - 2 PROVE ~StopsAt(w, j, t)
  <2>1. /\ j + 1 \in 1 .. m - 1 /\ j + 1 \in 1 .. L /\ j + 1 # L /\ j \in 0 .. L - 1
        /\ (j + 1) + 1 \in 1 .. L /\ (j + 1) + 1 # 1
    BY <1>1
  <2>2. w[j] = q[j + 1] /\ next[q[j + 1]] = q[(j + 1) + 1]
    BY <1>1, <1>2, <2>1 DEF Closed
  <2>3. q[(j + 1) + 1] # t
    BY <2>1
  <2>4. q[(j + 1) + 1] # q[1]
    BY <1>1, <2>1 DEF Closed
  <2> QED
    BY <1>1, <2>2, <2>3, <2>4 DEF StopsAt
<1>7. x = m - 1
  <2>1. ~(x < m - 1)
    <3>1. x < m - 1 => x \in 0 .. m - 2
      BY <1>1
    <3> QED
      BY <1>3, <1>6, <3>1
  <2>2. ~(m - 1 < x)
    <3>1. m - 1 < x => m - 1 \in 0 .. x - 1
      BY <1>1
    <3> QED
      BY <1>3, <1>5, <3>1
  <2> QED
    BY <1>1, <2>1, <2>2
<1> QED
  BY <1>3, <1>4, <1>7

(* The list without its k-th thread.                                       *)
Dropped(q, k) == SubSeq(q, 1, k - 1) \o SubSeq(q, k + 1, Len(q))

LEMMA DroppedFacts ==
  ASSUME NEW q \in Seq(Threads), NEW k \in 1 .. Len(q)
  PROVE  /\ Dropped(q, k) \in Seq(Threads) /\ Len(Dropped(q, k)) = Len(q) - 1
         /\ \A x \in 1 .. Len(q) - 1 : Dropped(q, k)[x] = IF x < k THEN q[x] ELSE q[x + 1]
<1> DEFINE L == Len(q)
<1>1. L \in Nat /\ k \in 1 .. L /\ k \in Nat
  OBVIOUS
<1>2. PICK a, b : a = SubSeq(q, 1, k - 1) /\ b = SubSeq(q, k + 1, L)
  OBVIOUS
<1>3. /\ a \in Seq(Threads) /\ Len(a) = k - 1
      /\ \A x \in 1 .. k - 1 : a[x] = q[x]
  BY <1>1, <1>2
<1>4. /\ b \in Seq(Threads) /\ Len(b) = L - k
      /\ \A x \in 1 .. L - k : b[x] = q[k + x]
  BY <1>1, <1>2
<1>5. /\ a \o b \in Seq(Threads) /\ Len(a \o b) = Len(a) + Len(b)
      /\ \A x \in 1 .. Len(a) + Len(b) :
           (a \o b)[x] = IF x <= Len(a) THEN a[x] ELSE b[x - Len(a)]
  BY <1>3, <1>4, ConcatProperties
<1>6. Len(a) + Len(b) = L - 1
  BY <1>1, <1>3, <1>4
<1>7. ASSUME NEW x \in 1 .. L - 1 PROVE (a \o b)[x] = IF x < k THEN q[x] ELSE q[x + 1]
  <2>1. CASE x < k
    <3>1. x \in 1 .. k - 1 /\ x <= Len(a)
      BY <1>1, <1>3, <2>1
    <3> QED
      BY <1>3, <1>5, <1>6, <2>1, <3>1
  <2>2. CASE ~(x < k)
    <3>1. x - (k - 1) \in 1 .. L - k /\ k + (x - (k - 1)) = x + 1 /\ ~(x <= Len(a))
      BY <1>1, <1>3, <2>2
    <3>2. (a \o b)[x] = b[x - (k - 1)]
      BY <1>3, <1>5, <1>6, <3>1
    <3>3. b[x - (k - 1)] = q[k + (x - (k - 1))]
      BY <1>4, <3>1
    <3> QED
      BY <2>2, <3>1, <3>2, <3>3
  <2> QED
    BY <2>1, <2>2
<1> QED
  BY <1>2, <1>5, <1>6, <1>7 DEF Dropped

(* queue_remove of a thread that is not in the list changes nothing.       *)
LEMMA RemoveAbsent ==
  ASSUME NEW q \in Seq(Threads), Lists(q), NEW t \in Threads, Remove(t),
         \A x \in 1 .. Len(q) : q[x] # t
  PROVE  UNCHANGED <<head, tail, next>>
<1>1. q # <<>> /\ head = q[1] /\ Len(q) \in 1 .. Len(q) /\ 1 \in 1 .. Len(q)
  BY DEF Lists, Remove
<1>2. ~OnlyElement(t)
  BY <1>1 DEF OnlyElement
<1>3. PICK prev \in Threads :
        /\ IsPrev(prev, t)
        /\ next[prev] = t \/ UNCHANGED <<head, tail, next>>
  BY <1>2 DEF Remove
<1>4. prev = q[Len(q)]
  <2>1. \A j \in 1 .. Len(q) - 1 : q[j + 1] # t
    OBVIOUS
  <2> QED
    BY <1>1, <1>3, <2>1, StopsOnce
<1>5. next[prev] = q[1]
  BY <1>1, <1>4 DEF Lists
<1> QED
  BY <1>1, <1>3, <1>5

(* queue_remove of the k-th thread drops it.                               *)
LEMMA RemoveListed ==
  ASSUME NEW q \in Seq(Threads), Lists(q), NEW k \in 1 .. Len(q), Remove(q[k])
  PROVE  Dropped(q, k) \in Seq(Threads) /\ Lists(Dropped(q, k))'
<1> DEFINE L == Len(q)
           t == q[k]
           d == Dropped(q, k)
           e(x) == IF x < k THEN x ELSE x + 1
           succ(x) == IF x = L THEN 1 ELSE x + 1
           prior == IF k = 1 THEN L ELSE k - 1
<1>1. L \in Nat /\ k \in 1 .. L /\ k \in Nat /\ 1 \in 1 .. L /\ L \in 1 .. L /\ t \in Threads
  OBVIOUS
<1>2. /\ d \in Seq(Threads) /\ Len(d) = L - 1 /\ \A x \in 1 .. L - 1 : d[x] = q[e(x)]
  <2>1. \A x \in 1 .. L - 1 : q[e(x)] = IF x < k THEN q[x] ELSE q[x + 1]
    OBVIOUS
  <2> QED
    BY <2>1, DroppedFacts
<1>3. \A x \in 1 .. L - 1 : e(x) \in 1 .. L /\ e(x) # k
  BY <1>1
<1>4. \A x, j \in 1 .. L - 1 : e(x) = e(j) => x = j
  BY <1>1
<1>5. \A x \in 1 .. L : succ(x) \in 1 .. L
  BY <1>1
<1>6. \A x, j \in 1 .. L : q[x] = q[j] => x = j
  BY DEF Lists
<1>7. \A x \in 1 .. L : q[x] \in Threads /\ next[q[x]] = q[succ(x)]
  BY <1>1 DEF Lists
<1>8. head = q[1] /\ tail = q[L] /\ q # <<>>
  BY <1>1 DEF Lists
<1>9. \A u \in Threads : (\A x \in 1 .. L : q[x] # u) => next[u] = NULL
  BY DEF Lists
<1>10. next \in [Threads -> Pointers]
  BY DEF Lists
<1>11. ASSUME NEW x \in 1 .. L - 1, NEW j \in 1 .. L - 1, d[x] = d[j] PROVE x = j
  BY <1>2, <1>3, <1>4, <1>6, <1>11
<1>12. ASSUME NEW j \in 1 .. L, j # k PROVE \E x \in 1 .. L - 1 : e(x) = j
  <2>1. CASE j < k
    <3>1. j \in 1 .. L - 1 /\ e(j) = j
      BY <1>1, <2>1
    <3> QED
      BY <3>1
  <2>2. CASE j > k
    <3>1. j - 1 \in 1 .. L - 1 /\ e(j - 1) = j
      BY <1>1, <2>2
    <3> QED
      BY <3>1
  <2> QED
    BY <1>1, <1>12, <2>1, <2>2
<1>13. ASSUME NEW u \in Threads, u # t, \A x \in 1 .. L - 1 : d[x] # u PROVE next[u] = NULL
  <2>1. \A j \in 1 .. L : q[j] # u
    BY <1>2, <1>12, <1>13
  <2> QED
    BY <1>9, <2>1
<1>14. CASE L = 1
  <2>1. k = 1 /\ succ(1) = 1 /\ d = <<>>
    BY <1>1, <1>2, <1>14
  <2>2. OnlyElement(t)
    BY <1>1, <1>7, <1>8, <2>1 DEF OnlyElement
  <2>3. head' = NULL /\ tail' = NULL /\ next' = [next EXCEPT ![t] = NULL]
    BY <2>2 DEF Remove
  <2>4. next' \in [Threads -> Pointers] /\ \A u \in Threads : next'[u] = IF u = t THEN NULL ELSE next[u]
    BY <1>1, <1>10, <2>3 DEF Pointers
  <2>5. \A u \in Threads : next'[u] = NULL
    BY <1>13, <1>14, <2>4
  <2>6. (Lists(d))'
    <3>1. 1 .. Len(d) = {} /\ d = <<>>
      BY <1>2, <1>14, <2>1
    <3> HIDE DEF d
    <3> QED
      BY <2>3, <2>4, <2>5, <3>1 DEF Lists
  <2> QED
    BY <1>2, <2>6
<1>15. CASE L # 1
  <2>1. L > 1 /\ prior \in 1 .. L /\ prior # k /\ succ(prior) = k
    <3>1. L > 1
      <4>1. PICK n : n = L
        OBVIOUS
      <4>2. n \in Nat /\ 1 <= k /\ k <= n /\ n # 1
        BY <1>1, <1>15, <4>1
      <4>3. n > 1
        BY <1>1, <4>2
      <4> QED
        BY <4>1, <4>3
    <3>2. CASE k = 1
      <4>1. prior = L /\ succ(L) = 1
        BY <3>2
      <4> QED
        BY <1>1, <1>15, <3>1, <3>2, <4>1
    <3>3. CASE k # 1
      <4>1. prior = k - 1 /\ k - 1 # L /\ k - 1 \in 1 .. L /\ succ(k - 1) = k
        BY <1>1, <3>3
      <4> QED
        BY <1>1, <3>1, <4>1
    <3> QED
      BY <3>2, <3>3
  <2>2. ~OnlyElement(t)
    <3> SUFFICES ASSUME head = t, next[head] = head PROVE FALSE
      BY DEF OnlyElement
    <3>1. k = 1
      BY <1>1, <1>6, <1>8
    <3>2. succ(1) = 2
      BY <2>1, <3>1
    <3>3. q[2] = q[1] /\ 2 \in 1 .. L
      BY <1>1, <1>7, <1>8, <2>1, <3>1, <3>2
    <3> QED
      BY <1>1, <1>6, <3>3
  <2>3. PICK prev \in Threads :
          /\ IsPrev(prev, t)
          /\ (next[prev] = t /\ Unlink(prev, t)) \/ next[prev] # t
    BY <2>2 DEF Remove
  <2>4. prev = q[prior]
    <3>1. prior < L => q[prior + 1] = t
      BY <1>1
    <3>2. \A j \in 1 .. prior - 1 : q[j + 1] # t
      <4> SUFFICES ASSUME NEW j \in 1 .. prior - 1, q[j + 1] = t PROVE FALSE
        OBVIOUS
      <4>1. j + 1 \in 1 .. L /\ j + 1 # k
        BY <1>1
      <4> QED
        BY <1>6, <4>1
    <3> HIDE DEF prior, t
    <3> QED
      BY <1>1, <1>8, <2>1, <2>3, <3>1, <3>2, StopsOnce
  <2>5. /\ next' = [next EXCEPT ![prev] = next[t], ![t] = NULL]
        /\ head' = IF head = t THEN next[t] ELSE head
        /\ tail' = IF tail = t THEN prev ELSE tail
    BY <1>7, <2>1, <2>3, <2>4 DEF Unlink
  <2>6. prev # t /\ next[t] = q[succ(k)] /\ q[succ(k)] \in Threads
    BY <1>5, <1>6, <1>7, <2>1, <2>4
  <2>7. /\ next' \in [Threads -> Pointers] /\ next'[prev] = q[succ(k)] /\ next'[t] = NULL
        /\ \A u \in Threads : u # t /\ u # prev => next'[u] = next[u]
    BY <1>1, <1>10, <2>3, <2>5, <2>6 DEF Pointers
  <2>8. ASSUME NEW x \in 1 .. L - 1
        PROVE  next'[d[x]] = d[IF x = L - 1 THEN 1 ELSE x + 1]
    <3> DEFINE n == IF x = L - 1 THEN 1 ELSE x + 1
    <3>1. n \in 1 .. L - 1
      BY <1>1, <2>1
    <3>2. d[x] = q[e(x)] /\ d[n] = q[e(n)] /\ e(x) \in 1 .. L /\ e(x) # k
      BY <1>2, <1>3, <3>1
    <3>3. CASE e(x) = prior
      <4>1. e(n) = succ(k)
        BY <1>1, <2>1, <3>3
      <4> QED
        BY <2>4, <2>7, <3>2, <3>3, <4>1
    <3>4. CASE e(x) # prior
      <4>1. e(n) = succ(e(x))
        BY <1>1, <2>1, <3>2, <3>4
      <4>2. q[e(x)] # t /\ q[e(x)] # prev /\ q[e(x)] \in Threads
        BY <1>6, <1>7, <2>1, <2>4, <3>2, <3>4
      <4>3. next'[q[e(x)]] = q[succ(e(x))]
        BY <1>7, <2>7, <3>2, <4>2
      <4> QED
        BY <3>2, <4>1, <4>3
    <3> QED
      BY <3>3, <3>4
  <2>9. ASSUME NEW u \in Threads, \A x \in 1 .. L - 1 : d[x] # u PROVE next'[u] = NULL
    <3>1. u # t => next[u] = NULL
      BY <1>13, <2>9
    <3>2. u # prev
      <4>1. \E x \in 1 .. L - 1 : e(x) = prior
        BY <1>12, <2>1
      <4> QED
        BY <1>2, <2>4, <2>9, <4>1
    <3> QED
      BY <2>7, <3>1, <3>2
  <2>10. head' = d[1]
    <3>1. 1 \in 1 .. L - 1 /\ d[1] = q[e(1)]
      BY <1>1, <1>2, <2>1
    <3>2. CASE k = 1
      <4>1. e(1) = succ(k)
        BY <2>1, <3>2
      <4> QED
        BY <1>8, <2>5, <2>6, <3>1, <3>2, <4>1
    <3>3. CASE k # 1
      <4>1. e(1) = 1 /\ head # t
        BY <1>1, <1>6, <1>8, <3>3
      <4> QED
        BY <1>8, <2>5, <3>1, <4>1
    <3> QED
      BY <3>2, <3>3
  <2>11. tail' = d[L - 1]
    <3>1. L - 1 \in 1 .. L - 1 /\ d[L - 1] = q[e(L - 1)]
      BY <1>1, <1>2, <2>1
    <3>2. CASE k = L
      <4>1. e(L - 1) = prior
        BY <1>1, <2>1, <3>2
      <4> QED
        BY <1>8, <2>4, <2>5, <3>1, <3>2, <4>1
    <3>3. CASE k # L
      <4>1. e(L - 1) = L /\ tail # t
        BY <1>1, <1>6, <1>8, <3>3
      <4> QED
        BY <1>8, <2>5, <3>1, <4>1
    <3> QED
      BY <3>2, <3>3
  <2>12. d # <<>>
    BY <1>1, <1>2, <2>1
  <2>13. (Lists(d))'
    <3> HIDE DEF d
    <3> QED
      BY <1>2, <1>11, <2>7, <2>8, <2>9, <2>10, <2>11, <2>12 DEF Lists
  <2> QED
    BY <1>2, <2>13
<1> QED
  BY <1>14, <1>15

(* queue_next_ready searches the threads as RunQueue orders them: from the *)
(* successor of current, once around.                                      *)
Around(q, current) ==
  IF current \notin Members(q) THEN q
  ELSE TurnedBy(q, CHOOSE x \in 1 .. Len(q) : q[x] = current)

LEMMA SearchOrder ==
  ASSUME NEW q \in Seq(Threads), Lists(q), q # <<>>, NEW current \in Pointers,
         NEW r, r = Around(q, current)
  PROVE  /\ Closed(r) /\ r[1] = Start(current)
         /\ Members(r) = Members(q)
<1>1. Closed(q) /\ head = q[1]
  BY ListClosed
<1>2. CASE current \in Members(q)
  <2>1. PICK k : k = CHOOSE x \in 1 .. Len(q) : q[x] = current
    OBVIOUS
  <2>2. k \in 1 .. Len(q) /\ q[k] = current
    BY <1>2, <2>1 DEF Members
  <2>3. r = TurnedBy(q, k)
    BY <1>2, <2>1 DEF Around
  <2>4. /\ Closed(r) /\ Len(r) = Len(q) /\ r[1] = next[q[k]]
        /\ Members(r) = Members(q)
    BY <1>1, <2>2, <2>3, Turned
  <2>5. current \in Threads /\ current # NULL
    BY <2>2, ThreadsAssumption
  <2>6. next[current] # NULL
    BY <2>2, <2>5, NotListed
  <2>7. r[1] = Start(current)
    BY <2>2, <2>4, <2>5, <2>6 DEF Start
  <2> QED
    BY <2>4, <2>7
<1>3. CASE current \notin Members(q)
  <2>1. current = NULL \/ next[current] = NULL
    BY <1>3, NotListed DEF Pointers, Members
  <2>2. Start(current) = q[1] /\ r = q
    BY <1>1, <1>3, <2>1 DEF Start, Around
  <2> QED
    BY <1>1, <2>2
<1> QED
  BY <1>2, <1>3

IsFirst(r, c, ready) ==
  \E x \in 1 .. Len(r) : /\ c = r[x] /\ r[x] \in ready
                         /\ \A j \in 1 .. x - 1 : r[j] \notin ready

(* It finds a ready thread if there is one, and then the first.            *)
LEMMA CandidateIsFirst ==
  ASSUME NEW r, Closed(r), NEW c, NEW ready
  PROVE  Candidate(r[1], c, ready) <=> IsFirst(r, c, ready)
<1> DEFINE w == Walk(r[1])
           L == Len(r)
<1>1. /\ L \in 1 .. N /\ L \in Nat /\ N \in Nat
      /\ \A x \in 0 .. L - 1 : w[x] = r[x + 1]
      /\ w[L] = r[1]
  BY WalkRound, NFacts
<1> HIDE DEF w
<1>2. \A j \in 1 .. L - 1 : w[j] # r[1]
  <2> SUFFICES ASSUME NEW j \in 1 .. L - 1, w[j] = r[1] PROVE FALSE
    OBVIOUS
  <2>1. j \in 0 .. L - 1 /\ j + 1 \in 1 .. L /\ 1 \in 1 .. L /\ j + 1 # 1
    BY <1>1
  <2>2. r[j + 1] = r[1]
    BY <1>1, <2>1
  <2> QED
    BY <2>1, <2>2 DEF Closed
<1>3. ASSUME Candidate(r[1], c, ready)
      PROVE  \E x \in 1 .. L : /\ c = r[x] /\ r[x] \in ready
                               /\ \A j \in 1 .. x - 1 : r[j] \notin ready
  <2>1. PICK x \in 0 .. N : /\ c = w[x]
                            /\ \A j \in 1 .. x : w[j] # r[1]
                            /\ c \in ready
                            /\ \A j \in 0 .. x - 1 : w[j] \notin ready
    BY <1>3 DEF Candidate, w
  <2>2. x \in 0 .. L - 1
    <3>1. x >= L => L \in 1 .. x
      BY <1>1
    <3>2. ~(x >= L)
      BY <1>1, <2>1, <3>1
    <3> QED
      BY <1>1, <3>2
  <2>3. x + 1 \in 1 .. L /\ c = r[x + 1] /\ r[x + 1] \in ready
    BY <1>1, <2>1, <2>2
  <2>4. ASSUME NEW j \in 1 .. (x + 1) - 1 PROVE r[j] \notin ready
    <3>1. j - 1 \in 0 .. x - 1 /\ j - 1 \in 0 .. L - 1 /\ (j - 1) + 1 = j
      BY <1>1, <2>2
    <3>2. w[j - 1] = r[j]
      BY <1>1, <3>1
    <3> QED
      BY <2>1, <3>1, <3>2
  <2> QED
    BY <2>3, <2>4
<1>4. ASSUME NEW x \in 1 .. L, c = r[x], r[x] \in ready,
             \A j \in 1 .. x - 1 : r[j] \notin ready
      PROVE  Candidate(r[1], c, ready)
  <2>1. x - 1 \in 0 .. L - 1 /\ x - 1 \in 0 .. N /\ (x - 1) + 1 = x
    BY <1>1
  <2>2. w[x - 1] = c
    BY <1>1, <1>4, <2>1
  <2>3. \A j \in 1 .. x - 1 : w[j] # r[1]
    <3>1. \A j \in 1 .. x - 1 : j \in 1 .. L - 1
      BY <1>1
    <3> QED
      BY <1>2, <3>1
  <2>4. ASSUME NEW j \in 0 .. (x - 1) - 1 PROVE w[j] \notin ready
    <3>1. j \in 0 .. L - 1 /\ j + 1 \in 1 .. x - 1
      BY <1>1
    <3>2. w[j] = r[j + 1]
      BY <1>1, <3>1
    <3> QED
      BY <1>4, <3>1, <3>2
  <2> QED
    BY <1>4, <2>1, <2>2, <2>3, <2>4 DEF Candidate, w
<1> QED
  BY <1>3, <1>4 DEF IsFirst

LEMMA RingIsNext ==
  ASSUME NEW CONSTANT q \in Seq(Threads)
  PROVE  Lists(q)' => Ring' = q
<1>1. Lists(q) => Ring = q
  BY RingIs
<1>2. (Lists(q) => Ring = q)'
  BY <1>1, PTL
<1> QED
  BY <1>2

RingInv == \E q \in Seq(Threads) : Lists(q)

LEMMA RingInitLists == RingInit => Lists(<<>>)
BY ThreadsAssumption DEF RingInit, Lists, Pointers

LEMMA PlaceListed ==
  ASSUME NEW q \in Seq(Threads), Lists(q), NEW k \in 1 .. Len(q)
  PROVE  (CHOOSE x \in 1 .. Len(q) : q[x] = q[k]) = k
<1>1. \A x \in 1 .. Len(q) : q[x] = q[k] => x = k
  BY DEF Lists
<1> QED
  BY <1>1

(* Every operation keeps the list a list, of what RunQueue says.           *)
LEMMA InsertAdds ==
  ASSUME NEW CONSTANT q \in Seq(Threads), Lists(q), NEW t \in Threads, Insert(t)
  PROVE  RingInv' /\ Queue!Add(t)
<1>1. Append(q, t) \in Seq(Threads) /\ Lists(Append(q, t))'
  BY InsertLists
<1>2. Ring = q /\ Ring' = Append(q, t)
  BY <1>1, RingIs, RingIsNext
<1>3. t \notin {q[x] : x \in 1 .. Len(q)} /\ picked' = picked
  BY NotListed DEF Insert
<1> QED
  BY <1>1, <1>2, <1>3 DEF RingInv, Queue!Add, Queue!Queued

LEMMA RemoveRemoves ==
  ASSUME NEW CONSTANT q \in Seq(Threads), Lists(q), NEW t \in Threads, Remove(t)
  PROVE  RingInv' /\ Queue!Remove(t)
<1>1. Ring = q /\ picked' = picked
  BY RingIs DEF Remove
<1>2. CASE t \in {q[x] : x \in 1 .. Len(q)}
  <2>1. PICK k \in 1 .. Len(q) : t = q[k]
    BY <1>2
  <2>2. Dropped(q, k) \in Seq(Threads) /\ Lists(Dropped(q, k))'
    BY <2>1, RemoveListed
  <2>3. Ring' = Dropped(q, k)
    BY <2>2, RingIsNext
  <2>4. (CHOOSE x \in 1 .. Len(q) : q[x] = t) = k
    BY <2>1, PlaceListed
  <2>5. Queue!PlaceOf(t) = k
    BY <1>1, <2>4 DEF Queue!PlaceOf
  <2>6. t \in Queue!Queued
    BY <1>1, <1>2 DEF Queue!Queued
  <2> QED
    BY <1>1, <2>2, <2>3, <2>5, <2>6 DEF RingInv, Queue!Remove, Dropped
<1>3. CASE t \notin {q[x] : x \in 1 .. Len(q)}
  <2>1. UNCHANGED <<head, tail, next>>
    BY <1>3, RemoveAbsent
  <2>2. Lists(q)'
    BY <2>1 DEF Lists
  <2>3. Ring' = q
    BY <2>2, RingIsNext
  <2> QED
    BY <1>1, <1>3, <2>2, <2>3 DEF RingInv, Queue!Remove, Queue!Queued
<1> QED
  BY <1>2, <1>3

LEMMA NextReadyPicks ==
  ASSUME NEW CONSTANT q \in Seq(Threads), Lists(q), NEW current \in Pointers,
         NEW ready \in SUBSET Threads, NextReady(current, ready)
  PROVE  RingInv' /\ Queue!Pick(current, ready)
<1> DEFINE found == {c \in Threads : head # NULL /\ Candidate(Start(current), c, ready)}
           Return(c) == picked' = [current |-> current, ready |-> ready, thread |-> c]
<1>1. /\ UNCHANGED <<head, tail, next>>
      /\ \/ \E c \in found : Return(c)
         \/ found = {} /\ head # NULL /\ current \in ready /\ Return(current)
         \/ found = {} /\ (head = NULL \/ current \notin ready) /\ Return(NULL)
  BY DEF NextReady
<1>2. Lists(q)'
  BY <1>1 DEF Lists
<1>3. Ring = q /\ Ring' = q /\ Queue!Queued = {q[x] : x \in 1 .. Len(q)}
  BY <1>2, RingIs, RingIsNext DEF Queue!Queued
<1>4. (head = NULL <=> q = <<>>)
  <2>1. q # <<>> => q[1] \in Threads
    OBVIOUS
  <2> QED
    BY <2>1, ThreadsAssumption DEF Lists
<1>5. CASE q = <<>>
  <2>1. found = {} /\ Queue!Queued = {} /\ head = NULL
    BY <1>3, <1>4, <1>5
  <2>2. Return(NULL)
    BY <1>1, <2>1
  <2> QED
    BY <1>2, <1>3, <1>5, <2>1, <2>2 DEF RingInv, Queue!Pick
<1>6. CASE q # <<>>
  <2>1. PICK r : r = Around(q, current)
    OBVIOUS
  <2>2. Queue!After(current) = r
    BY <1>3, <2>1 DEF Queue!After, Queue!PlaceOf, Around, TurnedBy, Members
  <2>3. Closed(r) /\ r[1] = Start(current)
    BY <1>6, <2>1, SearchOrder
  <2>4. Members(r) = Members(q)
    BY <1>6, <2>1, SearchOrder
  <2>5. {r[x] : x \in 1 .. Len(r)} = {q[x] : x \in 1 .. Len(q)}
    BY <2>4 DEF Members
  <2>6. ASSUME NEW c
        PROVE  c \in found <=>
                 \E x \in 1 .. Len(r) : /\ c = r[x] /\ r[x] \in ready
                                        /\ \A j \in 1 .. x - 1 : r[j] \notin ready
    <3>1. Candidate(r[1], c, ready) <=> IsFirst(r, c, ready)
      BY <2>3, CandidateIsFirst
    <3>2. c \in found <=> c \in Threads /\ IsFirst(r, c, ready)
      BY <1>4, <1>6, <2>3, <3>1
    <3>3. IsFirst(r, c, ready) => c \in Threads
      BY DEF IsFirst
    <3> QED
      BY <3>2, <3>3 DEF IsFirst
  <2> HIDE DEF found
  <2>7. CASE Queue!Queued \cap ready = {}
    <3>1. \A x \in 1 .. Len(r) : r[x] \notin ready
      BY <1>3, <2>5, <2>7
    <3>2. found = {}
      BY <2>6, <3>1
    <3>3. Return(IF current \in ready THEN current ELSE NULL)
      BY <1>1, <1>4, <1>6, <3>2
    <3> QED
      BY <1>2, <1>3, <1>6, <2>7, <3>3 DEF RingInv, Queue!Pick
  <2>8. CASE Queue!Queued \cap ready # {}
    <3> DEFINE First == {x \in 1 .. Len(r) : r[x] \in ready /\ \A j \in 1 .. x - 1 : r[j] \notin ready}
               T == {x \in 1 .. Len(r) : r[x] \in ready}
    <3>1. Len(r) \in Nat
      BY <2>3 DEF Closed
    <3>2. PICK f \in T : \A x \in T : f <= x
      <4>1. T # {}
        BY <1>3, <2>5, <2>8
      <4>2. T \in SUBSET Nat
        BY <3>1
      <4> HIDE DEF T
      <4> QED
        BY <4>1, <4>2, Smallest
    <3>3. f \in First
      BY <3>1, <3>2
    <3>4. \A x, j \in First : x = j
      BY <3>1
    <3>5. (CHOOSE x \in 1 .. Len(r) : r[x] \in ready /\ \A j \in 1 .. x - 1 : r[j] \notin ready) = f
      BY <3>3, <3>4
    <3>6. Queue!FirstOf(r, ready) = r[f]
      BY <3>5 DEF Queue!FirstOf
    <3>7. r[f] \in found /\ \A c \in found : c = r[f]
      BY <2>6, <3>3, <3>4
    <3>8. Return(r[f])
      BY <1>1, <3>7
    <3> QED
      BY <1>2, <1>3, <2>2, <2>8, <3>6, <3>8 DEF RingInv, Queue!Pick
  <2> QED
    BY <2>7, <2>8
<1> QED
  BY <1>5, <1>6

LEMMA RingStep ==
  ASSUME RingInv, [RingNext]_ringVars
  PROVE  RingInv' /\ [Queue!Next]_<<Ring, picked>>
<1>1. PICK q \in Seq(Threads) : Lists(q)
  BY DEF RingInv
<1>2. CASE UNCHANGED ringVars
  <2>1. Lists(q)' /\ picked' = picked
    BY <1>1, <1>2 DEF ringVars, Lists
  <2> QED
    BY <1>1, <2>1, RingIs, RingIsNext DEF RingInv
<1>3. ASSUME NEW t \in Threads, Insert(t) PROVE RingInv' /\ Queue!Next
  BY <1>1, <1>3, InsertAdds DEF Queue!Next
<1>4. ASSUME NEW t \in Threads, Remove(t) PROVE RingInv' /\ Queue!Next
  BY <1>1, <1>4, RemoveRemoves DEF Queue!Next
<1>5. ASSUME NEW current \in Pointers, NEW ready \in SUBSET Threads, NextReady(current, ready)
      PROVE  RingInv' /\ Queue!Next
  BY <1>1, <1>5, NextReadyPicks DEF Queue!Next, Pointers
<1> QED
  BY <1>2, <1>3, <1>4, <1>5 DEF RingNext

(* Any number of threads: the list is always one closed ring that tail     *)
(* ends, and just the queued threads have a next pointer, so that every    *)
(* walk of queue_remove and queue_next_ready ends.                         *)
THEOREM RingShapeAlways == RingSpec => []RingShape
<1>1. RingInit => RingInv
  BY RingInitLists, EmptySeq DEF RingInv
<1>2. RingInv /\ [RingNext]_ringVars => RingInv'
  BY RingStep
<1>3. RingInv => RingShape
  BY ListShape DEF RingInv
<1> QED
  BY <1>1, <1>2, <1>3, PTL DEF RingSpec

(* Any number of threads: insertion, removal and selection on the linked   *)
(* list are those of a queue in order of arrival, searched once around.    *)
THEOREM RingImplementsRunQueue == RingSpec => ImplementsRunQueue
<1>1. RingInit => RingInv
  BY RingInitLists, EmptySeq DEF RingInv
<1>2. RingInit => Queue!Init
  <2>1. <<>> \in Seq(Threads)
    OBVIOUS
  <2> QED
    BY <2>1, RingInitLists, RingIs DEF RingInit, Queue!Init, Queue!NoQuestion
<1>3. RingInv /\ [RingNext]_ringVars => RingInv' /\ [Queue!Next]_<<Ring, picked>>
  BY RingStep
<1> QED
  BY <1>1, <1>2, <1>3, PTL DEF RingSpec, ImplementsRunQueue, Queue!Spec

-----------------------------------------------------------------------------
(* The system call stub.                                                   *)

(* A handler takes each argument from where the wrapper put it.            *)
LEMMA HandlerArguments ==
  ASSUME NEW c \in Stub!Handled \ Stub!Misread, NEW m \in DOMAIN Stub!Handlers[c]
  PROVE  /\ Stub!Handlers[c][m] \in 1 .. 5
         /\ Stub!Handlers[c][m] \in DOMAIN Stub!Library[c]
         /\ Stub!Library[c][Stub!Handlers[c][m]] = m
<1> USE DEF Stub!Handlers, Stub!Library
<1>1. c \in {"exit", "yield", "draw_pixel", "fill_rect", "draw_string", "get_tick",
             "draw_desktop", "draw_taskbar", "draw_window", "draw_window_text"}
  BY DEF Stub!Handled, Stub!Misread
<1>2. CASE c = "exit"
  BY <1>2
<1>3. CASE c = "yield"
  BY <1>3
<1>4. CASE c = "draw_pixel"
  BY <1>4
<1>5. CASE c = "fill_rect"
  BY <1>5
<1>6. CASE c = "draw_string"
  BY <1>6
<1>7. CASE c = "get_tick"
  BY <1>7
<1>8. CASE c = "draw_desktop"
  BY <1>8
<1>9. CASE c = "draw_taskbar"
  BY <1>9
<1>10. CASE c = "draw_window"
  BY <1>10
<1>11. CASE c = "draw_window_text"
  BY <1>11
<1> QED
  BY <1>1, <1>2, <1>3, <1>4, <1>5, <1>6, <1>7, <1>8, <1>9, <1>10, <1>11

(* No wrapper has more arguments than there are registers for them.        *)
LEMMA FewArguments == \A c \in Stub!Calls : DOMAIN Stub!Library[c] \subseteq 1 .. 5
BY DEF Stub!Calls, Stub!Library

LEMMA ArgumentRegisters ==
  /\ \A k \in 1 .. 5 : Stub!ArgRegs[k] \in Stub!Regs /\ Stub!ArgRegs[k] # "eax"
  /\ \A k, l \in 1 .. 5 : Stub!ArgRegs[k] = Stub!ArgRegs[l] => k = l
  /\ Stub!Range(Stub!ArgRegs) = {"ebx", "ecx", "edx", "esi", "edi"}
  /\ Stub!Regs = {"eax", "ebp", "ebx", "ecx", "edx", "esi", "edi", "ds", "es", "fs", "gs"}
<1>1. DOMAIN Stub!ArgRegs = 1 .. 5
  BY DEF Stub!ArgRegs
<1>2. Stub!Range(Stub!ArgRegs) = {Stub!ArgRegs[k] : k \in 1 .. 5}
  BY <1>1 DEF Stub!Range
<1>3. Stub!Range(Stub!ArgRegs) = {"ebx", "ecx", "edx", "esi", "edi"}
  BY <1>2 DEF Stub!ArgRegs
<1>4. Stub!Regs = {"eax", "ebp", "ebx", "ecx", "edx", "esi", "edi", "ds", "es", "fs", "gs"}
  BY <1>3 DEF Stub!Regs, Stub!Segments
<1>5. \A k \in 1 .. 5 : Stub!ArgRegs[k] \in Stub!Range(Stub!ArgRegs)
  BY <1>2
<1>6. \A k, l \in 1 .. 5 : Stub!ArgRegs[k] = Stub!ArgRegs[l] => k = l
  BY DEF Stub!ArgRegs
<1> QED
  BY <1>3, <1>4, <1>5, <1>6

(* The number and the arguments are where the stub expects them.           *)
LEMMA WrapperCarries ==
  ASSUME Stub!StubInv, Stub!Wrapper
  PROVE  Stub!StubInv'
<1>1. /\ at = "user" /\ call' \in Stub!Calls /\ before' = regs' /\ at' = "entry"
      /\ stub_stack' = stub_stack /\ stub_stack = <<>> /\ DOMAIN regs' = Stub!Regs
  BY DEF Stub!Wrapper, Stub!StubInv
<1>2. regs'["eax"] = call'
  <2>1. "eax" \in Stub!Regs /\ \A k \in DOMAIN Stub!Library[call'] : Stub!ArgRegs[k] # "eax"
    BY <1>1, FewArguments, ArgumentRegisters
  <2> QED
    BY <2>1 DEF Stub!Wrapper
<1>3. ASSUME NEW k \in DOMAIN Stub!Library[call']
      PROVE  regs'[Stub!ArgRegs[k]] = Stub!Library[call'][k]
  <2>1. k \in 1 .. 5 /\ DOMAIN Stub!Library[call'] \subseteq 1 .. 5
    BY <1>1, <1>3, FewArguments
  <2> DEFINE r == Stub!ArgRegs[k]
             source == CHOOSE l \in DOMAIN Stub!Library[call'] : Stub!ArgRegs[l] = r
  <2>2. r \in Stub!Regs /\ r # "eax"
    BY <2>1, ArgumentRegisters
  <2>3. source = k
    <3>1. source \in DOMAIN Stub!Library[call'] /\ Stub!ArgRegs[source] = r
      BY <1>3
    <3> QED
      BY <2>1, <3>1, ArgumentRegisters
  <2>4. regs'[r] = Stub!Library[call'][source]
    BY <1>3, <2>2 DEF Stub!Wrapper
  <2> QED
    BY <2>3, <2>4
<1> QED
  BY <1>1, <1>2, <1>3 DEF Stub!StubInv, Stub!Carried, Stub!StubTransparent

LEMMA SaveInv == Stub!StubInv /\ Stub!Save => Stub!StubInv'
<1> SUFFICES ASSUME Stub!StubInv, Stub!Save PROVE Stub!StubInv'
  OBVIOUS
<1>1. /\ at = "entry" /\ at' = "saved" /\ regs = before /\ stub_stack = <<>>
      /\ UNCHANGED <<call, before, used, result>>
      /\ DOMAIN regs' = Stub!Regs
  BY DEF Stub!Save, Stub!StubInv
<1>2. stub_stack' = Stub!SavedWords
  <2>1. stub_stack' = Stub!PushedOf(Stub!SavedOrder) \o <<>>
    BY <1>1 DEF Stub!Save
  <2>2. Stub!PushedOf(Stub!SavedOrder) = Stub!SavedWords
    BY <1>1 DEF Stub!PushedOf, Stub!SavedWords, Stub!SavedOrder
  <2>3. PICK S : \A k \in 1 .. 10 : before[Stub!SavedOrder[k]] \in S
    <3>1. \A k \in 1 .. 10 : before[Stub!SavedOrder[k]] \in {before[Stub!SavedOrder[l]] : l \in 1 .. 10}
      OBVIOUS
    <3> QED
      BY <3>1
  <2>4. Stub!SavedWords \in Seq(S)
    BY <2>3 DEF Stub!SavedWords
  <2> QED
    BY <2>1, <2>2, <2>4
<1>3. regs'["ebp"] = before'["eax"] /\ \A r \in Stub!Range(Stub!ArgRegs) : regs'[r] = before'[r]
  BY <1>1, ArgumentRegisters DEF Stub!Save, Stub!Segments
<1>4. Stub!Carried'
  BY <1>1 DEF Stub!StubInv, Stub!Carried
<1>5. Stub!SavedWords' = Stub!SavedWords
  BY <1>1 DEF Stub!SavedWords
<1> QED
  BY <1>1, <1>2, <1>3, <1>4, <1>5 DEF Stub!StubInv, Stub!StubTransparent

(* What the stub pushes is a sequence, of six words over ten.              *)
LEMMA StackWords ==
  /\ Len(Stub!ParamWords) = 6 /\ Len(Stub!SavedWords) = 10
  /\ \E S : Stub!ParamWords \in Seq(S) /\ Stub!SavedWords \in Seq(S)
<1> DEFINE S == {before[r] : r \in Stub!Regs}
<1>1. Stub!ParamWords \in Seq(S)
  BY ArgumentRegisters DEF Stub!ParamWords
<1>2. Len(Stub!ParamWords) = 6
  BY DEF Stub!ParamWords
<1>3. \A k \in 1 .. 10 : Stub!SavedOrder[k] \in Stub!Regs
  BY ArgumentRegisters DEF Stub!SavedOrder
<1>4. Stub!SavedWords \in Seq(S) /\ Len(Stub!SavedWords) = 10
  BY <1>3 DEF Stub!SavedWords
<1> HIDE DEF S
<1> QED
  BY <1>1, <1>2, <1>4

LEMMA WordsOnStack ==
  ASSUME stub_stack = Stub!ParamWords \o Stub!SavedWords
  PROVE  /\ \A k \in 1 .. 6 : stub_stack[k] = Stub!ParamWords[k]
         /\ SubSeq(stub_stack, 7, Len(stub_stack)) = Stub!SavedWords
<1>1. PICK S : Stub!ParamWords \in Seq(S) /\ Stub!SavedWords \in Seq(S)
  BY StackWords
<1>2. /\ Len(stub_stack) = Len(Stub!ParamWords) + Len(Stub!SavedWords)
      /\ \A k \in 1 .. Len(Stub!ParamWords) : stub_stack[k] = Stub!ParamWords[k]
  BY <1>1, ConcatParts
<1>3. Len(stub_stack) = 16
  BY <1>2, StackWords
<1>4. ASSUME NEW a, NEW b, a = Len(Stub!ParamWords) + 1,
             b = Len(Stub!ParamWords) + Len(Stub!SavedWords)
      PROVE  SubSeq(stub_stack, a, b) = Stub!SavedWords
  BY <1>1, <1>4, ConcatTail
<1>5. \A k \in 1 .. 6 : stub_stack[k] = Stub!ParamWords[k]
  BY <1>2, StackWords
<1>6. SubSeq(stub_stack, 7, 16) = Stub!SavedWords
  <2>1. 7 = Len(Stub!ParamWords) + 1 /\ 16 = Len(Stub!ParamWords) + Len(Stub!SavedWords)
    BY StackWords
  <2> QED
    BY <1>4, <2>1
<1> QED
  BY <1>3, <1>5, <1>6

LEMMA PushParamsInv == Stub!StubInv /\ Stub!PushParams => Stub!StubInv'
<1> SUFFICES ASSUME Stub!StubInv, Stub!PushParams PROVE Stub!StubInv'
  OBVIOUS
<1>1. /\ at = "saved" /\ at' = "dispatch" /\ Stub!Carried /\ DOMAIN regs = Stub!Regs /\ call \in Stub!Calls
      /\ stub_stack = Stub!SavedWords
      /\ regs["ebp"] = before["eax"] /\ \A r \in Stub!Range(Stub!ArgRegs) : regs[r] = before[r]
      /\ UNCHANGED <<regs, call, before, used, result>>
      /\ stub_stack' = Stub!PushedOf(Stub!ParamOrder) \o stub_stack
  BY DEF Stub!PushParams, Stub!StubInv
<1>2. Stub!PushedOf(Stub!ParamOrder) = Stub!ParamWords
  <2> DEFINE S == {before[r] : r \in Stub!Regs}
             pushed == Stub!PushedOf(Stub!ParamOrder)
  <2>1. pushed = [k \in 1 .. 6 |-> regs[Stub!ParamOrder[k]]]
    BY DEF Stub!PushedOf, Stub!ParamOrder
  <2>2. /\ pushed[1] = before["eax"] /\ pushed[2] = before["ebx"] /\ pushed[3] = before["ecx"]
        /\ pushed[4] = before["edx"] /\ pushed[5] = before["esi"] /\ pushed[6] = before["edi"]
    BY <1>1, <2>1, ArgumentRegisters DEF Stub!ParamOrder
  <2>3. /\ Len(Stub!ParamWords) = 6
        /\ Stub!ParamWords[1] = before["eax"] /\ Stub!ParamWords[2] = before["ebx"]
        /\ Stub!ParamWords[3] = before["ecx"] /\ Stub!ParamWords[4] = before["edx"]
        /\ Stub!ParamWords[5] = before["esi"] /\ Stub!ParamWords[6] = before["edi"]
    BY DEF Stub!ParamWords
  <2>4. Stub!ParamWords \in Seq(S)
    BY ArgumentRegisters DEF Stub!ParamWords
  <2>4a. /\ before["eax"] \in S /\ before["ebx"] \in S /\ before["ecx"] \in S
         /\ before["edx"] \in S /\ before["esi"] \in S /\ before["edi"] \in S
    BY ArgumentRegisters
  <2> HIDE DEF S, pushed
  <2>5. \A k \in 1 .. 6 : pushed[k] = Stub!ParamWords[k] /\ Stub!ParamWords[k] \in S
    <3>1. \A k \in 1 .. 6 : pushed[k] = Stub!ParamWords[k]
      BY <2>2, <2>3
    <3>2. \A k \in 1 .. 6 : Stub!ParamWords[k] \in S
      BY <2>3, <2>4a
    <3> QED
      BY <3>1, <3>2
  <2>6. pushed \in Seq(S) /\ Len(pushed) = 6
    BY <2>1, <2>5
  <2>7. PICK p : p = Stub!ParamWords
    OBVIOUS
  <2>8. p \in Seq(S) /\ Len(p) = Len(pushed) /\ \A k \in 1 .. Len(pushed) : pushed[k] = p[k]
    BY <2>3, <2>4, <2>5, <2>6, <2>7
  <2>9. pushed = p
    BY <2>6, <2>8, SeqEqual
  <2> QED
    BY <2>7, <2>9 DEF pushed
<1>3. stub_stack' = Stub!ParamWords' \o Stub!SavedWords'
  BY <1>1, <1>2 DEF Stub!ParamWords, Stub!SavedWords
<1>4. Stub!Carried'
  BY <1>1 DEF Stub!Carried
<1> QED
  BY <1>1, <1>3, <1>4 DEF Stub!StubInv, Stub!StubTransparent

(* The dispatcher, which finds the number and the arguments on the stack.  *)
LEMMA DispatchInv == Stub!StubInv /\ Stub!Dispatch => Stub!StubInv'
<1> SUFFICES ASSUME Stub!StubInv, Stub!Dispatch PROVE Stub!StubInv'
  OBVIOUS
<1>1. /\ at = "dispatch" /\ Stub!Carried /\ call \in Stub!Calls
      /\ stub_stack = Stub!ParamWords \o Stub!SavedWords
      /\ UNCHANGED <<stub_stack, call, before>>
  BY DEF Stub!Dispatch, Stub!StubInv
<1>2. at' \in {"gone", "dispatched"} /\ DOMAIN regs' = Stub!Regs
  BY DEF Stub!Dispatch, Stub!StubInv, Stub!Clobbered
<1>3. \A k \in 1 .. 6 : stub_stack[k] = Stub!ParamWords[k]
  BY <1>1, WordsOnStack
<1>4. stub_stack[1] = call /\ \A k \in 1 .. 5 : stub_stack[1 + k] = before[Stub!ArgRegs[k]]
  <2>1. /\ Stub!ParamWords[1] = before["eax"] /\ Stub!ParamWords[2] = before["ebx"]
        /\ Stub!ParamWords[3] = before["ecx"] /\ Stub!ParamWords[4] = before["edx"]
        /\ Stub!ParamWords[5] = before["esi"] /\ Stub!ParamWords[6] = before["edi"]
    BY DEF Stub!ParamWords
  <2>2. /\ Stub!ArgRegs[1] = "ebx" /\ Stub!ArgRegs[2] = "ecx" /\ Stub!ArgRegs[3] = "edx"
        /\ Stub!ArgRegs[4] = "esi" /\ Stub!ArgRegs[5] = "edi"
    BY DEF Stub!ArgRegs
  <2>3. stub_stack[1] = call
    <3>1. stub_stack[1] = Stub!ParamWords[1]
      BY <1>3
    <3> QED
      BY <1>1, <2>1, <3>1 DEF Stub!Carried
  <2>4. /\ stub_stack[1 + 1] = before["ebx"] /\ stub_stack[1 + 2] = before["ecx"]
        /\ stub_stack[1 + 3] = before["edx"] /\ stub_stack[1 + 4] = before["esi"]
        /\ stub_stack[1 + 5] = before["edi"]
    BY <1>3, <2>1
  <2> QED
    BY <2>2, <2>3, <2>4
<1>5. ASSUME call \notin Stub!Misread, NEW m \in DOMAIN used' PROVE used'[m] = m
  <2>1. CASE call \in Stub!Handled
    <3>1. used' = [n \in DOMAIN Stub!Handlers[call] |-> stub_stack[1 + Stub!Handlers[call][n]]]
      BY <1>4, <2>1 DEF Stub!Dispatch
    <3>2. m \in DOMAIN Stub!Handlers[call]
      BY <3>1, <1>5
    <3>3. /\ Stub!Handlers[call][m] \in 1 .. 5
          /\ Stub!Handlers[call][m] \in DOMAIN Stub!Library[call]
          /\ Stub!Library[call][Stub!Handlers[call][m]] = m
      BY <1>5, <2>1, <3>2, HandlerArguments
    <3> QED
      BY <1>1, <1>4, <3>1, <3>2, <3>3 DEF Stub!Carried
  <2>2. CASE call \notin Stub!Handled
    <3>1. used' = <<>>
      BY <1>4, <2>2 DEF Stub!Dispatch
    <3> QED
      BY <1>5, <3>1
  <2> QED
    BY <2>1, <2>2
<1>6. stub_stack' = Stub!ParamWords' \o Stub!SavedWords' /\ Stub!Carried'
  BY <1>1 DEF Stub!Carried, Stub!ParamWords, Stub!SavedWords
<1> QED
  BY <1>1, <1>2, <1>5, <1>6 DEF Stub!StubInv, Stub!StubTransparent

(* The way back: exactly the parameters are dropped.                       *)
LEMMA UnpushInv == Stub!StubInv /\ Stub!Unpush => Stub!StubInv'
<1> SUFFICES ASSUME Stub!StubInv, Stub!Unpush PROVE Stub!StubInv'
  OBVIOUS
<1>1. /\ at = "dispatched" /\ at' = "restore" /\ Stub!Carried /\ DOMAIN regs = Stub!Regs
      /\ call \in Stub!Calls
      /\ stub_stack = Stub!ParamWords \o Stub!SavedWords
      /\ stub_stack' = SubSeq(stub_stack, 7, Len(stub_stack))
      /\ UNCHANGED <<regs, call, before, used, result>>
  BY DEF Stub!Unpush, Stub!DropParams, Stub!StubInv
<1>2. stub_stack' = Stub!SavedWords
  BY <1>1, WordsOnStack
<1>3. Stub!Carried' /\ Stub!SavedWords' = Stub!SavedWords
  BY <1>1 DEF Stub!Carried, Stub!SavedWords
<1> QED
  BY <1>1, <1>2, <1>3 DEF Stub!StubInv, Stub!StubTransparent

(* ... and every register but EAX gets the caller's value back.            *)
LEMMA RestoreInv == Stub!StubInv /\ Stub!Restore => Stub!StubInv'
<1> SUFFICES ASSUME Stub!StubInv, Stub!Restore PROVE Stub!StubInv'
  OBVIOUS
<1>1. /\ at = "restore" /\ at' = "dump" /\ Stub!Carried /\ DOMAIN regs' = Stub!Regs
      /\ call \in Stub!Calls
      /\ stub_stack = Stub!SavedWords
      /\ UNCHANGED <<call, before, used, result>>
  BY DEF Stub!Restore, Stub!StubInv
<1>2. Len(Stub!RestoredOrder) = 10 /\ DOMAIN Stub!RestoredOrder = 1 .. 10
      /\ Stub!SavedOrder = Stub!RestoredOrder
  BY DEF Stub!RestoredOrder, Stub!SavedOrder
<1>3. stub_stack' = <<>>
  <2>1. PICK S : Stub!SavedWords \in Seq(S)
    BY StackWords
  <2>2. stub_stack' = SubSeq(Stub!SavedWords, 11, 10)
    BY <1>1, <1>2, StackWords DEF Stub!Restore
  <2> QED
    BY <2>1, <2>2
<1>4. ASSUME NEW r \in Stub!Regs \ {"eax"} PROVE regs'[r] = before'[r]
  <2> DEFINE k == CHOOSE k \in DOMAIN Stub!RestoredOrder : Stub!RestoredOrder[k] = r
  <2>1. \E j \in 1 .. 10 : Stub!RestoredOrder[j] = r
    <3>1. r \in {"ebp", "ebx", "ecx", "edx", "esi", "edi", "ds", "es", "fs", "gs"}
      BY <1>4, ArgumentRegisters
    <3>2. /\ Stub!RestoredOrder[1] = "gs" /\ Stub!RestoredOrder[2] = "fs"
          /\ Stub!RestoredOrder[3] = "es" /\ Stub!RestoredOrder[4] = "ds"
          /\ Stub!RestoredOrder[5] = "ebx" /\ Stub!RestoredOrder[6] = "ecx"
          /\ Stub!RestoredOrder[7] = "edx" /\ Stub!RestoredOrder[8] = "esi"
          /\ Stub!RestoredOrder[9] = "edi" /\ Stub!RestoredOrder[10] = "ebp"
      BY DEF Stub!RestoredOrder
    <3> QED
      BY <3>1, <3>2
  <2>2. k \in 1 .. 10 /\ Stub!RestoredOrder[k] = r
    BY <1>2, <2>1
  <2>3. regs'[r] = stub_stack[k]
    BY <1>4 DEF Stub!Restore
  <2>4. stub_stack[k] = before[Stub!SavedOrder[k]]
    BY <1>1, <2>2 DEF Stub!SavedWords
  <2> QED
    BY <1>1, <1>2, <2>2, <2>3, <2>4
<1>5. Stub!Carried'
  BY <1>1 DEF Stub!Carried
<1> QED
  BY <1>1, <1>3, <1>4, <1>5 DEF Stub!StubInv, Stub!StubTransparent

LEMMA ReturnInv == Stub!StubInv /\ (Stub!DumpStack \/ Stub!Iret) => Stub!StubInv'
<1> SUFFICES ASSUME Stub!StubInv, Stub!DumpStack \/ Stub!Iret PROVE Stub!StubInv'
  OBVIOUS
<1>1. Stub!Carried'
  BY DEF Stub!StubInv, Stub!DumpStack, Stub!Iret, Stub!Carried
<1>2. CASE Stub!DumpStack
  <2>1. /\ at = "dump" /\ at' = "iret" /\ stub_stack' = <<>> /\ call' \in Stub!Calls
        /\ DOMAIN regs' = Stub!Regs
        /\ \A r \in Stub!Regs \ Stub!CallerSaved : regs'[r] = before'[r]
    BY <1>2 DEF Stub!DumpStack, Stub!StubInv, Stub!Clobbered, Stub!CallerSaved
  <2> QED
    BY <1>1, <2>1 DEF Stub!StubInv, Stub!StubTransparent
<1>3. CASE Stub!Iret
  BY <1>3 DEF Stub!Iret, Stub!StubInv, Stub!StubTransparent
<1> QED
  BY <1>2, <1>3

LEMMA StubUnchanged == Stub!StubInv /\ UNCHANGED stubVars => Stub!StubInv'
BY DEF stubVars, Stub!StubInv, Stub!StubTransparent, Stub!Carried, Stub!SavedWords, Stub!ParamWords

(* Whatever the call and whatever the registers hold, every handler works  *)
(* on the arguments its wrapper was given (but for the three of Misread),  *)
(* and the stub gives the stack and the registers of the caller back.      *)
THEOREM StubTransparentAlways == Stub!Spec => []StubTransparent
<1>1. Stub!Init => Stub!StubInv
  BY DEF Stub!Init, Stub!StubInv, Stub!StubTransparent, Stub!Calls, Stub!Library
<1>2. Stub!StubInv /\ [Stub!Next]_(Stub!vars) => Stub!StubInv'
  BY WrapperCarries, SaveInv, PushParamsInv, DispatchInv, UnpushInv, RestoreInv, ReturnInv,
     StubUnchanged DEF Stub!Next, Stub!Gone, Stub!vars, stubVars
<1>3. Stub!StubInv => StubTransparent
  BY DEF Stub!StubInv, StubTransparent
<1> QED
  BY <1>1, <1>2, <1>3, PTL DEF Stub!Spec

-----------------------------------------------------------------------------
(* The clock of the taskbar.                                               *)

(* What a second does to the registers.                                    *)
LEMMA LaterFacts ==
  ASSUME NEW t \in Clock!Times
  PROVE  /\ Clock!Later(t) \in Clock!Times
         /\ Clock!Later(t)[1] = 0 \/ Clock!Later(t)[1] = t[1] + 1
         /\ Clock!Later(t)[1] # 0 => \A k \in 2 .. 6 : Clock!Later(t)[k] = t[k]
<1>1. \A k \in 1 .. 6 : t[k] \in 0 .. RADIX - 1
  BY DEF Clock!Times
<1>2. ASSUME NEW k \in 1 .. 6, NEW v, v = t[k]
      PROVE  (IF v < RADIX - 1 THEN v + 1 ELSE 0) \in 0 .. RADIX - 1
  BY <1>1, <1>2, RadixAssumption
<1>3. Clock!Later(t) \in Clock!Times
  BY <1>1, <1>2 DEF Clock!Later, Clock!Times
<1>4. Clock!Later(t)[1] = IF t[1] < RADIX - 1 THEN t[1] + 1 ELSE 0
  BY DEF Clock!Later
<1>5. ASSUME t[1] < RADIX - 1, NEW k \in 2 .. 6 PROVE Clock!Later(t)[k] = t[k]
  <2>1. 1 \in 1 .. k - 1 /\ k \in 1 .. 6
    OBVIOUS
  <2> QED
    BY <1>5, <2>1 DEF Clock!Later
<1> QED
  BY <1>3, <1>4, <1>5

(* The register to be read next.                                           *)
LEMMA ValueRead ==
  ASSUME time \in Clock!Times, reading \in Seq(0 .. RADIX - 1), Len(reading) <= 5
  PROVE  Clock!Value = time[Len(reading) + 1] /\ Clock!Value \in 0 .. RADIX - 1
<1>1. Len(reading) + 1 \in 1 .. 6
  OBVIOUS
<1>2. \A k \in 1 .. 6 : Clock!Registers[k] = k
  BY DEF Clock!Registers
<1> QED
  BY <1>1, <1>2 DEF Clock!Value, Clock!Times

LEMMA SecondInv == Clock!ClockInv /\ Clock!Second => Clock!ClockInv'
<1> SUFFICES ASSUME Clock!ClockInv, Clock!Second PROVE Clock!ClockInv'
  OBVIOUS
<1>1. /\ time \in Clock!Times /\ began \in Clock!Times
      /\ reading \in Seq(0 .. RADIX - 1) /\ Len(reading) <= 5
      /\ reading # <<>> => time = began
      /\ time' = Clock!Later(time) /\ reading' = reading /\ began' = began
  BY DEF Clock!ClockInv, Clock!Second
<1>2. time' \in Clock!Times
  BY <1>1, LaterFacts
<1>3. CASE reading = <<>>
  BY <1>1, <1>2, <1>3 DEF Clock!ClockInv
<1>4. CASE reading # <<>>
  <2>1. time = began /\ \A k \in 1 .. Len(reading) : reading[k] = began[k]
    BY <1>1, <1>4 DEF Clock!ClockInv, Clock!NoCarry
  <2>2. time' = began \/ Clock!NoCarry' \/ (time' # began /\ time'[1] = 0)
    BY <1>1, <2>1, LaterFacts DEF Clock!NoCarry
  <2>3. Clock!NoCarry' \/ (time' # began' /\ time'[1] = 0)
    BY <1>1, <2>2 DEF Clock!NoCarry
  <2> QED
    BY <1>1, <1>2, <2>1, <2>3 DEF Clock!ClockInv
<1> QED
  BY <1>3, <1>4

(* A register read between two that did not move, or before they did.      *)
LEMMA ReadRegisterInv == Clock!ClockInv /\ Clock!ReadRegister => Clock!ClockInv'
<1> SUFFICES ASSUME Clock!ClockInv, Clock!ReadRegister PROVE Clock!ClockInv'
  OBVIOUS
<1> DEFINE D == 0 .. RADIX - 1
           n == Len(reading)
<1>1. /\ time \in Clock!Times /\ began \in Clock!Times
      /\ reading \in Seq(D) /\ n < 5 /\ n \in Nat
      /\ time' = time /\ reading' = Append(reading, Clock!Value)
      /\ began' = IF reading = <<>> THEN time ELSE began
  BY DEF Clock!ClockInv, Clock!ReadRegister
<1>2. Clock!Value = time[n + 1] /\ Clock!Value \in D
  BY <1>1, ValueRead
<1>3. /\ reading' \in Seq(D) /\ Len(reading') = n + 1 /\ reading'[n + 1] = time[n + 1]
      /\ \A k \in 1 .. n : reading'[k] = reading[k]
  <2> HIDE DEF D
  <2> QED
    BY <1>1, <1>2
<1>4. CASE reading = <<>>
  <2>1. n = 0 /\ began' = time
    BY <1>1, <1>4
  <2>2. \A k \in 1 .. Len(reading') : reading'[k] = began'[k]
    BY <1>3, <2>1
  <2> QED
    BY <1>1, <1>3, <2>1, <2>2 DEF Clock!ClockInv, Clock!NoCarry
<1>5. CASE reading # <<>>
  <2>1. n >= 1 /\ began' = began
    BY <1>1, <1>5
  <2>2. Clock!NoCarry' => Clock!NoCarry
    BY <1>1, <2>1 DEF Clock!NoCarry
  <2>3. ASSUME Clock!NoCarry, NEW k \in 1 .. n + 1 PROVE reading'[k] = began[k]
    <3>1. CASE k \in 1 .. n
      BY <1>3, <2>3, <3>1 DEF Clock!ClockInv
    <3>2. CASE k = n + 1
      <4>1. n + 1 \in 2 .. 6
        BY <1>1, <2>1
      <4> QED
        BY <1>3, <2>3, <3>2, <4>1 DEF Clock!NoCarry
    <3> QED
      BY <1>1, <3>1, <3>2
  <2>4. Clock!NoCarry' \/ (time' # began' /\ time'[1] = 0)
    BY <1>1, <1>5, <2>1 DEF Clock!ClockInv, Clock!NoCarry
  <2> QED
    BY <1>1, <1>3, <2>1, <2>2, <2>3, <2>4 DEF Clock!ClockInv
<1> QED
  BY <1>4, <1>5

LEMMA RefreshInv == Clock!ClockInv /\ Clock!Refresh => Clock!ClockInv'
<1> SUFFICES ASSUME Clock!ClockInv, Clock!Refresh PROVE Clock!ClockInv'
  OBVIOUS
<1>1. /\ time' = time /\ began' = began /\ reading' = <<>>
      /\ time \in Clock!Times /\ began \in Clock!Times
  BY DEF Clock!ClockInv, Clock!Refresh
<1> QED
  BY <1>1 DEF Clock!ClockInv

(* What is drawn is the time the reading began, unless a minute began.     *)
LEMMA RefreshShows ==
  ASSUME Clock!ClockInv, Clock!Refresh
  PROVE  shown' = began \/ (time # began /\ time[1] = 0)
<1> DEFINE D == 0 .. RADIX - 1
<1>1. /\ time \in Clock!Times /\ began \in Clock!Times
      /\ reading \in Seq(D) /\ Len(reading) = 5 /\ reading # <<>>
      /\ shown' = Append(reading, Clock!Value)
  BY DEF Clock!ClockInv, Clock!Refresh
<1>2. Clock!NoCarry \/ (time # began /\ time[1] = 0)
  BY <1>1 DEF Clock!ClockInv
<1>3. Clock!Value = time[6] /\ Clock!Value \in D
  BY <1>1, ValueRead
<1>4. ASSUME Clock!NoCarry PROVE shown' = began
  <2>1. \A k \in 1 .. 5 : reading[k] = began[k]
    BY <1>1, <1>4 DEF Clock!ClockInv
  <2>2. time[6] = began[6]
    BY <1>4 DEF Clock!NoCarry
  <2>3. shown' \in Seq(D) /\ Len(shown') = 6 /\ shown'[6] = time[6]
        /\ \A k \in 1 .. 5 : shown'[k] = reading[k]
    <3> DEFINE n == Len(reading)
    <3>1. /\ shown' \in Seq(D) /\ Len(shown') = n + 1 /\ shown'[n + 1] = Clock!Value
          /\ \A k \in 1 .. n : shown'[k] = reading[k]
      <4>1. reading \in Seq(D) /\ shown' = Append(reading, Clock!Value) /\ Clock!Value \in D
        BY <1>1, <1>3
      <4> HIDE DEF D
      <4> QED
        BY <4>1
    <3>2. n = 5 /\ n + 1 = 6
      BY <1>1
    <3> QED
      BY <1>3, <3>1, <3>2
  <2>4. \A k \in 1 .. 6 : shown'[k] = began[k]
    BY <2>1, <2>2, <2>3
  <2>5. began \in Seq(D) /\ Len(began) = 6
    <3>1. began \in [1 .. 6 -> D] /\ 6 \in Nat
      BY <1>1 DEF Clock!Times
    <3> HIDE DEF D
    <3>2. began = [k \in 1 .. 6 |-> began[k]] /\ \A k \in 1 .. 6 : began[k] \in D
      BY <3>1
    <3>3. [k \in 1 .. 6 |-> began[k]] \in Seq(D) /\ Len([k \in 1 .. 6 |-> began[k]]) = 6
      BY <3>2
    <3> QED
      BY <3>2, <3>3
  <2> HIDE DEF D
  <2> QED
    BY <2>3, <2>4, <2>5, SeqEqual
<1> QED
  BY <1>2, <1>4

(* Whatever the time and whenever the chip goes on, the taskbar shows the  *)
(* time the reading began, unless a minute began in the middle of it.      *)
THEOREM ShownWasTimeAlways == Clock!ClockSpec => ShownWasTime
<1>1. Clock!ClockInit => Clock!ClockInv
  BY DEF Clock!ClockInit, Clock!ClockInv
<1>2. Clock!ClockInv /\ [Clock!ClockNext]_(Clock!clockVars) => Clock!ClockInv'
  <2>1. Clock!ClockInv /\ UNCHANGED Clock!clockVars => Clock!ClockInv'
    BY DEF Clock!clockVars, Clock!ClockInv, Clock!NoCarry
  <2> QED
    BY <2>1, SecondInv, ReadRegisterInv, RefreshInv DEF Clock!ClockNext
<1>3. Clock!ClockInv => [Clock!Refresh => shown' = began \/ (time # began /\ time[1] = 0)]_(Clock!clockVars)
  BY RefreshShows
<1> QED
  BY <1>1, <1>2, <1>3, PTL DEF Clock!ClockSpec, ShownWasTime, Clock!ShownWasTime

-----------------------------------------------------------------------------
(* The address spaces of vmm.c: what a created process sees is what was    *)
(* mapped for it, and nobody else's.                                       *)
(*                                                                         *)
(* The argument is about owners: the kernel, 0, and the processes that     *)
(* have a directory.  A frame is used by at most one owner in one role,    *)
(* because every frame is taken from free and never given back; only when  *)
(* the pool has run dry does a process share a table of the kernel, and    *)
(* then under the same index, where every page maps to itself.             *)

Jobs == {"vmm_init", "identity", "next", "create_directory", "clone", "code",
         "stack", "map", "thunk"}
ForUser == {"create_directory", "clone", "code", "stack", "map", "thunk"}

VmmTypeOK ==
  /\ mem \in [PoolFrames -> [Indices -> [frame : Nat, flags : SUBSET Flags]]]
  /\ free \subseteq PoolFrames
  /\ g_kernel_dir \in Nat
  /\ job \in Jobs
  /\ i \in Nat
  /\ frame \in Nat
  /\ proc \in 0 .. NUSERS
  /\ page_dir \in [Users -> Nat]
  /\ active \in [Users -> BOOLEAN]
  /\ kstack \in [Users -> Nat]

(* What the loop variables and the process slots are known to be.          *)
Progress ==
  /\ job = "vmm_init" => i = 0
  /\ job \in {"vmm_init", "identity"} => proc = 0
  /\ job \in ForUser => proc \in Users /\ active[proc]
  /\ job = "code" => i >= CODE_START
  /\ job \in {"stack", "map"} => i >= STACK_START
  /\ job = "map" => i \in StackPages
  /\ \A p \in Users : active[p] => p <= proc
  /\ \A p \in Users : kstack[p] \notin free

Live == {p \in Users : active[p] /\ ~(p = proc /\ job = "create_directory")}
Owners == IF job = "vmm_init" THEN {} ELSE {0} \cup Live
DirOf(o) == IF o = 0 THEN g_kernel_dir ELSE page_dir[o]
Entry(o, k) == mem[DirOf(o)][k]
Slot(o, k, j) == mem[Entry(o, k).frame][j]

DirsApart ==
  \A o \in Owners :
    /\ DirOf(o) \in PoolFrames \ free
    /\ \A p \in Owners : DirOf(o) = DirOf(p) => o = p

TablesApart ==
  \A o \in Owners : \A k \in Indices : Present(Entry(o, k)) =>
    /\ Entry(o, k).frame \in PoolFrames \ free
    /\ \A p \in Owners : DirOf(p) # Entry(o, k).frame
    /\ \A p \in Owners : \A l \in Indices :
         Present(Entry(p, l)) /\ Entry(p, l).frame = Entry(o, k).frame =>
           k = l /\ (o = p \/ (k < KERNEL_TABLES /\ free = {}))

KernelOnly == 0 \in Owners => \A k \in Indices : Present(Entry(0, k)) => k < KERNEL_TABLES

(* The kernel's pages, as far as the owner's directory has got.            *)
KernelDone(o, v) ==
  IF o = 0 THEN job = "identity" => v < i /\ free # {}
  ELSE o = proc /\ job = "clone" => Pdi(v) < i

IdentityMapped ==
  \A o \in Owners : \A v \in KernelPages : KernelDone(o, v) =>
    /\ Present(Entry(o, Pdi(v)))
    /\ Present(Slot(o, Pdi(v), Pti(v)))
    /\ Slot(o, Pdi(v), Pti(v)).frame = v

KernelUntouched ==
  0 \in Owners /\ free # {} => \A v \in KernelPages : (job = "identity" => v < i) =>
    Slot(0, Pdi(v), Pti(v)) = Pte(v, {"PRESENT", "WRITABLE"})

CodeDone(p, v) == p = proc => job # "clone" /\ (job = "code" => v < i)

CodeReached ==
  \A p \in Live : \A v \in CodePages : CodeDone(p, v) =>
    "USER" \in Entry(p, Pdi(v)).flags /\ "USER" \in Slot(p, Pdi(v), Pti(v)).flags

(* The stack, but for the page vmm_map_page did not map for want of a      *)
(* table: proc_create_user is then about to give up.                       *)
StackDone(p, v) ==
  p = proc => /\ job \notin {"clone", "code"}
              /\ job \in {"stack", "map"} => v < i
              /\ ~(job = "stack" /\ free = {} /\ i \in StackPages)

StackReached ==
  \A p \in Live : \A v \in StackPages : StackDone(p, v) =>
    /\ Everything \subseteq Entry(p, Pdi(v)).flags
    /\ Everything \subseteq Slot(p, Pdi(v), Pti(v)).flags

FrameAt(p, v) == Slot(p, Pdi(v), Pti(v)).frame

Private(f) ==
  /\ f \in PoolFrames \ free
  /\ \A o \in Owners :
       DirOf(o) # f /\ \A k \in Indices : Present(Entry(o, k)) => Entry(o, k).frame # f
  /\ \A q \in Users : kstack[q] # f

StacksOwn ==
  \A p \in Live : \A v \in StackPages : StackDone(p, v) =>
    /\ Private(FrameAt(p, v))
    /\ \A q \in Live : \A w \in StackPages :
         StackDone(q, w) /\ FrameAt(q, w) = FrameAt(p, v) => p = q /\ v = w

FrameOwn ==
  job = "map" =>
    /\ Private(frame)
    /\ \A p \in Live : \A v \in StackPages : StackDone(p, v) => FrameAt(p, v) # frame

Apart == DirsApart /\ TablesApart /\ KernelOnly
Contents == IdentityMapped /\ KernelUntouched /\ CodeReached /\ StackReached
Ownership == StacksOwn /\ FrameOwn
VmmInv == VmmTypeOK /\ Progress /\ Apart /\ Contents /\ Ownership

-----------------------------------------------------------------------------
(* Page numbers: the two indices are in range, determine the page, and     *)
(* the first one tells the kernel's pages from the others.                 *)
LEMMA PageIndices ==
  ASSUME NEW v \in Pages
  PROVE  /\ Pdi(v) \in Indices /\ Pti(v) \in Indices
         /\ v = Pdi(v) * ENTRIES + Pti(v)
<1>1. ENTRIES \in Nat /\ ENTRIES > 0 /\ v \in Nat /\ v < ENTRIES * ENTRIES
  BY SizesAssumption DEF Pages
<1>2. /\ v \div ENTRIES \in Nat /\ v % ENTRIES \in 0 .. ENTRIES - 1
      /\ v = ENTRIES * (v \div ENTRIES) + (v % ENTRIES)
  BY <1>1
<1>3. v \div ENTRIES < ENTRIES
  BY <1>1, <1>2
<1> QED
  BY <1>1, <1>2, <1>3 DEF Pdi, Pti, Indices

LEMMA PageUnique ==
  ASSUME NEW v \in Pages, NEW w \in Pages, Pdi(v) = Pdi(w), Pti(v) = Pti(w)
  PROVE  v = w
BY PageIndices

LEMMA KernelIndex ==
  ASSUME NEW v \in Pages
  PROVE  v \in KernelPages <=> Pdi(v) < KERNEL_TABLES
<1>1. /\ ENTRIES \in Nat /\ ENTRIES > 0 /\ v \in Nat /\ KERNEL_TABLES \in Nat
  BY SizesAssumption DEF Pages
<1>2. /\ Pdi(v) \in Nat /\ Pti(v) \in 0 .. ENTRIES - 1 /\ v = Pdi(v) * ENTRIES + Pti(v)
  BY <1>1, PageIndices DEF Indices
<1>3. ASSUME Pdi(v) < KERNEL_TABLES PROVE v < KERNEL_TABLES * ENTRIES
  <2>1. Pdi(v) + 1 <= KERNEL_TABLES
    BY <1>1, <1>2, <1>3
  <2>2. (Pdi(v) + 1) * ENTRIES <= KERNEL_TABLES * ENTRIES
    BY <1>1, <1>2, <2>1
  <2> QED
    BY <1>1, <1>2, <2>2
<1>4. ASSUME KERNEL_TABLES <= Pdi(v) PROVE v >= KERNEL_TABLES * ENTRIES
  <2>1. KERNEL_TABLES * ENTRIES <= Pdi(v) * ENTRIES
    BY <1>1, <1>2, <1>4
  <2> QED
    BY <1>1, <1>2, <2>1
<1> QED
  BY <1>1, <1>2, <1>3, <1>4 DEF KernelPages

LEMMA KernelPagesArePages == KernelPages \subseteq Pages
<1>1. KERNEL_TABLES * ENTRIES <= ENTRIES * ENTRIES
  BY SizesAssumption
<1> QED
  BY <1>1, SizesAssumption DEF KernelPages, Pages

-----------------------------------------------------------------------------
(* What vmm_map_page does in the owner's directory: nothing if it needs a  *)
(* table and the pool is dry; otherwise the entry of the directory is      *)
(* there, in its old table or a fresh one, and so is the page.  No other   *)
(* entry changes, but for other owners of the same table.                  *)
Effect(o, v, f, flags) ==
  /\ \A p \in Owners : \A k \in Indices : p # o \/ k # Pdi(v) => Entry(p, k)' = Entry(p, k)
  /\ Present(Entry(o, Pdi(v))) =>
       /\ Present(Entry(o, Pdi(v)))'
       /\ Entry(o, Pdi(v)).frame' = Entry(o, Pdi(v)).frame
       /\ Entry(o, Pdi(v)).flags \subseteq Entry(o, Pdi(v)).flags'
  /\ ~Present(Entry(o, Pdi(v))) /\ Present(Entry(o, Pdi(v)))' =>
       Entry(o, Pdi(v)).frame' \in free \ free'
  /\ ~Present(Entry(o, Pdi(v)))' => free = {}
  /\ Present(Entry(o, Pdi(v)))' =>
       /\ Slot(o, Pdi(v), Pti(v))' = Pte(f, flags)
       /\ "USER" \in flags => flags \cap {"USER", "WRITABLE"} \subseteq Entry(o, Pdi(v)).flags'
  /\ \A p \in Owners : \A k, j \in Indices : Present(Entry(p, k)) =>
       \/ Slot(p, k, j)' = Slot(p, k, j)
       \/ /\ k = Pdi(v) /\ j = Pti(v)
          /\ Slot(p, k, j)' = Pte(f, flags)
          /\ Present(Entry(o, k)) /\ Entry(p, k).frame = Entry(o, k).frame

Mem == [PoolFrames -> [Indices -> [frame : Nat, flags : SUBSET Flags]]]

LEMMA MapPageEffect ==
  ASSUME VmmTypeOK, Apart, NEW o \in Owners, NEW v \in Pages, NEW f \in Nat,
         NEW flags \in SUBSET Flags, MapPage(DirOf(o), v, f, flags),
         UNCHANGED <<g_kernel_dir, page_dir>>
  PROVE  mem' \in Mem /\ free' \subseteq free /\ Effect(o, v, f, flags)
<1> DEFINE d == DirOf(o)
           pde == Entry(o, Pdi(v))
<1>1. /\ Pdi(v) \in Indices /\ Pti(v) \in Indices
      /\ mem \in Mem /\ free \subseteq PoolFrames /\ PoolFrames \subseteq Nat
  BY PageIndices, PlacesAssumption DEF VmmTypeOK, Mem, KernelPages
<1>2. /\ \A p \in Owners : DirOf(p) \in PoolFrames \ free /\ DirOf(p)' = DirOf(p)
      /\ \A p \in Owners : DirOf(p) = d => p = o
  BY DEF Apart, DirsApart, DirOf
<1>3. \A p \in Owners, k \in Indices : Present(Entry(p, k)) =>
        /\ Entry(p, k).frame \in PoolFrames \ free
        /\ Entry(p, k).frame # d
        /\ \A q \in Owners : Entry(p, k).frame # DirOf(q)
        /\ Present(pde) /\ Entry(p, k).frame = pde.frame => k = Pdi(v)
  BY <1>1 DEF Apart, TablesApart
<1>4. pde = mem[d][Pdi(v)] /\ pde \in [frame : Nat, flags : SUBSET Flags]
  <2>1. pde = mem[d][Pdi(v)]
    BY DEF Entry
  <2>2. d \in PoolFrames
    BY <1>2
  <2>3. mem[d] \in [Indices -> [frame : Nat, flags : SUBSET Flags]]
    BY <1>1, <2>2 DEF Mem
  <2>4. mem[d][Pdi(v)] \in [frame : Nat, flags : SUBSET Flags]
    BY <1>1, <2>3
  <2> QED
    BY <2>1, <2>4
<1>5. Pte(f, flags) \in [frame : Nat, flags : SUBSET Flags]
  BY DEF Pte, Flags
<1>6. Promoted(pde, flags) \in [frame : Nat, flags : SUBSET Flags]
      /\ Promoted(pde, flags).frame = pde.frame
      /\ pde.flags \subseteq Promoted(pde, flags).flags
  BY <1>4 DEF Promoted, Flags
<1>7. CASE /\ Present(pde)
           /\ mem' = [mem EXCEPT ![d][Pdi(v)] = Promoted(pde, flags),
                                 ![pde.frame][Pti(v)] = Pte(f, flags)]
           /\ UNCHANGED free
  <2>1. pde.frame \in PoolFrames \ free /\ pde.frame # d /\ d \in PoolFrames
    BY <1>1, <1>2, <1>3, <1>7
  <2>2. mem' \in Mem
    BY <1>1, <1>5, <1>6, <1>7, <2>1 DEF Mem
  <2>3. \A p \in Owners : \A k \in Indices :
          Entry(p, k)' = IF p = o /\ k = Pdi(v) THEN Promoted(pde, flags) ELSE Entry(p, k)
    BY <1>1, <1>2, <1>3, <1>7, <2>1 DEF Entry, Mem
  <2>4. /\ pde' = Promoted(pde, flags)
        /\ Present(pde')
    BY <1>1, <1>6, <1>7, <2>3 DEF Present
  <2>5. \A p \in Owners : \A k \in Indices : Entry(p, k).frame' = Entry(p, k).frame
    BY <1>6, <2>3
  <2>6. \A p \in Owners : \A k, j \in Indices : Present(Entry(p, k)) =>
          Slot(p, k, j)' = IF Entry(p, k).frame = pde.frame /\ j = Pti(v)
                           THEN Pte(f, flags) ELSE Slot(p, k, j)
    <3> SUFFICES ASSUME NEW p \in Owners, NEW k \in Indices, NEW j \in Indices,
                        Present(Entry(p, k))
                 PROVE  Slot(p, k, j)' = IF Entry(p, k).frame = pde.frame /\ j = Pti(v)
                                         THEN Pte(f, flags) ELSE Slot(p, k, j)
      OBVIOUS
    <3> DEFINE t == Entry(p, k).frame
    <3>1. Slot(p, k, j)' = mem'[t][j]
      BY <2>5 DEF Slot
    <3>2. t \in PoolFrames /\ t # d
      BY <1>3
    <3> QED
      BY <1>1, <1>7, <2>1, <3>1, <3>2 DEF Slot, Mem
  <2>7. "USER" \in flags => flags \cap {"USER", "WRITABLE"} \subseteq pde.flags'
    BY <1>4, <2>4 DEF Promoted
  <2> QED
    BY <1>1, <1>3, <1>6, <1>7, <2>2, <2>3, <2>4, <2>5, <2>6, <2>7 DEF Effect
<1>8. CASE ~Present(pde) /\ free = {} /\ UNCHANGED <<mem, free>>
  <2>1. \A p \in Owners : \A k \in Indices : Entry(p, k)' = Entry(p, k)
    BY <1>2, <1>8 DEF Entry
  <2>2. \A p \in Owners : \A k, j \in Indices : Slot(p, k, j)' = Slot(p, k, j)
    BY <1>8, <2>1 DEF Slot
  <2>3. ~Present(pde)'
    BY <1>1, <1>8, <2>1 DEF Present
  <2> QED
    BY <1>1, <1>8, <2>1, <2>2, <2>3 DEF Effect
<1>9. CASE /\ ~Present(pde)
           /\ \E t \in PoolFrames :
                /\ IsLowest(t)
                /\ mem' = [mem EXCEPT
                       ![d][Pdi(v)] = Pte(t, flags \cup {"WRITABLE"}),
                       ![t] = [Cleared EXCEPT ![Pti(v)] = Pte(f, flags)]]
                /\ Taken(t)
  <2>1. PICK t \in PoolFrames :
          /\ IsLowest(t)
          /\ mem' = [mem EXCEPT
                 ![d][Pdi(v)] = Pte(t, flags \cup {"WRITABLE"}),
                 ![t] = [Cleared EXCEPT ![Pti(v)] = Pte(f, flags)]]
          /\ Taken(t)
    BY <1>9
  <2>2. t \in free /\ free' = free \ {t} /\ t # d /\ t \in Nat
    BY <1>1, <1>2, <2>1 DEF IsLowest, Taken
  <2> DEFINE new == Pte(t, flags \cup {"WRITABLE"})
             table == [Cleared EXCEPT ![Pti(v)] = Pte(f, flags)]
  <2>3. /\ new \in [frame : Nat, flags : SUBSET Flags] /\ new.frame = t /\ Present(new)
        /\ flags \subseteq new.flags
    BY <2>2 DEF Pte, Flags, Present
  <2>4. /\ table \in [Indices -> [frame : Nat, flags : SUBSET Flags]]
        /\ table[Pti(v)] = Pte(f, flags)
    BY <1>1, <1>5 DEF Cleared
  <2>5. mem' \in Mem /\ mem'[t] = table
    BY <1>1, <1>2, <2>1, <2>2, <2>3, <2>4 DEF Mem
  <2>6. \A p \in Owners : \A k \in Indices :
          Entry(p, k)' = IF p = o /\ k = Pdi(v) THEN new ELSE Entry(p, k)
    BY <1>1, <1>2, <2>1, <2>2 DEF Entry, Mem
  <2>7. pde' = new
    BY <1>1, <2>6
  <2>8. \A p \in Owners : \A k, j \in Indices : Present(Entry(p, k)) =>
          Slot(p, k, j)' = Slot(p, k, j)
    <3> SUFFICES ASSUME NEW p \in Owners, NEW k \in Indices, NEW j \in Indices,
                        Present(Entry(p, k))
                 PROVE  Slot(p, k, j)' = Slot(p, k, j)
      OBVIOUS
    <3> DEFINE u == Entry(p, k).frame
    <3>1. Entry(p, k)' = Entry(p, k)
      BY <1>9, <2>6
    <3>2. u \in PoolFrames /\ u # d /\ u # t
      BY <1>3, <2>2
    <3>3. mem'[u] = mem[u]
      BY <1>1, <2>1, <3>2 DEF Mem
    <3> QED
      BY <3>1, <3>3 DEF Slot
  <2>9. Slot(o, Pdi(v), Pti(v))' = Pte(f, flags)
    BY <2>3, <2>4, <2>5, <2>7 DEF Slot
  <2>10. Present(pde)' /\ pde.frame' = t /\ flags \subseteq pde.flags'
    BY <2>3, <2>7 DEF Present
  <2> QED
    BY <1>9, <2>2, <2>5, <2>6, <2>8, <2>9, <2>10 DEF Effect
<1> QED
  BY <1>4, <1>7, <1>8, <1>9 DEF MapPage

-----------------------------------------------------------------------------
(* Mapping a page keeps every frame in one role.                           *)
LEMMA MapKeepsApart ==
  ASSUME VmmTypeOK, Apart, NEW o \in Owners, NEW v \in Pages, NEW f \in Nat,
         NEW flags \in SUBSET Flags, MapPage(DirOf(o), v, f, flags),
         UNCHANGED <<g_kernel_dir, page_dir>>,
         Owners' = Owners, o = 0 => v \in KernelPages
  PROVE  Apart'
<1>1. free' \subseteq free /\ Effect(o, v, f, flags) /\ free \subseteq PoolFrames
  BY MapPageEffect DEF VmmTypeOK
<1>2. Pdi(v) \in Indices
  BY PageIndices
<1>3. \A p \in Owners : DirOf(p)' = DirOf(p)
  BY DEF DirOf
<1>4. DirsApart'
  BY <1>1, <1>3 DEF Apart, DirsApart
<1>5. \A p \in Owners : \A k \in Indices : Present(Entry(p, k))' =>
        \/ Present(Entry(p, k)) /\ Entry(p, k).frame' = Entry(p, k).frame
        \/ /\ p = o /\ k = Pdi(v) /\ ~Present(Entry(p, k))
           /\ Entry(p, k).frame' \in free \ free'
  BY <1>1, <1>2 DEF Effect, Present
<1>6. TablesApart'
  <2> SUFFICES ASSUME NEW p \in Owners, NEW k \in Indices, Present(Entry(p, k))'
               PROVE  /\ Entry(p, k).frame' \in PoolFrames \ free'
                      /\ \A q \in Owners : DirOf(q) # Entry(p, k).frame'
                      /\ \A q \in Owners : \A l \in Indices :
                           Present(Entry(q, l))' /\ Entry(q, l).frame' = Entry(p, k).frame' =>
                             k = l /\ (p = q \/ (k < KERNEL_TABLES /\ free' = {}))
    BY <1>3 DEF TablesApart
  <2>1. Entry(p, k).frame' \in PoolFrames \ free' /\ \A q \in Owners : DirOf(q) # Entry(p, k).frame'
    BY <1>1, <1>5 DEF Apart, TablesApart, DirsApart
  <2>2. ASSUME NEW q \in Owners, NEW l \in Indices, Present(Entry(q, l))',
               Entry(q, l).frame' = Entry(p, k).frame'
        PROVE  k = l /\ (p = q \/ (k < KERNEL_TABLES /\ free' = {}))
    <3>1. CASE Present(Entry(p, k)) /\ Present(Entry(q, l))
      BY <1>1, <1>5, <2>2, <3>1 DEF Apart, TablesApart
    <3>2. CASE ~Present(Entry(p, k)) /\ ~Present(Entry(q, l))
      BY <1>5, <2>2, <3>2
    <3>3. CASE Present(Entry(p, k)) /\ ~Present(Entry(q, l))
      BY <1>5, <2>2, <3>3 DEF Apart, TablesApart
    <3>4. CASE ~Present(Entry(p, k)) /\ Present(Entry(q, l))
      BY <1>5, <2>2, <3>4 DEF Apart, TablesApart
    <3> QED
      BY <3>1, <3>2, <3>3, <3>4
  <2> QED
    BY <2>1, <2>2
<1>7. KernelOnly'
  <2> SUFFICES ASSUME 0 \in Owners, NEW k \in Indices, Present(Entry(0, k))'
               PROVE  k < KERNEL_TABLES
    BY DEF KernelOnly
  <2> QED
    BY <1>5, KernelIndex DEF Apart, KernelOnly
<1> QED
  BY <1>4, <1>6, <1>7 DEF Apart

(* Mapping a page of the kernel to itself, or a page beyond the kernel's,  *)
(* keeps every other page where it was.                                    *)
LEMMA MapKeepsIdentity ==
  ASSUME VmmTypeOK, Apart, NEW o \in Owners, NEW v \in Pages, NEW f \in Nat,
         NEW flags \in SUBSET Flags, MapPage(DirOf(o), v, f, flags),
         UNCHANGED <<g_kernel_dir, page_dir>>,
         v \in KernelPages => f = v,
         NEW p \in Owners, NEW w \in KernelPages,
         Present(Entry(p, Pdi(w))), Present(Slot(p, Pdi(w), Pti(w))),
         Slot(p, Pdi(w), Pti(w)).frame = w
  PROVE  /\ Present(Entry(p, Pdi(w)))'
         /\ Present(Slot(p, Pdi(w), Pti(w)))'
         /\ Slot(p, Pdi(w), Pti(w)).frame' = w
<1>1. Effect(o, v, f, flags)
  BY MapPageEffect
<1>2. w \in Pages /\ Pdi(w) \in Indices /\ Pti(w) \in Indices
  BY KernelPagesArePages, PageIndices
<1>3. Present(Entry(p, Pdi(w)))'
  BY <1>1, <1>2 DEF Effect, Present
<1>4. CASE Slot(p, Pdi(w), Pti(w))' = Slot(p, Pdi(w), Pti(w))
  BY <1>3, <1>4 DEF Present
<1>5. CASE Pdi(w) = Pdi(v) /\ Pti(w) = Pti(v) /\ Slot(p, Pdi(w), Pti(w))' = Pte(f, flags)
  <2>1. w = v /\ f = w
    BY <1>2, <1>5, PageUnique
  <2> QED
    BY <1>3, <1>5, <2>1 DEF Present, Pte
<1> QED
  BY <1>1, <1>2, <1>4, <1>5 DEF Effect

(* A frame that serves one purpose goes on serving that one only.          *)
LEMMA MapKeepsPrivate ==
  ASSUME VmmTypeOK, Apart, NEW o \in Owners, NEW v \in Pages, NEW f \in Nat,
         NEW flags \in SUBSET Flags, MapPage(DirOf(o), v, f, flags),
         UNCHANGED <<g_kernel_dir, page_dir, kstack>>, Owners' = Owners,
         NEW g, Private(g)
  PROVE  Private(g)'
<1>1. free' \subseteq free /\ Effect(o, v, f, flags)
  BY MapPageEffect
<1>2. \A p \in Owners : DirOf(p)' = DirOf(p)
  BY DEF DirOf
<1>3. \A p \in Owners : \A k \in Indices : Present(Entry(p, k))' =>
        \/ Present(Entry(p, k)) /\ Entry(p, k).frame' = Entry(p, k).frame
        \/ Entry(p, k).frame' \in free
  BY <1>1, PageIndices DEF Effect, Present
<1> QED
  BY <1>1, <1>2, <1>3 DEF Private

(* The processes that have a directory are owners, and so is the kernel.   *)
LEMMA Owned ==
  ASSUME VmmTypeOK, Progress
  PROVE  /\ Live \subseteq Owners /\ Live \subseteq Users /\ 0 \notin Users /\ 0 \notin Live
         /\ Owners \subseteq {0} \cup Users
         /\ job # "vmm_init" => 0 \in Owners
         /\ job \in {"vmm_init", "identity"} => Live = {}
         /\ job \in ForUser \ {"create_directory"} => proc \in Live
         /\ \A p \in Live : DirOf(p) = page_dir[p]
BY DEF VmmTypeOK, Progress, Live, Owners, DirOf, Users, ForUser, Jobs

LEMMA StackBeyondKernel ==
  ASSUME NEW w \in StackPages
  PROVE  /\ w \in Pages /\ w \notin KernelPages /\ w \in Nat
         /\ Pdi(w) \in Indices /\ Pti(w) \in Indices /\ ~(Pdi(w) < KERNEL_TABLES)
         /\ \A v \in StackPages : Pdi(v) = Pdi(w)
BY PlacesAssumption, PageIndices, KernelIndex DEF Pages

LEMMA CodeInKernel ==
  ASSUME NEW w \in CodePages
  PROVE  /\ w \in KernelPages /\ w \in Pages /\ w \in Nat
         /\ Pdi(w) \in Indices /\ Pti(w) \in Indices
BY PlacesAssumption, PageIndices, KernelPagesArePages DEF Pages

-----------------------------------------------------------------------------
(* What the three calls of vmm_map_page in proc_create_user have in common *)
(* (code, stack, thunk): they leave alone what the others have.            *)
LEMMA UserMapKeeps ==
  ASSUME VmmInv, NEW u, u = proc, NEW v \in KernelPages \cup StackPages, NEW f \in Nat,
         NEW flags \in SUBSET Flags, "USER" \in flags,
         job \in {"code", "map", "thunk"}, job' \in {"code", "stack", "next"},
         MapPage(page_dir[u], v, f, flags), v \in KernelPages => f = v,
         UNCHANGED <<g_kernel_dir, proc, procVars>>
  PROVE  /\ u \in Live /\ Live' = Live /\ Owners' = Owners /\ v \in Pages
         /\ mem' \in Mem /\ free' \subseteq free /\ Effect(u, v, f, flags)
         /\ Apart' /\ IdentityMapped' /\ KernelUntouched'
         /\ \A p \in Live : \A w \in CodePages : CodeDone(p, w) =>
              /\ "USER" \in Entry(p, Pdi(w)).flags'
              /\ "USER" \in Slot(p, Pdi(w), Pti(w)).flags'
         /\ \A p \in Live : \A w \in StackPages :
              StackDone(p, w) /\ (p # u \/ w # v) =>
                /\ Everything \subseteq Entry(p, Pdi(w)).flags'
                /\ Everything \subseteq Slot(p, Pdi(w), Pti(w)).flags'
                /\ FrameAt(p, w)' = FrameAt(p, w)
         /\ \A g : Private(g) => Private(g)'
<1>1. /\ VmmTypeOK /\ Progress /\ Apart /\ v \in Pages
      /\ IdentityMapped /\ KernelUntouched /\ CodeReached /\ StackReached
  BY KernelPagesArePages, StackBeyondKernel DEF VmmInv, Contents
<1>2. u \in Live /\ u \in Owners /\ DirOf(u) = page_dir[u] /\ 0 \in Owners /\ u # 0
  BY <1>1, Owned DEF ForUser
<1>3. Live' = Live /\ Owners' = Owners
  BY DEF Live, Owners, procVars
<1>4. mem' \in Mem /\ free' \subseteq free /\ Effect(u, v, f, flags)
  BY <1>1, <1>2, MapPageEffect DEF procVars
<1>5. Apart'
  BY <1>1, <1>2, <1>3, MapKeepsApart DEF procVars
<1>6. IdentityMapped'
  <2> SUFFICES ASSUME NEW p \in Owners, NEW w \in KernelPages
               PROVE  /\ Present(Entry(p, Pdi(w)))'
                      /\ Present(Slot(p, Pdi(w), Pti(w)))'
                      /\ Slot(p, Pdi(w), Pti(w)).frame' = w
    BY <1>3 DEF IdentityMapped
  <2>1. KernelDone(p, w)
    BY DEF KernelDone
  <2>2. /\ Present(Entry(p, Pdi(w))) /\ Present(Slot(p, Pdi(w), Pti(w)))
        /\ Slot(p, Pdi(w), Pti(w)).frame = w
    BY <1>1, <2>1 DEF IdentityMapped
  <2> QED
    BY <1>1, <1>2, <2>2, MapKeepsIdentity DEF procVars
<1>7. KernelUntouched'
  <2> SUFFICES ASSUME free' # {}, NEW w \in KernelPages
               PROVE  Slot(0, Pdi(w), Pti(w))' = Pte(w, {"PRESENT", "WRITABLE"})
    BY <1>3 DEF KernelUntouched, Pte
  <2>1. free # {} /\ Pdi(w) \in Indices /\ Pti(w) \in Indices
    BY <1>4, KernelPagesArePages, PageIndices
  <2>2. Slot(0, Pdi(w), Pti(w)) = Pte(w, {"PRESENT", "WRITABLE"})
    BY <1>1, <1>2, <2>1 DEF KernelUntouched
  <2>3. Present(Entry(0, Pdi(w))) /\ KernelDone(0, w)
    BY <1>1, <1>2 DEF IdentityMapped, KernelDone
  <2>4. ~(Present(Entry(u, Pdi(w))) /\ Entry(0, Pdi(w)).frame = Entry(u, Pdi(w)).frame)
    BY <1>1, <1>2, <2>1, <2>3 DEF Apart, TablesApart
  <2> QED
    BY <1>2, <1>4, <2>1, <2>2, <2>3, <2>4 DEF Effect
<1>8. ASSUME NEW p \in Live, NEW w \in CodePages, CodeDone(p, w)
      PROVE  /\ "USER" \in Entry(p, Pdi(w)).flags'
             /\ "USER" \in Slot(p, Pdi(w), Pti(w)).flags'
  <2>1. /\ p \in Owners /\ w \in KernelPages /\ Pdi(w) \in Indices /\ Pti(w) \in Indices
        /\ p # 0
    BY <1>1, Owned, CodeInKernel
  <2>2. Present(Entry(p, Pdi(w)))
    BY <1>1, <2>1 DEF IdentityMapped, KernelDone
  <2>3. "USER" \in Entry(p, Pdi(w)).flags /\ "USER" \in Slot(p, Pdi(w), Pti(w)).flags
    BY <1>1, <1>8 DEF CodeReached
  <2>4. "USER" \in Entry(p, Pdi(w)).flags'
    BY <1>4, <2>1, <2>2, <2>3 DEF Effect
  <2>5. "USER" \in Pte(f, flags).flags
    BY DEF Pte
  <2> QED
    BY <1>4, <2>1, <2>2, <2>3, <2>4, <2>5 DEF Effect
<1>9. ASSUME NEW p \in Live, NEW w \in StackPages, StackDone(p, w), p # u \/ w # v
      PROVE  /\ Everything \subseteq Entry(p, Pdi(w)).flags'
             /\ Everything \subseteq Slot(p, Pdi(w), Pti(w)).flags'
             /\ FrameAt(p, w)' = FrameAt(p, w)
  <2>1. /\ p \in Owners /\ w \in Pages /\ Pdi(w) \in Indices /\ Pti(w) \in Indices
        /\ ~(Pdi(w) < KERNEL_TABLES)
    BY <1>1, Owned, StackBeyondKernel
  <2>2. /\ Everything \subseteq Entry(p, Pdi(w)).flags
        /\ Everything \subseteq Slot(p, Pdi(w), Pti(w)).flags
        /\ Present(Entry(p, Pdi(w)))
    BY <1>1, <1>9 DEF StackReached, Everything, Present
  <2>3. Everything \subseteq Entry(p, Pdi(w)).flags'
    BY <1>4, <2>1, <2>2 DEF Effect
  <2>4. Slot(p, Pdi(w), Pti(w))' = Slot(p, Pdi(w), Pti(w))
    <3>1. ASSUME Pdi(w) = Pdi(v), Pti(w) = Pti(v), Present(Entry(u, Pdi(w))),
                 Entry(p, Pdi(w)).frame = Entry(u, Pdi(w)).frame
          PROVE  FALSE
      <4>1. p = u
        BY <1>1, <1>2, <2>1, <2>2, <3>1 DEF Apart, TablesApart
      <4>2. w = v
        BY <1>1, <2>1, <3>1, PageUnique
      <4> QED
        BY <1>9, <4>1, <4>2
    <3> QED
      BY <1>4, <2>1, <2>2, <3>1 DEF Effect
  <2> QED
    BY <2>2, <2>3, <2>4 DEF FrameAt
<1>10. \A g : Private(g) => Private(g)'
  BY <1>1, <1>2, <1>3, MapKeepsPrivate DEF procVars
<1> QED
  BY <1>1, <1>2, <1>3, <1>4, <1>5, <1>6, <1>7, <1>8, <1>9, <1>10

LEMMA MapCodeInv ==
  ASSUME VmmInv, MapCode
  PROVE  VmmInv'
<1> SUFFICES ASSUME NEW u, u = proc, NEW v, v = i PROVE VmmInv'
  OBVIOUS
<1>1. /\ job = "code" /\ v \in CodePages /\ i' = i + 1 /\ job' = job
      /\ UNCHANGED <<g_kernel_dir, frame, proc, procVars>>
      /\ MapPage(page_dir[u], v, v, Everything)
      /\ Everything \in SUBSET Flags /\ "USER" \in Everything
      /\ v \in KernelPages /\ v \in Nat
  BY CodeInKernel DEF MapCode, Everything, Flags
<1>2. /\ u \in Live /\ Live' = Live /\ Owners' = Owners /\ v \in Pages
      /\ mem' \in Mem /\ free' \subseteq free /\ Effect(u, v, v, Everything)
      /\ Apart' /\ IdentityMapped' /\ KernelUntouched'
  BY <1>1, UserMapKeeps
<1>3. /\ \A p \in Live : \A w \in CodePages : CodeDone(p, w) =>
              /\ "USER" \in Entry(p, Pdi(w)).flags'
              /\ "USER" \in Slot(p, Pdi(w), Pti(w)).flags'
      /\ \A p \in Live : \A w \in StackPages :
              StackDone(p, w) /\ (p # u \/ w # v) =>
                /\ Everything \subseteq Entry(p, Pdi(w)).flags'
                /\ Everything \subseteq Slot(p, Pdi(w), Pti(w)).flags'
                /\ FrameAt(p, w)' = FrameAt(p, w)
      /\ \A g : Private(g) => Private(g)'
  BY <1>1, UserMapKeeps
<1>4. /\ VmmTypeOK /\ Progress /\ Ownership
  BY DEF VmmInv
<1>5. VmmTypeOK' /\ Progress'
  BY <1>1, <1>2, <1>4, PlacesAssumption DEF VmmTypeOK, Progress, procVars, Mem, ForUser
<1>6. CodeReached'
  <2> SUFFICES ASSUME NEW p \in Live, NEW w \in CodePages, CodeDone(p, w)'
               PROVE  /\ "USER" \in Entry(p, Pdi(w)).flags'
                      /\ "USER" \in Slot(p, Pdi(w), Pti(w)).flags'
    BY <1>2 DEF CodeReached
  <2>1. CASE CodeDone(p, w)
    BY <1>3, <2>1
  <2>2. CASE ~CodeDone(p, w)
    <3>1. p = u /\ w = v
      BY <1>1, <2>2, CodeInKernel DEF CodeDone
    <3>2. Present(Entry(u, Pdi(v)))'
      <4>1. Present(Entry(u, Pdi(v)))
        <5>1. p \in Owners /\ KernelDone(p, w) /\ w \in KernelPages
          BY <1>1, <1>4, <3>1, Owned, CodeInKernel DEF KernelDone
        <5> QED
          BY <3>1, <5>1 DEF VmmInv, Contents, IdentityMapped
      <4> QED
        BY <1>2, <3>1, <4>1 DEF Effect
    <3> QED
      BY <1>1, <1>2, <3>1, <3>2 DEF Effect, Pte
  <2> QED
    BY <2>1, <2>2
<1>7. \A p \in Live : \A w \in StackPages : StackDone(p, w)' =>
        StackDone(p, w) /\ (p # u \/ w # v)
  BY <1>1 DEF StackDone, procVars
<1>8. StackReached'
  BY <1>2, <1>3, <1>7 DEF StackReached
<1>9. StacksOwn'
  BY <1>2, <1>3, <1>4, <1>7 DEF Ownership, StacksOwn
<1>10. FrameOwn'
  BY <1>1 DEF FrameOwn
<1> QED
  BY <1>2, <1>5, <1>6, <1>8, <1>9, <1>10 DEF VmmInv, Contents, Ownership

LEMMA MapThunkInv ==
  ASSUME VmmInv, MapThunk
  PROVE  VmmInv'
<1> SUFFICES ASSUME NEW u, u = proc PROVE VmmInv'
  OBVIOUS
<1> DEFINE readable == {"PRESENT", "USER"}
<1>1. /\ job = "thunk" /\ job' = "next"
      /\ UNCHANGED <<g_kernel_dir, i, frame, proc, procVars>>
      /\ MapPage(page_dir[u], THUNK_PAGE, THUNK_PAGE, readable)
      /\ readable \in SUBSET Flags /\ "USER" \in readable
      /\ THUNK_PAGE \in KernelPages /\ THUNK_PAGE \in Nat
  BY PlacesAssumption DEF MapThunk, Flags, KernelPages
<1>2. /\ u \in Live /\ Live' = Live /\ Owners' = Owners
      /\ mem' \in Mem /\ free' \subseteq free
      /\ Apart' /\ IdentityMapped' /\ KernelUntouched'
  BY <1>1, UserMapKeeps
<1>3. /\ \A p \in Live : \A w \in CodePages : CodeDone(p, w) =>
              /\ "USER" \in Entry(p, Pdi(w)).flags'
              /\ "USER" \in Slot(p, Pdi(w), Pti(w)).flags'
      /\ \A p \in Live : \A w \in StackPages :
              StackDone(p, w) /\ (p # u \/ w # THUNK_PAGE) =>
                /\ Everything \subseteq Entry(p, Pdi(w)).flags'
                /\ Everything \subseteq Slot(p, Pdi(w), Pti(w)).flags'
                /\ FrameAt(p, w)' = FrameAt(p, w)
      /\ \A g : Private(g) => Private(g)'
  BY <1>1, UserMapKeeps
<1>4. /\ VmmTypeOK /\ Progress /\ Ownership
  BY DEF VmmInv
<1>5. VmmTypeOK' /\ Progress'
  BY <1>1, <1>2, <1>4 DEF VmmTypeOK, Progress, procVars, Mem, ForUser, Jobs
<1>6. CodeReached'
  BY <1>1, <1>2, <1>3 DEF CodeReached, CodeDone
<1>7. \A p \in Live : \A w \in StackPages :
        StackDone(p, w) /\ (p # u \/ w # THUNK_PAGE)
  BY <1>1, StackBeyondKernel DEF StackDone
<1>8. StackReached'
  BY <1>2, <1>3, <1>7 DEF StackReached
<1>9. StacksOwn'
  BY <1>2, <1>3, <1>4, <1>7 DEF Ownership, StacksOwn
<1>10. FrameOwn'
  BY <1>1 DEF FrameOwn
<1> QED
  BY <1>2, <1>5, <1>6, <1>8, <1>9, <1>10 DEF VmmInv, Contents, Ownership

(* A page of the stack.  When vmm_map_page maps nothing, the pool is dry   *)
(* and it was the first page: the next one finds no frame.                 *)
LEMMA MapStackInv ==
  ASSUME VmmInv, MapStack
  PROVE  VmmInv'
<1> SUFFICES ASSUME NEW u, u = proc, NEW v, v = i, NEW f, f = frame PROVE VmmInv'
  OBVIOUS
<1>1. /\ job = "map" /\ job' = "stack" /\ i' = i + 1
      /\ UNCHANGED <<g_kernel_dir, frame, proc, procVars>>
      /\ MapPage(page_dir[u], v, f, Everything)
      /\ Everything \in SUBSET Flags /\ "USER" \in Everything
  BY DEF MapStack, Everything, Flags
<1>2. /\ VmmTypeOK /\ Progress /\ Ownership /\ Apart
      /\ v \in StackPages /\ v \in Nat /\ v \notin KernelPages /\ f \in Nat
  BY <1>1, StackBeyondKernel DEF VmmInv, Progress, VmmTypeOK
<1>3. /\ u \in Live /\ Live' = Live /\ Owners' = Owners
      /\ mem' \in Mem /\ free' \subseteq free /\ Effect(u, v, f, Everything)
      /\ Apart' /\ IdentityMapped' /\ KernelUntouched'
  BY <1>1, <1>2, UserMapKeeps
<1>4. /\ \A p \in Live : \A w \in CodePages : CodeDone(p, w) =>
              /\ "USER" \in Entry(p, Pdi(w)).flags'
              /\ "USER" \in Slot(p, Pdi(w), Pti(w)).flags'
      /\ \A p \in Live : \A w \in StackPages :
              StackDone(p, w) /\ (p # u \/ w # v) =>
                /\ Everything \subseteq Entry(p, Pdi(w)).flags'
                /\ Everything \subseteq Slot(p, Pdi(w), Pti(w)).flags'
                /\ FrameAt(p, w)' = FrameAt(p, w)
      /\ \A g : Private(g) => Private(g)'
  BY <1>1, <1>2, UserMapKeeps
<1>5. VmmTypeOK' /\ Progress'
  BY <1>1, <1>2, <1>3, PlacesAssumption DEF VmmTypeOK, Progress, procVars, Mem, ForUser, Jobs
<1>6. CodeReached'
  BY <1>1, <1>3, <1>4 DEF CodeReached, CodeDone
<1>7. \A p \in Live : \A w \in StackPages : StackDone(p, w)' =>
        StackDone(p, w) \/ (p = u /\ w = v)
  BY <1>1, <1>2, StackBeyondKernel DEF StackDone, procVars
<1>8. ASSUME NEW w \in StackPages, StackDone(u, w)'
      PROVE  Present(Entry(u, Pdi(v)))'
  <2> SUFFICES ASSUME ~Present(Entry(u, Pdi(v)))' PROVE FALSE
    OBVIOUS
  <2>1. free = {} /\ free' = {} /\ ~Present(Entry(u, Pdi(v)))
    BY <1>3 DEF Effect
  <2>2. \A x \in StackPages : x >= v
    <3> SUFFICES ASSUME NEW x \in StackPages, x < v PROVE FALSE
      BY <1>2, StackBeyondKernel
    <3>1. StackDone(u, x)
      BY <1>1 DEF StackDone
    <3>2. Present(Entry(u, Pdi(x)))
      BY <1>3, <3>1 DEF VmmInv, Contents, StackReached, Everything, Present
    <3> QED
      BY <1>2, <2>1, <3>2, StackBeyondKernel
  <2>3. v = STACK_START /\ v + 1 \in StackPages
    BY <1>2, <2>2, PlacesAssumption DEF StackPages
  <2> QED
    BY <1>1, <1>8, <2>1, <2>3 DEF StackDone, procVars
<1>9. ASSUME StackDone(u, v)'
      PROVE  /\ Everything \subseteq Entry(u, Pdi(v)).flags'
             /\ Everything \subseteq Slot(u, Pdi(v), Pti(v)).flags'
             /\ FrameAt(u, v)' = f
  <2>1. Present(Entry(u, Pdi(v)))'
    BY <1>2, <1>8, <1>9
  <2>2. Slot(u, Pdi(v), Pti(v))' = Pte(f, Everything)
    BY <1>3, <2>1 DEF Effect
  <2> QED
    BY <1>3, <2>1, <2>2 DEF Effect, Pte, Everything, Present, FrameAt
<1>10. ASSUME NEW p \in Live, NEW w \in StackPages, StackDone(p, w)'
       PROVE  /\ Everything \subseteq Entry(p, Pdi(w)).flags'
              /\ Everything \subseteq Slot(p, Pdi(w), Pti(w)).flags'
              /\ IF p = u /\ w = v THEN FrameAt(p, w)' = f
                 ELSE StackDone(p, w) /\ FrameAt(p, w)' = FrameAt(p, w)
  BY <1>4, <1>7, <1>9, <1>10
<1>11. StackReached'
  BY <1>3, <1>10 DEF StackReached
<1>12. Private(f) /\ \A p \in Live : \A w \in StackPages :
         StackDone(p, w) => FrameAt(p, w) # f
  BY <1>1, <1>2 DEF Ownership, FrameOwn
<1>13. StacksOwn'
  <2> SUFFICES ASSUME NEW p \in Live, NEW w \in StackPages, StackDone(p, w)'
               PROVE  /\ Private(FrameAt(p, w))'
                      /\ \A q \in Live : \A x \in StackPages :
                           StackDone(q, x)' /\ FrameAt(q, x)' = FrameAt(p, w)' => p = q /\ w = x
    BY <1>3 DEF StacksOwn
  <2>1. Private(FrameAt(p, w))'
    BY <1>2, <1>4, <1>10, <1>12 DEF Ownership, StacksOwn, Private
  <2>2. ASSUME NEW q \in Live, NEW x \in StackPages, StackDone(q, x)',
               FrameAt(q, x)' = FrameAt(p, w)'
        PROVE  p = q /\ w = x
    <3>1. CASE p = u /\ w = v /\ ~(q = u /\ x = v)
      BY <1>10, <1>12, <2>2, <3>1
    <3>2. CASE ~(p = u /\ w = v) /\ q = u /\ x = v
      BY <1>10, <1>12, <2>2, <3>2
    <3>3. CASE ~(p = u /\ w = v) /\ ~(q = u /\ x = v)
      <4>1. /\ StackDone(p, w) /\ FrameAt(p, w)' = FrameAt(p, w)
            /\ StackDone(q, x) /\ FrameAt(q, x)' = FrameAt(q, x)
        BY <1>10, <2>2, <3>3
      <4>2. FrameAt(q, x) = FrameAt(p, w)
        BY <2>2, <4>1
      <4>3. StacksOwn
        BY <1>2 DEF Ownership
      <4> QED
        BY <4>1, <4>2, <4>3 DEF StacksOwn
    <3> QED
      BY <3>1, <3>2, <3>3
  <2> QED
    BY <2>1, <2>2
<1>14. FrameOwn'
  BY <1>1 DEF FrameOwn
<1> QED
  BY <1>3, <1>5, <1>6, <1>11, <1>13, <1>14 DEF VmmInv, Contents, Ownership

-----------------------------------------------------------------------------
(* The steps that write no table only have to claim no more than is done.  *)
LEMMA NoWrite ==
  ASSUME VmmInv, UNCHANGED <<mem, g_kernel_dir, page_dir>>,
         job # "vmm_init", job' # "vmm_init", free' \subseteq free, Live' \subseteq Live,
         0 \in Owners', Owners' \subseteq {0} \cup Live',
         \A o \in Owners', v \in KernelPages : KernelDone(o, v)' => KernelDone(o, v),
         free' # {} => \A v \in KernelPages :
           (job' = "identity" => v < i') => (job = "identity" => v < i),
         \A p \in Live', v \in CodePages : CodeDone(p, v)' => CodeDone(p, v),
         \A p \in Live', v \in StackPages : StackDone(p, v)' => StackDone(p, v),
         \A q \in Users : kstack'[q] \in free \cup {kstack[q]}
  PROVE  /\ Apart' /\ Contents' /\ StacksOwn'
         /\ \A p, v : FrameAt(p, v)' = FrameAt(p, v)
         /\ \A g : Private(g) => Private(g)'
<1>1. /\ VmmTypeOK /\ Progress /\ DirsApart /\ TablesApart /\ KernelOnly
      /\ IdentityMapped /\ KernelUntouched /\ CodeReached /\ StackReached /\ StacksOwn
  BY DEF VmmInv, Apart, Contents, Ownership
<1>2. Owners' \subseteq Owners /\ 0 \in Owners
  BY <1>1, Owned
<1>3. \A o : DirOf(o)' = DirOf(o)
  BY DEF DirOf
<1>4. \A o, k : Entry(o, k)' = Entry(o, k)
  BY <1>3 DEF Entry
<1>5. \A o, k, j : Slot(o, k, j)' = Slot(o, k, j)
  BY <1>4 DEF Slot
<1>6. \A p, v : FrameAt(p, v)' = FrameAt(p, v)
  BY <1>5 DEF FrameAt
<1>7. DirsApart'
  BY <1>1, <1>2, <1>3 DEF DirsApart
<1>8. TablesApart'
  BY <1>1, <1>2, <1>3, <1>4 DEF TablesApart
<1>9. KernelOnly'
  BY <1>1, <1>2, <1>4 DEF KernelOnly
<1>10. IdentityMapped'
  BY <1>1, <1>2, <1>4, <1>5 DEF IdentityMapped
<1>11. KernelUntouched'
  BY <1>1, <1>2, <1>5 DEF KernelUntouched, Pte
<1>12. CodeReached'
  BY <1>1, <1>4, <1>5 DEF CodeReached
<1>13. StackReached'
  BY <1>1, <1>4, <1>5 DEF StackReached, Everything
<1>14. ASSUME NEW g, Private(g)
       PROVE  Private(g)'
  <2>1. g \in PoolFrames \ free' /\ \A q \in Users : kstack'[q] # g
    BY <1>14 DEF Private
  <2>2. \A o \in Owners' :
          DirOf(o)' # g /\ \A k \in Indices : Present(Entry(o, k))' => Entry(o, k)'.frame # g
    BY <1>2, <1>3, <1>4, <1>14 DEF Private, Present
  <2> QED
    BY <2>1, <2>2 DEF Private
<1>15. StacksOwn'
  BY <1>1, <1>6, <1>14 DEF StacksOwn
<1> QED
  BY <1>6, <1>7, <1>8, <1>9, <1>10, <1>11, <1>12, <1>13, <1>14, <1>15 DEF Apart, Contents

LEMMA KernelThreadsInv ==
  ASSUME VmmInv, KernelThreads
  PROVE  VmmInv'
<1>1. /\ VmmTypeOK /\ Progress /\ Live = {}
  BY Owned DEF VmmInv, KernelThreads
<1>2. /\ job = "identity" /\ job' = "next" /\ free # {} /\ free' \subseteq free
      /\ i \in Nat /\ i \notin KernelPages
      /\ UNCHANGED <<mem, g_kernel_dir, i, frame, proc, procVars>>
  BY <1>1 DEF KernelThreads, IsLowest, VmmTypeOK
<1>3. Live' = {} /\ Owners' = {0}
  BY <1>1, <1>2 DEF Live, Owners, procVars, VmmTypeOK, Progress, Users
<1>4. \A v \in KernelPages : v < i
  BY <1>2, SizesAssumption DEF KernelPages
<1>5. Apart' /\ Contents' /\ StacksOwn'
  BY <1>2, <1>3, <1>4, NoWrite, SMTT(60) DEF KernelDone, procVars
<1>6. VmmTypeOK' /\ Progress'
  BY <1>1, <1>2 DEF VmmTypeOK, Progress, procVars, Jobs, ForUser
<1> QED
  BY <1>2, <1>5, <1>6 DEF VmmInv, Ownership, FrameOwn

LEMMA CreateUserInv ==
  ASSUME VmmInv, CreateUser
  PROVE  VmmInv'
<1>1. /\ VmmTypeOK /\ Progress
  BY DEF VmmInv
<1>2. /\ job = "next" /\ job' = "create_directory" /\ proc \in 0 .. NUSERS - 1
      /\ proc' = proc + 1 /\ active' = [active EXCEPT ![proc + 1] = TRUE]
      /\ UNCHANGED <<mem, free, g_kernel_dir, i, frame, page_dir, kstack>>
  BY <1>1, SizesAssumption DEF CreateUser, VmmTypeOK
<1>3. Live' \subseteq Live /\ proc' \notin Live' /\ Owners' = {0} \cup Live'
  BY <1>1, <1>2 DEF Live, Owners, VmmTypeOK
<1>4. VmmTypeOK' /\ Progress'
  BY <1>1, <1>2, SizesAssumption DEF VmmTypeOK, Progress, Jobs, ForUser, Users
<1>5. Apart' /\ Contents' /\ StacksOwn'
  BY <1>2, <1>3, NoWrite DEF KernelDone, CodeDone, StackDone
<1> QED
  BY <1>2, <1>4, <1>5 DEF VmmInv, Ownership, FrameOwn

LEMMA ClonedInv ==
  ASSUME VmmInv, Cloned
  PROVE  VmmInv'
<1>1. /\ VmmTypeOK /\ Progress
  BY DEF VmmInv
<1>2. /\ job = "clone" /\ job' = "code" /\ i \in Nat /\ i \notin Indices /\ i' = CODE_START
      /\ UNCHANGED <<mem, free, g_kernel_dir, frame, proc, procVars>>
  BY <1>1 DEF Cloned, VmmTypeOK
<1>3. Live' = Live /\ Owners' = {0} \cup Live
  BY <1>2 DEF Live, Owners, procVars
<1>4. \A v \in KernelPages : Pdi(v) < i
  BY <1>2, PageIndices, KernelPagesArePages, SizesAssumption DEF Indices
<1>5. \A v \in CodePages : ~(v < CODE_START)
  BY PlacesAssumption DEF CodePages
<1>6. VmmTypeOK' /\ Progress'
  BY <1>1, <1>2, PlacesAssumption DEF VmmTypeOK, Progress, procVars, Jobs, ForUser
<1>7. Apart' /\ Contents' /\ StacksOwn'
  BY <1>2, <1>3, <1>4, <1>5, NoWrite DEF KernelDone, CodeDone, StackDone, procVars
<1> QED
  BY <1>2, <1>6, <1>7 DEF VmmInv, Ownership, FrameOwn

LEMMA CodeMappedInv ==
  ASSUME VmmInv, CodeMapped
  PROVE  VmmInv'
<1>1. /\ VmmTypeOK /\ Progress
  BY DEF VmmInv
<1>2. /\ job = "code" /\ job' = "stack" /\ i \in Nat /\ i \notin CodePages /\ i >= CODE_START
      /\ i' = STACK_START
      /\ UNCHANGED <<mem, free, g_kernel_dir, frame, proc, procVars>>
  BY <1>1 DEF CodeMapped, VmmTypeOK, Progress
<1>3. Live' = Live /\ Owners' = {0} \cup Live
  BY <1>2 DEF Live, Owners, procVars
<1>4. \A v \in CodePages : v < i
  BY <1>2, PlacesAssumption DEF CodePages
<1>5. \A v \in StackPages : ~(v < STACK_START)
  BY PlacesAssumption DEF StackPages
<1>6. VmmTypeOK' /\ Progress'
  BY <1>1, <1>2, PlacesAssumption DEF VmmTypeOK, Progress, procVars, Jobs, ForUser
<1>7. Apart' /\ Contents' /\ StacksOwn'
  BY <1>2, <1>3, <1>4, <1>5, NoWrite DEF KernelDone, CodeDone, StackDone, procVars
<1> QED
  BY <1>2, <1>6, <1>7 DEF VmmInv, Ownership, FrameOwn

LEMMA UserThreadInv ==
  ASSUME VmmInv, UserThread
  PROVE  VmmInv'
<1>1. /\ VmmTypeOK /\ Progress
  BY DEF VmmInv
<1>2. /\ job = "stack" /\ job' = "thunk" /\ i \in Nat /\ i \notin StackPages /\ i >= STACK_START
      /\ UNCHANGED <<mem, g_kernel_dir, i, frame, proc, page_dir, active>>
  BY <1>1 DEF UserThread, VmmTypeOK, Progress
<1>3. /\ free' \subseteq free /\ kstack' \in [Users -> Nat]
      /\ \A q \in Users : kstack'[q] \in free \cup {kstack[q]} /\ kstack'[q] \notin free'
  <2>1. CASE free = {} /\ UNCHANGED <<free, kstack>>
    BY <1>1, <2>1 DEF VmmTypeOK, Progress
  <2>2. ASSUME NEW f \in PoolFrames, IsLowest(f), Taken(f), kstack' = [kstack EXCEPT ![proc] = f]
        PROVE  /\ free' \subseteq free /\ kstack' \in [Users -> Nat]
               /\ \A q \in Users : kstack'[q] \in free \cup {kstack[q]} /\ kstack'[q] \notin free'
    <3>1. f \in Nat /\ f \in free /\ free' = free \ {f}
      BY <2>2, PlacesAssumption DEF KernelPages, IsLowest, Taken
    <3> QED
      BY <1>1, <2>2, <3>1 DEF VmmTypeOK, Progress
  <2> QED
    BY <2>1, <2>2 DEF UserThread
<1>4. Live' = Live /\ Owners' = {0} \cup Live
  BY <1>2 DEF Live, Owners
<1>5. \A v \in StackPages : v < i
  BY <1>2, PlacesAssumption DEF StackPages
<1>6. VmmTypeOK' /\ Progress'
  BY <1>1, <1>2, <1>3 DEF VmmTypeOK, Progress, Jobs, ForUser
<1>7. Apart' /\ Contents' /\ StacksOwn'
  BY <1>2, <1>3, <1>4, <1>5, NoWrite DEF KernelDone, CodeDone, StackDone
<1> QED
  BY <1>2, <1>6, <1>7 DEF VmmInv, Ownership, FrameOwn

(* The frame of a page of the stack comes from free, where no frame in use *)
(* is.                                                                     *)
LEMMA StackFrameInv ==
  ASSUME VmmInv, StackFrame
  PROVE  VmmInv'
<1>1. /\ VmmTypeOK /\ Progress /\ Apart /\ StacksOwn
  BY DEF VmmInv, Ownership
<1>2. /\ job = "stack" /\ i \in StackPages /\ i \in Nat /\ i >= STACK_START
      /\ UNCHANGED <<mem, g_kernel_dir, i, proc, page_dir, kstack>>
  BY <1>1 DEF StackFrame, VmmTypeOK, Progress
<1>3. CASE free = {} /\ NoStackFrame /\ UNCHANGED free
  <2>1. job' = "next" /\ active' = [active EXCEPT ![proc] = FALSE] /\ frame' = frame
    BY <1>3 DEF NoStackFrame, GiveUp
  <2>2. Live' \subseteq Live /\ proc \notin Live' /\ Owners' = {0} \cup Live'
    BY <1>1, <1>2, <2>1 DEF Live, Owners, VmmTypeOK, Progress, ForUser
  <2>3. VmmTypeOK' /\ Progress'
    BY <1>1, <1>2, <1>3, <2>1 DEF VmmTypeOK, Progress, Jobs, ForUser
  <2>4. Apart' /\ Contents' /\ StacksOwn'
    BY <1>2, <1>3, <2>1, <2>2, NoWrite DEF KernelDone, CodeDone, StackDone
  <2> QED
    BY <2>1, <2>3, <2>4 DEF VmmInv, Ownership, FrameOwn
<1>4. ASSUME NEW f \in PoolFrames, IsLowest(f), Taken(f), frame' = f, job' = "map",
             UNCHANGED active
      PROVE  VmmInv'
  <2>1. f \in Nat /\ f \in free /\ free' = free \ {f}
    BY <1>4, PlacesAssumption DEF KernelPages, IsLowest, Taken
  <2>2. Live' = Live /\ Owners' = Owners /\ Owners' = {0} \cup Live
    BY <1>2, <1>4 DEF Live, Owners
  <2>3. VmmTypeOK' /\ Progress'
    BY <1>1, <1>2, <1>4, <2>1 DEF VmmTypeOK, Progress, Jobs, ForUser
  <2>4. \A p \in Live, v \in StackPages : StackDone(p, v)' => StackDone(p, v)
    BY <1>2, <1>4, <2>1 DEF StackDone
  <2>5. /\ Apart' /\ Contents' /\ StacksOwn'
        /\ \A p, v : FrameAt(p, v)' = FrameAt(p, v)
    BY <1>2, <1>4, <2>1, <2>2, <2>4, NoWrite DEF KernelDone, CodeDone
  <2>6. Private(f)'
    <3>1. /\ \A o : DirOf(o)' = DirOf(o)
      BY <1>2 DEF DirOf
    <3>2. \A o, k : Entry(o, k)' = Entry(o, k)
      BY <1>2, <3>1 DEF Entry
    <3> QED
      BY <1>1, <1>2, <2>1, <2>2, <3>1, <3>2
         DEF Private, Apart, DirsApart, TablesApart, Progress
  <2>7. \A p \in Live : \A v \in StackPages : StackDone(p, v)' => FrameAt(p, v)' # f
    BY <1>1, <2>1, <2>4, <2>5 DEF StacksOwn, Private
  <2>8. FrameOwn'
    BY <1>4, <2>2, <2>6, <2>7 DEF FrameOwn, Private
  <2> QED
    BY <2>3, <2>5, <2>8 DEF VmmInv, Ownership
<1> QED
  BY <1>3, <1>4 DEF StackFrame, FramePerPage

LEMMA StutterInv ==
  ASSUME VmmInv, UNCHANGED vmmVars
  PROVE  VmmInv'
<1> USE DEF vmmVars, procVars
<1>1. VmmTypeOK' /\ Progress'
  BY DEF VmmInv, VmmTypeOK, Progress
<1>2. Live' = Live /\ Owners' = Owners
  BY DEF Live, Owners
<1>3. \A o : DirOf(o)' = DirOf(o)
  BY DEF DirOf
<1>4. \A o, k : Entry(o, k)' = Entry(o, k)
  BY <1>3 DEF Entry
<1>5. \A o, k, j : Slot(o, k, j)' = Slot(o, k, j)
  BY <1>4 DEF Slot
<1>6. Apart'
  BY <1>2, <1>3, <1>4 DEF VmmInv, Apart, DirsApart, TablesApart, KernelOnly
<1>7. Contents'
  <2>1. /\ \A o, v : KernelDone(o, v)' = KernelDone(o, v)
        /\ \A p, v : CodeDone(p, v)' = CodeDone(p, v) /\ StackDone(p, v)' = StackDone(p, v)
    BY DEF KernelDone, CodeDone, StackDone
  <2> QED
    BY <1>2, <1>4, <1>5, <2>1
       DEF VmmInv, Contents, IdentityMapped, KernelUntouched, CodeReached, StackReached
<1>8. Ownership'
  <2>1. \A p, v : FrameAt(p, v)' = FrameAt(p, v) /\ StackDone(p, v)' = StackDone(p, v)
    BY <1>5 DEF FrameAt, StackDone
  <2>2. \A f : Private(f)' = Private(f)
    BY <1>2, <1>3, <1>4 DEF Private
  <2> QED
    BY <1>2, <2>1, <2>2 DEF VmmInv, Ownership, StacksOwn, FrameOwn, Private
<1> QED
  BY <1>1, <1>6, <1>7, <1>8 DEF VmmInv

-----------------------------------------------------------------------------
(* The kernel's identity map grows page by page while there are frames;    *)
(* when there are none left, kernel_main gets no further.                  *)
LEMMA IdentityMapInv ==
  ASSUME VmmInv, IdentityMap
  PROVE  VmmInv'
<1> SUFFICES ASSUME NEW v, v = i PROVE VmmInv'
  OBVIOUS
<1> DEFINE rw == {"PRESENT", "WRITABLE"}
<1>1. /\ VmmTypeOK /\ Progress /\ Apart
      /\ IdentityMapped /\ KernelUntouched
  BY DEF VmmInv, Contents
<1>2. /\ job = "identity" /\ job' = "identity" /\ v \in KernelPages /\ v \in Nat /\ v \in Pages
      /\ i' = v + 1 /\ rw \in SUBSET Flags
      /\ MapPage(g_kernel_dir, v, v, rw)
      /\ UNCHANGED <<g_kernel_dir, job, frame, proc, procVars>>
  BY <1>1, KernelPagesArePages DEF IdentityMap, VmmTypeOK, Flags
<1>3. Live = {} /\ Live' = {} /\ Owners = {0} /\ Owners' = {0} /\ DirOf(0) = g_kernel_dir
  BY <1>1, <1>2, Owned DEF Live, Owners, DirOf, procVars
<1>4. mem' \in Mem /\ free' \subseteq free /\ Effect(0, v, v, rw)
  BY <1>1, <1>2, <1>3, MapPageEffect DEF procVars
<1>5. Apart'
  BY <1>1, <1>2, <1>3, MapKeepsApart DEF procVars
<1>6. VmmTypeOK' /\ Progress'
  BY <1>1, <1>2, <1>4 DEF VmmTypeOK, Progress, procVars, Mem, ForUser
<1>7. ASSUME NEW w \in KernelPages, free' # {}, w < v + 1
      PROVE  /\ Present(Entry(0, Pdi(w)))'
             /\ Slot(0, Pdi(w), Pti(w))' = Pte(w, rw)
  <2>1. /\ free # {} /\ w \in Pages /\ w \in Nat
        /\ Pdi(w) \in Indices /\ Pti(w) \in Indices
    BY <1>4, <1>7, PageIndices, KernelPagesArePages DEF KernelPages
  <2>2. CASE w = v
    BY <1>4, <2>1, <2>2 DEF Effect
  <2>3. CASE w # v
    <3>1. w < v
      BY <1>2, <1>7, <2>1, <2>3
    <3>2. Present(Entry(0, Pdi(w))) /\ Slot(0, Pdi(w), Pti(w)) = Pte(w, rw)
      BY <1>1, <1>2, <1>3, <2>1, <3>1 DEF IdentityMapped, KernelUntouched, KernelDone
    <3>3. Present(Entry(0, Pdi(w)))'
      BY <1>3, <1>4, <2>1, <3>2 DEF Effect
    <3>4. ~(Pdi(w) = Pdi(v) /\ Pti(w) = Pti(v))
      BY <1>2, <2>1, <2>3, PageUnique
    <3> QED
      BY <1>3, <1>4, <2>1, <3>2, <3>3, <3>4 DEF Effect
  <2> QED
    BY <2>2, <2>3
<1>8. IdentityMapped'
  <2>1. \A w : Present(Pte(w, rw)) /\ Pte(w, rw).frame = w
    BY DEF Present, Pte
  <2> QED
    BY <1>2, <1>3, <1>7, <2>1 DEF IdentityMapped, KernelDone, Present
<1>9. KernelUntouched'
  BY <1>2, <1>3, <1>7 DEF KernelUntouched, Pte
<1>10. CodeReached' /\ StackReached' /\ StacksOwn' /\ FrameOwn'
  BY <1>2, <1>3 DEF CodeReached, StackReached, StacksOwn, FrameOwn
<1> QED
  BY <1>5, <1>6, <1>8, <1>9, <1>10 DEF VmmInv, Contents, Ownership

LEMMA ClearedTable ==
  /\ Cleared \in [Indices -> [frame : Nat, flags : SUBSET Flags]]
  /\ \A k \in Indices : ~Present(Cleared[k])
BY DEF Cleared, Present

LEMMA KernelDirectoryInv ==
  ASSUME VmmInv, KernelDirectory
  PROVE  VmmInv'
<1>1. /\ VmmTypeOK /\ Progress /\ Live = {}
  BY Owned DEF VmmInv, KernelDirectory
<1>2. /\ job = "vmm_init" /\ job' = "identity" /\ i = 0
      /\ UNCHANGED <<i, frame, proc, procVars>>
  BY <1>1 DEF KernelDirectory, Progress
<1>3. PICK f \in PoolFrames :
        IsLowest(f) /\ g_kernel_dir' = f /\ mem' = [mem EXCEPT ![f] = Cleared] /\ Taken(f)
  BY DEF KernelDirectory
<1>4. f \in Nat /\ f \in free /\ free' = free \ {f}
  BY <1>3, PlacesAssumption DEF KernelPages, IsLowest, Taken
<1>5. Live' = {} /\ Owners' = {0}
  BY <1>1, <1>2 DEF Live, Owners, procVars, VmmTypeOK, Progress, Users
<1>6. VmmTypeOK' /\ Progress'
  BY <1>1, <1>2, <1>3, <1>4, ClearedTable DEF VmmTypeOK, Progress, procVars, Jobs, ForUser
<1>7. DirOf(0)' = f /\ \A k \in Indices : ~Present(Entry(0, k))'
  BY <1>1, <1>3, ClearedTable DEF DirOf, Entry, VmmTypeOK
<1>8. Apart'
  BY <1>4, <1>5, <1>7 DEF Apart, DirsApart, TablesApart, KernelOnly, Present
<1>9. \A v \in KernelPages : ~(v < i')
  BY <1>2 DEF KernelPages
<1>10. Contents'
  BY <1>2, <1>5, <1>9
     DEF Contents, IdentityMapped, KernelUntouched, CodeReached, StackReached, KernelDone
<1>11. Ownership'
  BY <1>2, <1>5 DEF Ownership, StacksOwn, FrameOwn
<1> QED
  BY <1>6, <1>8, <1>10, <1>11 DEF VmmInv

-----------------------------------------------------------------------------
(* The first two steps of vmm_create_directory write only into fresh       *)
(* frames and into the directory of the process, u.  What the other owners *)
(* have is as before; this is what those steps show of u.                  *)
LEMMA FreshWrite ==
  ASSUME VmmInv, NEW u \in Users, u = proc,
         job \in {"create_directory", "clone"}, job' = "clone",
         free' \subseteq free, Live' = Live \cup {u},
         UNCHANGED <<g_kernel_dir, proc, kstack>>,
         \A o \in Owners : o # u => DirOf(o)' = DirOf(o),
         \A o \in Owners : \A k \in Indices : o # u => Entry(o, k)' = Entry(o, k),
         \A o \in Owners : \A k, j \in Indices :
           o # u /\ Present(Entry(o, k)) => Slot(o, k, j)' = Slot(o, k, j),
         DirOf(u)' \in PoolFrames \ free',
         \A o \in Owners : o # u => DirOf(o) # DirOf(u)',
         \A k \in Indices : Present(Entry(u, k))' =>
           \/ Entry(u, k).frame' \in free \ free' /\ Entry(u, k).frame' # DirOf(u)'
              /\ \A l \in Indices : Present(Entry(u, l))' /\ l # k =>
                   Entry(u, l).frame' # Entry(u, k).frame'
           \/ /\ job = "clone" /\ Present(Entry(u, k))
              /\ Entry(u, k).frame' = Entry(u, k).frame
           \/ /\ job = "clone" /\ free = {} /\ Present(Entry(0, k))
              /\ Entry(u, k).frame' = Entry(0, k).frame,
         job = "clone" => DirOf(u)' = DirOf(u),
         job = "create_directory" => DirOf(u)' \in free,
         \A v \in KernelPages : Pdi(v) < i' =>
           /\ Present(Entry(u, Pdi(v)))'
           /\ Present(Slot(u, Pdi(v), Pti(v)))'
           /\ Slot(u, Pdi(v), Pti(v)).frame' = v
  PROVE  Apart' /\ Contents' /\ Ownership'
<1>1. /\ VmmTypeOK /\ Progress /\ DirsApart /\ TablesApart /\ KernelOnly
      /\ IdentityMapped /\ KernelUntouched /\ CodeReached /\ StackReached /\ StacksOwn
  BY DEF VmmInv, Apart, Contents, Ownership
<1>2. /\ 0 \in Owners /\ u # 0 /\ Owners' = Owners \cup {u}
      /\ Live \subseteq Owners /\ Owners \subseteq {0} \cup Users
      /\ job = "create_directory" => u \notin Owners
      /\ job = "clone" => u \in Owners
  BY <1>1 DEF Owners, Live, Users, Progress, VmmTypeOK, ForUser
<1>3. \A o \in Owners' : \A k \in Indices : Present(Entry(o, k))' =>
        \/ Entry(o, k).frame' \in free /\ o = u
        \/ /\ o \in Owners /\ Present(Entry(o, k)) /\ Entry(o, k).frame' = Entry(o, k).frame
        \/ /\ o = u /\ job = "clone" /\ free = {} /\ Present(Entry(0, k))
           /\ Entry(o, k).frame' = Entry(0, k).frame
  BY <1>2 DEF Present
<1>4. \A o \in Owners' :
        (DirOf(o)' = DirOf(o) /\ o \in Owners) \/ (DirOf(o)' \in free /\ o = u)
  BY <1>2
<1>5. DirsApart'
  BY <1>1, <1>2, <1>4 DEF DirsApart
<1>6. TablesApart'
  <2>1. ASSUME NEW o \in Owners', NEW k \in Indices, Present(Entry(o, k))'
        PROVE  /\ Entry(o, k).frame' \in PoolFrames \ free'
               /\ \A p \in Owners' : DirOf(p)' # Entry(o, k).frame'
    <3>1. /\ Entry(o, k).frame' \in PoolFrames \ free'
      BY <1>1, <1>2, <1>3, <2>1 DEF VmmTypeOK, TablesApart, Present
    <3>2. ASSUME NEW p \in Owners' PROVE DirOf(p)' # Entry(o, k).frame'
      BY <1>1, <1>2, <1>3, <1>4, <2>1, <3>2 DEF DirsApart, TablesApart, Present
    <3> QED
      BY <3>1, <3>2
  <2>2. ASSUME NEW o \in Owners', NEW k \in Indices, Present(Entry(o, k))',
               NEW p \in Owners', NEW l \in Indices, Present(Entry(p, l))',
               Entry(p, l).frame' = Entry(o, k).frame'
        PROVE  k = l /\ (o = p \/ (k < KERNEL_TABLES /\ free' = {}))
    <3>1. CASE Entry(o, k).frame' \in free
      BY <1>1, <1>2, <1>3, <2>2, <3>1 DEF TablesApart, Present
    <3>2. CASE Entry(o, k).frame' \notin free
      BY <1>1, <1>2, <1>3, <2>2, <3>2 DEF TablesApart, KernelOnly, Present
    <3> QED
      BY <3>1, <3>2
  <2> QED
    BY <2>1, <2>2 DEF TablesApart
<1>7. KernelOnly'
  BY <1>1, <1>2 DEF KernelOnly
<1>8. IdentityMapped'
  <2> SUFFICES ASSUME NEW o \in Owners', NEW v \in KernelPages, KernelDone(o, v)'
               PROVE  /\ Present(Entry(o, Pdi(v)))'
                      /\ Present(Slot(o, Pdi(v), Pti(v)))'
                      /\ Slot(o, Pdi(v), Pti(v)).frame' = v
    BY DEF IdentityMapped
  <2>1. Pdi(v) \in Indices /\ Pti(v) \in Indices
    BY KernelPagesArePages, PageIndices
  <2>2. CASE o = u
    BY <1>2, <2>2 DEF KernelDone
  <2>3. CASE o # u
    <3>1. o \in Owners /\ KernelDone(o, v)
      BY <1>2, <2>3 DEF KernelDone
    <3> QED
      BY <1>1, <2>1, <2>3, <3>1 DEF IdentityMapped, Present
  <2> QED
    BY <2>2, <2>3
<1>9. KernelUntouched'
  <2> SUFFICES ASSUME free' # {}, NEW v \in KernelPages
               PROVE  Slot(0, Pdi(v), Pti(v))' = Pte(v, {"PRESENT", "WRITABLE"})
    BY DEF KernelUntouched, Pte
  <2>1. Pdi(v) \in Indices /\ Pti(v) \in Indices /\ KernelDone(0, v)
    BY KernelPagesArePages, PageIndices DEF KernelDone
  <2> QED
    BY <1>1, <1>2, <2>1 DEF IdentityMapped, KernelUntouched
<1>10. CodeReached'
  <2> SUFFICES ASSUME NEW p \in Live', NEW w \in CodePages, CodeDone(p, w)'
               PROVE  /\ "USER" \in Entry(p, Pdi(w)).flags'
                      /\ "USER" \in Slot(p, Pdi(w), Pti(w)).flags'
    BY DEF CodeReached
  <2>1. p # u /\ p \in Live /\ p \in Owners /\ p # 0
    BY <1>1, <1>2, Owned DEF CodeDone
  <2>2. w \in KernelPages /\ Pdi(w) \in Indices /\ Pti(w) \in Indices
    BY CodeInKernel
  <2>3. CodeDone(p, w) /\ KernelDone(p, w)
    BY <2>1 DEF CodeDone, KernelDone
  <2> QED
    BY <1>1, <2>1, <2>2, <2>3 DEF CodeReached, IdentityMapped
<1>11. /\ StackReached'
       /\ \A p \in Live : \A w \in StackPages : p # u =>
            StackDone(p, w) /\ FrameAt(p, w)' = FrameAt(p, w)
       /\ \A w \in StackPages : ~StackDone(u, w)'
  <2>1. \A w : ~StackDone(u, w)'
    BY DEF StackDone
  <2>2. ASSUME NEW p \in Live, NEW w \in StackPages, p # u
        PROVE  /\ StackDone(p, w) /\ FrameAt(p, w)' = FrameAt(p, w)
               /\ Everything \subseteq Entry(p, Pdi(w)).flags'
               /\ Everything \subseteq Slot(p, Pdi(w), Pti(w)).flags'
    <3>1. StackDone(p, w)
      BY <2>2 DEF StackDone
    <3>2. /\ Everything \subseteq Entry(p, Pdi(w)).flags
          /\ Everything \subseteq Slot(p, Pdi(w), Pti(w)).flags
          /\ Present(Entry(p, Pdi(w)))
      BY <1>1, <3>1 DEF StackReached, Everything, Present
    <3> QED
      BY <1>2, <2>2, <3>1, <3>2, StackBeyondKernel DEF FrameAt
  <2> QED
    BY <2>1, <2>2 DEF StackReached, Everything
<1>12. ASSUME NEW g, Private(g) PROVE Private(g)'
  <2>1. g \in PoolFrames \ free' /\ g \notin free /\ \A q \in Users : kstack'[q] # g
    BY <1>12 DEF Private
  <2>2. \A o \in Owners' : DirOf(o)' # g
    BY <1>4, <1>12, <2>1 DEF Private
  <2>3. \A o \in Owners' : \A k \in Indices : Present(Entry(o, k))' => Entry(o, k).frame' # g
    BY <1>2, <1>3, <1>12, <2>1 DEF Private, Present
  <2> QED
    BY <2>1, <2>2, <2>3 DEF Private
<1>13. StacksOwn' /\ FrameOwn'
  BY <1>1, <1>11, <1>12 DEF StacksOwn, FrameOwn
<1> QED
  BY <1>5, <1>6, <1>7, <1>8, <1>9, <1>10, <1>11, <1>13 DEF Apart, Contents, Ownership

LEMMA CreateDirectoryInv ==
  ASSUME VmmInv, CreateDirectory
  PROVE  VmmInv'
<1> SUFFICES ASSUME NEW u, u = proc PROVE VmmInv'
  OBVIOUS
<1>1. VmmTypeOK /\ Progress /\ Apart
  BY DEF VmmInv
<1>2. /\ job = "create_directory" /\ UNCHANGED <<g_kernel_dir, frame, proc, kstack>>
      /\ u \in Users /\ u # 0 /\ active[u] /\ u \notin Live /\ Owners = {0} \cup Live
  BY <1>1, Owned DEF CreateDirectory, Progress, ForUser, Live, Owners
<1>3. CASE free = {} /\ GiveUp /\ UNCHANGED <<mem, free, i, page_dir>>
  <2>1. job' = "next" /\ active' = [active EXCEPT ![u] = FALSE]
    BY <1>3 DEF GiveUp
  <2>2. Live' \subseteq Live /\ u \notin Live' /\ Owners' = {0} \cup Live'
    BY <1>1, <1>2, <2>1 DEF Live, Owners, VmmTypeOK
  <2>3. VmmTypeOK' /\ Progress'
    BY <1>1, <1>2, <1>3, <2>1 DEF VmmTypeOK, Progress, Jobs, ForUser
  <2>4. Apart' /\ Contents' /\ StacksOwn'
    BY <1>2, <1>3, <2>1, <2>2, NoWrite DEF KernelDone, CodeDone, StackDone
  <2> QED
    BY <2>1, <2>3, <2>4 DEF VmmInv, Ownership, FrameOwn
<1>4. ASSUME NEW f \in PoolFrames, IsLowest(f), page_dir' = [page_dir EXCEPT ![u] = f],
             mem' = [mem EXCEPT ![f] = Cleared], Taken(f), job' = "clone", i' = 0,
             UNCHANGED active
      PROVE  VmmInv'
  <2>1. f \in Nat /\ f \in free /\ free' = free \ {f}
    BY <1>4, PlacesAssumption DEF KernelPages, IsLowest, Taken
  <2>2. Live' = Live \cup {u}
    BY <1>2, <1>4 DEF Live
  <2>3. VmmTypeOK' /\ Progress'
    BY <1>1, <1>2, <1>4, <2>1, ClearedTable DEF VmmTypeOK, Progress, Jobs, ForUser
  <2>4. /\ \A o \in Owners : o # u => DirOf(o)' = DirOf(o)
        /\ DirOf(u)' = f
    BY <1>1, <1>2, <1>4, Owned DEF DirOf, VmmTypeOK
  <2>5. \A g \in PoolFrames \ free : mem'[g] = mem[g]
    BY <1>1, <1>4, <2>1 DEF VmmTypeOK
  <2>6. \A o \in Owners : \A k \in Indices : o # u => Entry(o, k)' = Entry(o, k)
    BY <1>1, <2>4, <2>5 DEF Entry, Apart, DirsApart
  <2>7. \A o \in Owners : \A k, j \in Indices :
          o # u /\ Present(Entry(o, k)) => Slot(o, k, j)' = Slot(o, k, j)
    BY <1>1, <2>5, <2>6 DEF Slot, Apart, TablesApart
  <2>8. \A k \in Indices : ~Present(Entry(u, k))'
    BY <1>1, <1>4, <2>4, ClearedTable DEF Entry, VmmTypeOK
  <2>9. \A v \in KernelPages : ~(Pdi(v) < i')
    BY <1>4, PageIndices, KernelPagesArePages DEF Indices
  <2>10. \A o \in Owners : DirOf(o) # DirOf(u)'
    BY <1>1, <2>1, <2>4 DEF Apart, DirsApart
  <2>11. Apart' /\ Contents' /\ Ownership'
    BY <1>2, <1>4, <2>1, <2>2, <2>4, <2>6, <2>7, <2>8, <2>9, <2>10, FreshWrite
  <2> QED
    BY <2>3, <2>11 DEF VmmInv
<1> QED
  BY <1>3, <1>4 DEF CreateDirectory

(* One round of the cloning loop: a table of the kernel is copied into a   *)
(* fresh frame, or shared when there is none.                              *)
LEMMA CloneInv ==
  ASSUME VmmInv, Clone
  PROVE  VmmInv'
<1> SUFFICES ASSUME NEW u, u = proc, NEW n, n = i PROVE VmmInv'
  OBVIOUS
<1> DEFINE d == page_dir[u]
           pde == Entry(0, n)
<1>1. VmmTypeOK /\ Progress /\ Apart /\ IdentityMapped
  BY DEF VmmInv, Contents
<1>2. /\ job = "clone" /\ job' = "clone" /\ n \in Indices /\ n \in Nat /\ i' = n + 1
      /\ UNCHANGED <<g_kernel_dir, job, frame, proc, procVars>>
  BY <1>1 DEF Clone, VmmTypeOK
<1>3. /\ u \in Users /\ u # 0 /\ u \in Live /\ u \in Owners /\ 0 \in Owners
      /\ DirOf(u) = d /\ Live' = Live /\ Owners' = Owners /\ Owners = {0} \cup Live
      /\ pde = mem[g_kernel_dir][n]
  BY <1>1, <1>2, Owned DEF Progress, ForUser, Live, Owners, DirOf, procVars, Entry
<1>4. /\ \A o : DirOf(o)' = DirOf(o)
      /\ \A o \in Owners : DirOf(o) \in PoolFrames \ free /\ (o # u => DirOf(o) # d)
      /\ \A o \in Owners : \A k \in Indices : Present(Entry(o, k)) =>
           Entry(o, k).frame \in PoolFrames \ free /\ Entry(o, k).frame # d
  BY <1>1, <1>2, <1>3 DEF DirOf, procVars, Apart, DirsApart, TablesApart
<1>5. mem \in Mem /\ free \subseteq PoolFrames /\ pde \in [frame : Nat, flags : SUBSET Flags]
  BY <1>1, <1>2, <1>3, <1>4 DEF VmmTypeOK, Mem, Entry
<1>6. \A v \in KernelPages :
        /\ KernelDone(0, v) /\ Pdi(v) \in Indices /\ Pti(v) \in Indices
        /\ Pdi(v) < i' => Pdi(v) = n \/ KernelDone(u, v)
  BY <1>2, <1>3, PageIndices, KernelPagesArePages DEF KernelDone, Indices
<1>7. CASE ~Present(pde) /\ UNCHANGED <<mem, free>>
  <2>1. \A v \in KernelPages : Pdi(v) # n
    BY <1>1, <1>3, <1>6, <1>7 DEF IdentityMapped
  <2>2. VmmTypeOK' /\ Progress'
    BY <1>1, <1>2, <1>7 DEF VmmTypeOK, Progress, procVars, ForUser
  <2>3. \A o \in Owners', v \in KernelPages : KernelDone(o, v)' => KernelDone(o, v)
    BY <1>2, <1>3, <1>6, <2>1 DEF KernelDone
  <2>4. Apart' /\ Contents' /\ StacksOwn'
    <3>1. /\ \A p \in Live', v \in CodePages : CodeDone(p, v)' => CodeDone(p, v)
          /\ \A p \in Live', v \in StackPages : StackDone(p, v)' => StackDone(p, v)
      BY <1>2, <1>7 DEF CodeDone, StackDone
    <3>2. /\ UNCHANGED <<mem, g_kernel_dir, page_dir, kstack>>
          /\ free' \subseteq free /\ job # "vmm_init" /\ job # "identity"
          /\ job' # "vmm_init" /\ job' # "identity"
      BY <1>2, <1>7 DEF procVars
    <3>3. \A q \in Users : kstack'[q] \in free \cup {kstack[q]}
      BY <3>2
    <3> QED
      BY <1>3, <2>3, <3>1, <3>2, <3>3, NoWrite
  <2> QED
    BY <1>2, <2>2, <2>4 DEF VmmInv, Ownership, FrameOwn
<1>8. ASSUME Present(pde), free' \subseteq free, mem' \in Mem,
             \A g \in PoolFrames \ free : g # d => mem'[g] = mem[g],
             \A k \in Indices : k # n => mem'[d][k] = mem[d][k],
             (mem'[d][n].frame = pde.frame /\ free = {}) \/ mem'[d][n].frame \in free \ free',
             Present(mem'[d][n]),
             \A j \in Indices : /\ mem'[mem'[d][n].frame][j].frame = mem[pde.frame][j].frame
                                /\ Present(mem[pde.frame][j]) => Present(mem'[mem'[d][n].frame][j])
      PROVE  VmmInv'
  <2>1. VmmTypeOK' /\ Progress'
    <3>1. VmmTypeOK'
      <4>1. free' \subseteq PoolFrames
        BY <1>5, <1>8
      <4>2. i' \in Nat
        BY <1>1, <1>2 DEF VmmTypeOK
      <4> QED
        BY <1>1, <1>2, <1>8, <4>1, <4>2 DEF VmmTypeOK, procVars, Mem
    <3>2. Progress'
      BY <1>1, <1>2, <1>8 DEF Progress, procVars, ForUser
    <3> QED
      BY <3>1, <3>2
  <2>2. \A o \in Owners : \A k \in Indices : o # u => Entry(o, k)' = Entry(o, k)
    <3>1. \A o \in Owners : o # u => mem'[DirOf(o)'] = mem[DirOf(o)]
      BY <1>4, <1>8
    <3> QED
      BY <3>1 DEF Entry
  <2>3. \A k \in Indices : k # n => Entry(u, k)' = Entry(u, k)
    <3>1. DirOf(u)' = d /\ DirOf(u) = d
      BY <1>3, <1>4
    <3> QED
      BY <1>8, <3>1 DEF Entry
  <2>4. Entry(u, n)' = mem'[d][n]
    BY <1>3, <1>4 DEF Entry
  <2>5. \A o \in Owners : \A k, j \in Indices :
          (o # u \/ k # n) /\ Present(Entry(o, k)) => Slot(o, k, j)' = Slot(o, k, j)
    <3> SUFFICES ASSUME NEW o \in Owners, NEW k \in Indices, NEW j \in Indices,
                        o # u \/ k # n, Present(Entry(o, k))
                 PROVE  Slot(o, k, j)' = Slot(o, k, j)
      OBVIOUS
    <3>1. Entry(o, k)' = Entry(o, k)
      BY <2>2, <2>3
    <3>2. mem'[Entry(o, k).frame] = mem[Entry(o, k).frame]
      BY <1>4, <1>8
    <3> QED
      BY <3>1, <3>2 DEF Slot
  <2>6. \A j \in Indices : Slot(u, n, j)' = mem'[mem'[d][n].frame][j]
    BY <2>4 DEF Slot
  <2>7. \A j \in Indices : Slot(0, n, j) = mem[pde.frame][j]
    BY DEF Slot
  <2>8. ASSUME NEW v \in KernelPages, Pdi(v) < i'
        PROVE  /\ Present(Entry(u, Pdi(v)))'
               /\ Present(Slot(u, Pdi(v), Pti(v)))'
               /\ Slot(u, Pdi(v), Pti(v)).frame' = v
    <3>1. CASE Pdi(v) = n
      <4>1. Present(Slot(0, n, Pti(v))) /\ Slot(0, n, Pti(v)).frame = v
        BY <1>1, <1>3, <1>6, <3>1 DEF IdentityMapped
      <4>2. /\ Slot(u, n, Pti(v))'.frame = Slot(0, n, Pti(v)).frame
            /\ Present(Slot(0, n, Pti(v))) => Present(Slot(u, n, Pti(v))')
        BY <1>6, <1>8, <2>6, <2>7
      <4>3. Present(Entry(u, n)')
        BY <1>8, <2>4
      <4> QED
        BY <3>1, <4>1, <4>2, <4>3
    <3>2. CASE Pdi(v) # n
      <4>1. /\ Present(Entry(u, Pdi(v))) /\ Present(Slot(u, Pdi(v), Pti(v)))
            /\ Slot(u, Pdi(v), Pti(v)).frame = v
        BY <1>1, <1>3, <1>6, <2>8, <3>2 DEF IdentityMapped
      <4> QED
        BY <1>3, <1>6, <2>3, <2>5, <3>2, <4>1
    <3> QED
      BY <3>1, <3>2
  <2>9. ASSUME NEW k \in Indices, Present(Entry(u, k))'
        PROVE  \/ Entry(u, k).frame' \in free \ free' /\ Entry(u, k).frame' # DirOf(u)'
                  /\ \A l \in Indices : Present(Entry(u, l))' /\ l # k =>
                       Entry(u, l).frame' # Entry(u, k).frame'
               \/ Present(Entry(u, k)) /\ Entry(u, k).frame' = Entry(u, k).frame
               \/ free = {} /\ Present(Entry(0, k)) /\ Entry(u, k).frame' = Entry(0, k).frame
    <3>1. CASE k # n
      BY <2>3, <2>9, <3>1
    <3>2. CASE k = n /\ mem'[d][n].frame \in free \ free'
      <4>1. \A l \in Indices : Present(Entry(u, l))' /\ l # k => Entry(u, l).frame' \notin free
        BY <1>3, <1>4, <2>3, <3>2
      <4> QED
        BY <1>3, <1>4, <2>4, <3>2, <4>1
    <3>3. CASE k = n /\ mem'[d][n].frame = pde.frame /\ free = {}
      BY <1>8, <2>4, <3>3
    <3> QED
      BY <1>8, <3>1, <3>2, <3>3
  <2>10. Apart' /\ Contents' /\ Ownership'
    <3>1. /\ DirOf(u)' \in PoolFrames \ free'
          /\ \A o \in Owners : o # u => DirOf(o) # DirOf(u)'
          /\ Live' = Live \cup {u}
          /\ UNCHANGED <<g_kernel_dir, proc, kstack>>
      BY <1>2, <1>3, <1>4, <1>8 DEF procVars
    <3>2. /\ \A o \in Owners : o # u => DirOf(o)' = DirOf(o)
          /\ DirOf(u)' = DirOf(u) /\ job = "clone" /\ job' = "clone" /\ free' \subseteq free
          /\ u = proc
      BY <1>2, <1>3, <1>4, <1>8
    <3>3. \A o \in Owners : \A k, j \in Indices :
            o # u /\ Present(Entry(o, k)) => Slot(o, k, j)' = Slot(o, k, j)
      BY <2>5
    <3> QED
      BY <1>3, <2>2, <2>8, <2>9, <3>1, <3>2, <3>3, FreshWrite
  <2> QED
    BY <2>1, <2>10 DEF VmmInv
<1>9. CASE /\ Present(pde) /\ free = {} /\ UNCHANGED free
           /\ mem' = [mem EXCEPT ![d][n] = WithUser(pde)]
  <2>1. /\ WithUser(pde) \in [frame : Nat, flags : SUBSET Flags]
        /\ WithUser(pde).frame = pde.frame /\ Present(WithUser(pde))
    BY <1>5, <1>9 DEF WithUser, Flags, Present
  <2>2. /\ d \in PoolFrames /\ pde.frame \in PoolFrames /\ pde.frame # d
    BY <1>2, <1>3, <1>4, <1>9
  <2>3. /\ mem' \in Mem /\ mem'[d][n] = WithUser(pde)
        /\ \A g \in PoolFrames : g # d => mem'[g] = mem[g]
        /\ \A k \in Indices : k # n => mem'[d][k] = mem[d][k]
    <3>1. mem[d] \in [Indices -> [frame : Nat, flags : SUBSET Flags]]
      BY <1>5, <2>2 DEF Mem
    <3>2. mem' = [mem EXCEPT ![d] = [mem[d] EXCEPT ![n] = WithUser(pde)]]
      BY <1>5, <1>9, <2>2 DEF Mem
    <3>3. [mem[d] EXCEPT ![n] = WithUser(pde)] \in [Indices -> [frame : Nat, flags : SUBSET Flags]]
      BY <1>2, <2>1, <3>1
    <3>4. mem' \in Mem
      BY <1>5, <2>2, <3>2, <3>3 DEF Mem
    <3>5. mem'[d] = [mem[d] EXCEPT ![n] = WithUser(pde)]
      BY <1>5, <2>2, <3>2 DEF Mem
    <3> QED
      BY <1>2, <1>5, <2>2, <3>1, <3>2, <3>4, <3>5 DEF Mem
  <2>4. \A j \in Indices : mem'[mem'[d][n].frame][j] = mem[pde.frame][j]
    BY <2>1, <2>2, <2>3
  <2>5. /\ Present(pde) /\ free' \subseteq free /\ free = {} /\ mem'[d][n].frame = pde.frame
        /\ Present(mem'[d][n])
    BY <1>9, <2>1, <2>3
  <2> QED
    BY <1>8, <2>3, <2>4, <2>5
<1>10. ASSUME Present(pde), NEW f \in PoolFrames, IsLowest(f), Taken(f),
              mem' = [mem EXCEPT ![f] = Copy(mem[pde.frame]),
                                 ![d][n] = [WithUser(pde) EXCEPT !.frame = f]]
       PROVE  VmmInv'
  <2>1. f \in Nat /\ f \in free /\ free' = free \ {f}
    BY <1>10, PlacesAssumption DEF KernelPages, IsLowest, Taken
  <2>2. d \in PoolFrames /\ pde.frame \in PoolFrames /\ pde.frame # d /\ f # d /\ f # pde.frame
    BY <1>2, <1>3, <1>4, <1>10, <2>1
  <2> DEFINE new == [WithUser(pde) EXCEPT !.frame = f]
             table == Copy(mem[pde.frame])
  <2>3. new \in [frame : Nat, flags : SUBSET Flags] /\ new.frame = f /\ Present(new)
    BY <1>5, <1>10, <2>1 DEF WithUser, Flags, Present
  <2>4. mem[pde.frame] \in [Indices -> [frame : Nat, flags : SUBSET Flags]]
    BY <1>5, <2>2 DEF Mem
  <2>5. /\ table \in [Indices -> [frame : Nat, flags : SUBSET Flags]]
        /\ \A j \in Indices : /\ table[j].frame = mem[pde.frame][j].frame
                              /\ Present(mem[pde.frame][j]) => Present(table[j])
    BY <2>4 DEF Copy, Flags, Present
  <2>6. /\ mem' \in Mem /\ mem'[d][n] = new /\ mem'[f] = table
        /\ \A g \in PoolFrames \ free : g # d => mem'[g] = mem[g]
        /\ \A k \in Indices : k # n => mem'[d][k] = mem[d][k]
    BY <1>2, <1>5, <1>10, <2>1, <2>2, <2>3, <2>5 DEF Mem
  <2>7. mem'[d][n].frame = f /\ Present(mem'[d][n])
    BY <2>3, <2>6
  <2> HIDE DEF new, table
  <2>8. mem'[mem'[d][n].frame] = table
    BY <2>6, <2>7
  <2>9. ASSUME NEW j \in Indices
        PROVE  /\ mem'[mem'[d][n].frame][j].frame = mem[pde.frame][j].frame
               /\ Present(mem[pde.frame][j]) => Present(mem'[mem'[d][n].frame][j])
    BY <2>5, <2>8
  <2>10. mem'[d][n].frame \in free \ free' /\ free' \subseteq free
    BY <2>1, <2>7
  <2> QED
    BY <1>8, <1>10, <2>6, <2>7, <2>9, <2>10
<1> QED
  BY <1>2, <1>3, <1>7, <1>9, <1>10 DEF Clone, CloneInto

-----------------------------------------------------------------------------
LEMMA VmmInitInv ==
  ASSUME VmmInit
  PROVE  VmmInv
<1>1. /\ job = "vmm_init" /\ i = 0 /\ proc = 0 /\ free \subseteq PoolFrames
      /\ mem = [f \in PoolFrames |-> Cleared] /\ g_kernel_dir = 0 /\ frame = 0
      /\ page_dir = [p \in Users |-> 0] /\ active = [p \in Users |-> FALSE]
      /\ kstack = [p \in Users |-> 0]
  BY DEF VmmInit
<1>2. VmmTypeOK
  BY <1>1, ClearedTable, SizesAssumption DEF VmmTypeOK, Jobs
<1>3. Progress
  BY <1>1, PlacesAssumption DEF Progress, ForUser
<1>4. Live = {} /\ Owners = {}
  BY <1>1 DEF Live, Owners
<1>5. Apart /\ Contents /\ Ownership
  BY <1>1, <1>4 DEF Apart, DirsApart, TablesApart, KernelOnly, Contents, IdentityMapped,
     KernelUntouched, CodeReached, StackReached, Ownership, StacksOwn, FrameOwn
<1> QED
  BY <1>2, <1>3, <1>5 DEF VmmInv

LEMMA VmmStepInv == VmmInv /\ [VmmNext]_vmmVars => VmmInv'
<1> SUFFICES ASSUME VmmInv, [VmmNext]_vmmVars PROVE VmmInv'
  OBVIOUS
<1>1. CASE KernelDirectory
  BY <1>1, KernelDirectoryInv
<1>2. CASE IdentityMap
  BY <1>2, IdentityMapInv
<1>3. CASE KernelThreads
  BY <1>3, KernelThreadsInv
<1>4. CASE CreateUser
  BY <1>4, CreateUserInv
<1>5. CASE CreateDirectory
  BY <1>5, CreateDirectoryInv
<1>6. CASE Clone
  BY <1>6, CloneInv
<1>7. CASE Cloned
  BY <1>7, ClonedInv
<1>8. CASE MapCode
  BY <1>8, MapCodeInv
<1>9. CASE CodeMapped
  BY <1>9, CodeMappedInv
<1>10. CASE StackFrame
  BY <1>10, StackFrameInv
<1>11. CASE MapStack
  BY <1>11, MapStackInv
<1>12. CASE UserThread
  BY <1>12, UserThreadInv
<1>13. CASE MapThunk
  BY <1>13, MapThunkInv
<1>14. CASE Done \/ UNCHANGED vmmVars
  BY <1>14, StutterInv DEF Done
<1> QED
  BY <1>1, <1>2, <1>3, <1>4, <1>5, <1>6, <1>7, <1>8, <1>9, <1>10, <1>11, <1>12, <1>13, <1>14
     DEF VmmNext

LEMMA VmmInvariance == VmmSpec => []VmmInv
BY VmmInitInv, VmmStepInv, PTL DEF VmmSpec

-----------------------------------------------------------------------------
(* A created process has everything that was to be mapped for it.          *)
LEMMA CreatedDone ==
  ASSUME VmmInv, NEW p \in Created
  PROVE  /\ p \in Live /\ p \in Owners /\ p \in Users /\ p # 0 /\ DirOf(p) = page_dir[p]
         /\ 0 \in Owners /\ DirOf(0) = g_kernel_dir
         /\ \A v : KernelDone(p, v) /\ CodeDone(p, v) /\ StackDone(p, v)
<1>1. VmmTypeOK /\ Progress
  BY DEF VmmInv
<1>2. p \in Users /\ active[p] /\ (p = proc => job = "next") /\ p \in Nat /\ p > 0
  BY <1>1 DEF Created, Users, VmmTypeOK
<1>3. p \in Live
  BY <1>2 DEF Live
<1>4. job # "vmm_init"
  BY <1>1, <1>3, Owned
<1> QED
  BY <1>1, <1>2, <1>3, <1>4, Owned DEF KernelDone, CodeDone, StackDone, DirOf

(* vmm.c:7 and vmm.c:92: whatever the sizes of pool, tables and image, a   *)
(* created process sees the kernel's pages in place and the kernel's own   *)
(* tables are untouched while there are frames.                            *)
THEOREM KernelVisibleAlways == VmmSpec => []KernelVisible
<1>1. VmmInv => KernelVisible
  <2> SUFFICES ASSUME VmmInv PROVE KernelVisible
    OBVIOUS
  <2>1. ASSUME NEW p \in Created, NEW v \in KernelPages
        PROVE  Mapped(page_dir[p], v) /\ PteOf(page_dir[p], v).frame = v
    BY CreatedDone DEF VmmInv, Contents, IdentityMapped, Entry, Slot, Mapped, PteOf, PdeOf
  <2>2. ASSUME KernelReady, free # {}, NEW v \in KernelPages
        PROVE  mem[mem[g_kernel_dir][Pdi(v)].frame][Pti(v)] = Pte(v, {"PRESENT", "WRITABLE"})
    <3>1. 0 \in Owners /\ job # "identity"
      BY <2>2, Owned DEF VmmInv, KernelReady
    <3> QED
      BY <2>2, <3>1 DEF VmmInv, Contents, KernelUntouched, Slot, Entry, DirOf
  <2> QED
    BY <2>1, <2>2 DEF KernelVisible
<1> QED
  BY <1>1, VmmInvariance, PTL

(* A created process reaches its code and its stack from ring 3, although  *)
(* nothing tells proc_create_user when a page could not be mapped: for     *)
(* every stack of two pages or more.                                       *)
THEOREM UserPagesReachableAlways == VmmSpec => []UserPagesReachable
<1>1. VmmInv => UserPagesReachable
  <2> SUFFICES ASSUME VmmInv, NEW p \in Created
               PROVE  /\ \A v \in CodePages \cup StackPages : IsUserPtr(page_dir[p], v)
                      /\ \A v \in StackPages : Grants(page_dir[p], v, "WRITABLE")
    BY DEF UserPagesReachable
  <2>1. ASSUME NEW v \in CodePages PROVE IsUserPtr(page_dir[p], v)
    <3>1. Present(Entry(p, Pdi(v))) /\ Present(Slot(p, Pdi(v), Pti(v)))
      BY CreatedDone, CodeInKernel DEF VmmInv, Contents, IdentityMapped
    <3>2. "USER" \in Entry(p, Pdi(v)).flags /\ "USER" \in Slot(p, Pdi(v), Pti(v)).flags
      BY CreatedDone DEF VmmInv, Contents, CodeReached
    <3> QED
      BY <3>1, <3>2, CreatedDone DEF IsUserPtr, Mapped, Grants, PteOf, PdeOf, Slot, Entry
  <2>2. ASSUME NEW v \in StackPages
        PROVE  IsUserPtr(page_dir[p], v) /\ Grants(page_dir[p], v, "WRITABLE")
    <3>1. /\ Everything \subseteq Entry(p, Pdi(v)).flags
          /\ Everything \subseteq Slot(p, Pdi(v), Pti(v)).flags
      BY CreatedDone DEF VmmInv, Contents, StackReached
    <3> QED
      BY <3>1, CreatedDone
         DEF IsUserPtr, Mapped, Grants, PteOf, PdeOf, Slot, Entry, Everything, Present
  <2> QED
    BY <2>1, <2>2
<1> QED
  BY <1>1, VmmInvariance, PTL

(* Frames that are as different as the pages of the stack are as many.     *)
LEMMA StackSize ==
  ASSUME NEW f \in [StackPages -> Nat], \A v, w \in StackPages : f[v] = f[w] => v = w
  PROVE  Cardinality({f[v] : v \in StackPages}) = STACK_PAGES
<1>1. /\ STACK_START \in Int /\ STACK_START + STACK_PAGES - 1 \in Int /\ STACK_PAGES \in Nat
      /\ ~(STACK_START > STACK_START + STACK_PAGES - 1)
  BY PlacesAssumption
<1>2. IsFiniteSet(StackPages) /\ Cardinality(StackPages) = STACK_PAGES
  <2>1. Cardinality(StackPages) = (STACK_START + STACK_PAGES - 1) - STACK_START + 1
    BY <1>1, FS_Interval DEF StackPages
  <2> QED
    BY <1>1, <2>1, FS_Interval DEF StackPages
<1>3. f \in Bijection(StackPages, {f[v] : v \in StackPages})
  BY DEF Bijection, Injection, Surjection, IsInjective
<1> QED
  BY <1>2, <1>3, FS_Bijection DEF ExistsBijection

(* The frames of a created process's stack are its own, and no two pages   *)
(* share one.                                                              *)
THEOREM StacksPrivateAlways == VmmSpec => []StacksPrivate
<1>1. VmmInv => StacksPrivate
  <2> SUFFICES ASSUME VmmInv, NEW p \in Created, NEW q \in Created
               PROVE  /\ p # q => StackFrames(p) \cap StackFrames(q) = {}
                      /\ StackFrames(p) \cap
                           (TablesOf(page_dir[q]) \cup TablesOf(g_kernel_dir) \cup {kstack[q]}) = {}
                      /\ Cardinality(StackFrames(p)) = STACK_PAGES
    BY DEF StacksPrivate
  <2>1. /\ StacksOwn /\ p \in Live /\ q \in Live /\ q \in Users /\ 0 \in Owners /\ q \in Owners
        /\ DirOf(q) = page_dir[q] /\ DirOf(0) = g_kernel_dir
    BY CreatedDone DEF VmmInv, Ownership
  <2>2. /\ StackFrames(p) = {FrameAt(p, v) : v \in StackPages}
        /\ StackFrames(q) = {FrameAt(q, v) : v \in StackPages}
    BY CreatedDone DEF StackFrames, FrameAt, Slot, Entry, PteOf, PdeOf
  <2>3. \A v \in StackPages :
          /\ Private(FrameAt(p, v))
          /\ \A w \in StackPages : FrameAt(q, w) = FrameAt(p, v) => p = q /\ v = w
    BY <2>1, CreatedDone DEF StacksOwn
  <2>4. \A f : Private(f) =>
          f \notin TablesOf(page_dir[q]) \cup TablesOf(g_kernel_dir) \cup {kstack[q]}
    BY <2>1 DEF Private, TablesOf, Entry
  <2>5. \A v, w \in StackPages : FrameAt(p, v) = FrameAt(p, w) => v = w
    BY <2>1, CreatedDone DEF StacksOwn
  <2>6. Cardinality({FrameAt(p, v) : v \in StackPages}) = STACK_PAGES
    <3> DEFINE f == [v \in StackPages |-> FrameAt(p, v)]
    <3>1. f \in [StackPages -> Nat]
      <4>1. PoolFrames \subseteq Nat
        BY PlacesAssumption DEF KernelPages
      <4>2. \A v \in StackPages : FrameAt(p, v) \in PoolFrames
        BY <2>3 DEF Private
      <4> QED
        BY <4>1, <4>2
    <3>2. Cardinality({f[v] : v \in StackPages}) = STACK_PAGES
      BY <2>5, <3>1, StackSize
    <3>3. {f[v] : v \in StackPages} = {FrameAt(p, v) : v \in StackPages}
      OBVIOUS
    <3> QED
      BY <3>2, <3>3
  <2> QED
    BY <2>2, <2>3, <2>4, <2>6
<1> QED
  BY <1>1, VmmInvariance, PTL
=============================================================================
