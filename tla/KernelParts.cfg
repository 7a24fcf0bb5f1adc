SPECIFICATION MCSpec
CONSTANTS
  LOW_KB = 4
  PAGE_KB = 4
  BASE_KB = 8
  END_KB = 32
  WORD_KB = 256
  MAX_FRAMES = 8
  MemUpper <- EnoughMemory
  ENTRIES = 6
  KERNEL_TABLES = 5
  PoolFrames <- MCPool
  PoolEnds <- MCPoolEnds
  NUSERS = 2
  CODE_START = 1
  CODE_PAGES = 1
  STACK_START = 32
  STACK_PAGES = 2
  THUNK_PAGE = 0
  Threads = {t1, t2, t3, t4}
  NULL = NULL
  RADIX = 2
SYMMETRY ThreadSymmetry
INVARIANTS
  Accounting
  FramesInRam
  KernelVisible
  UserPagesReachable
  StacksPrivate
  RingShape
  StubTransparent
PROPERTIES
  ImplementsFrameAllocator
  ImplementsRunQueue
  ShownWasTime
