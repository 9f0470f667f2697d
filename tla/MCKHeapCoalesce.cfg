SPECIFICATION MemorySpec
CONSTANTS
  PAGE_SIZE = 4
  E820_MAP <- Map
  E820_MAX = 8
  PMM_MAX_PAGES = 32
  pmm_mem_start = 4
  MaxRun = 2
  HDR = 1
  SPLIT_MIN = 1
  Sizes = {1, 3}
  SLAB_HDR = 1
  slab_sizes <- Objects
  SLAB_PAGE_OBJECTS = 2
  SlabSizes = {2}
  MaxLive = 3
  Procs = {p1, p2}
  ENTRIES = 3
  USER_ENTRIES = 2
  HEAP_PAGES = 1
  STACK_PAGES = 1
  BrkArgs = {6}
  SbrkArgs = {7}
  BRK_LIMIT = 9
  MMAP_GAP = 1
  MapArgs = {2, 6}
  MaxPages = 2
CHECK_DEADLOCK FALSE
INVARIANT BlocksInsideRuns
