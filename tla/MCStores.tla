------------------------------ MODULE MCStores ------------------------------
(***************************************************************************)
(* BufferCache, MemAlloc, UMalloc and VmLayout on small sets: blocks of    *)
(* the disk, pieces of memory and address spaces, of which each byte has   *)
(* one owner.  A behaviour is one of the component in focus; the others    *)
(* stay as they begin.  Of the cache there are two kinds: either both      *)
(* processes use it, or one at a time, and then the controller may ask for *)
(* interrupts that no command has caused.  Processes and buffers are       *)
(* interchangeable, and so are the blocks that are indirect and those that *)
(* are not.                                                                *)
(***************************************************************************)
EXTENDS BufferCache

VARIABLES
  focus,
  region, header, regionRefused,
  list, freep, brk, given, lock, in_malloc, mpc, wanted, refused,
  sz, stack_sz, pages, free, killed, halted

lab3 == <<region, header, regionRefused>>
malloc == <<list, freep, brk, given, lock, in_malloc, mpc, wanted, refused>>
layout == <<sz, stack_sz, pages, free, killed, halted>>

Lab3 == INSTANCE MemAlloc WITH
  Total <- 12, Size <- {1, 2, 4, 5}, list <- region, refused <- regionRefused

Malloc == INSTANCE UMalloc WITH
  Thread <- {1, 2}, NoThread <- NoProc, MORE <- 4, Heap <- 10, Units <- {2, 3, 5},
  Serial <- TRUE, pc <- mpc, want <- wanted

\* Heap and stack can meet, wrap around the ends and miss each other by a byte; programs
\* end well below the stack, within five pages of it, just below it, in it and above it.
Layout == INSTANCE VmLayout WITH
  PGSIZE <- 4, CODE <- 8, USERTOP <- 48, INT <- 2, UintSize <- 128, Frames <- 12,
  Delta <- {-64, -49, -13, -8, -4, -3, 0, 1, 3, 4, 9, 13, 63}, Image <- {11, 20, 37, 44, 45, 49},
  panicked <- halted

ASSUME Lab3!MemAllocAssumption /\ Malloc!UMallocAssumption /\ Layout!VmLayoutAssumption

AllInit ==
  /\ focus \in {"cache", "noisy", "lab3", "malloc", "layout"}
  /\ Init /\ Lab3!Init /\ Malloc!Init /\ Layout!Init
  /\ focus \in {"cache", "noisy"} \/ drive.sector \in Indirect
  /\ focus = "layout" \/ free = 0

\* A bound: interrupts that no command has caused come when one process at a time uses
\* the cache.
OneAtATime == Cardinality(Active') <= 1

AllNext ==
  \/ focus = "cache" /\ Next /\ ~ SpuriousInterrupt /\ UNCHANGED <<focus, lab3, malloc, layout>>
  \/ focus = "noisy" /\ Next /\ OneAtATime /\ UNCHANGED <<focus, lab3, malloc, layout>>
  \/ focus = "lab3" /\ Lab3!Next /\ UNCHANGED <<focus, vars, malloc, layout>>
  \/ focus = "malloc" /\ Malloc!Next /\ UNCHANGED <<focus, vars, lab3, layout>>
  \/ focus = "layout" /\ Layout!Next /\ UNCHANGED <<focus, vars, lab3, malloc>>

AllSpec == AllInit /\ [][AllNext]_<<focus, vars, lab3, malloc, layout>>

Symmetry ==
  Permutations(Proc) \cup Permutations(Buf) \cup Permutations(Indirect)
  \cup Permutations(Block \ Indirect)

-----------------------------------------------------------------------------
\* The properties of the modules.

\* lab3's allocator, and malloc() as one thread at a time sees it, keep what Region
\* promises (mem_alloc, mem_free; malloc, morecore, free).
RegionSpec == Lab3!RegionSpec
MallocSpec == Malloc!RegionSpec

\* The layout of lab4: what is mapped and what system calls accept is what the program
\* owns, a page fault is not taken twice, and only exec() brings heap and stack nearer to
\* each other than five pages (growproc, growstack, trap, argptr).
LayoutSpec ==
  /\ [](focus = "layout" => Layout!LayoutExact /\ Layout!ArgumentsOwn)
  /\ [][focus = "layout" => Layout!FaultEnds /\ Layout!GapKept]_layout
=============================================================================
