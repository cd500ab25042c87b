------------------------------ MODULE VmLayout ------------------------------
(***************************************************************************)
(* lab4: the address space of a process with a page 0 that is not mapped,  *)
(* code and heap from 0x2000 up and a stack that page faults grow down     *)
(* from USERTOP; sbrk, page faults, fork and exec, and the checks of the   *)
(* addresses that programs pass to system calls.                           *)
(*                                                                         *)
(* A process has one thread and its address space is its own, so a call is *)
(* one step.  Numbers are the code's, unsigned or signed and of one width. *)
(***************************************************************************)
EXTENDS Integers, FiniteSets

CONSTANTS
  PGSIZE,
  CODE,     \* where programs begin: 0x2000
  USERTOP,
  INT,      \* sizeof(int)
  UintSize, \* unsigned numbers are modulo this
  Frames,   \* page frames of the machine
  Delta,    \* what programs pass to sbrk()
  Image     \* ends of the segments of programs: nothing keeps them below USERTOP

VmLayoutAssumption ==
  /\ {PGSIZE, CODE, USERTOP, INT, UintSize} \subseteq Nat \ {0}
  /\ CODE % PGSIZE = 0 /\ USERTOP % PGSIZE = 0 /\ UintSize % PGSIZE = 0
  /\ CODE + 7 * PGSIZE <= USERTOP
  /\ 2 * USERTOP <= UintSize
  /\ Frames \in Nat
  /\ Delta \subseteq - (UintSize \div 2) .. (UintSize \div 2) - 1
  /\ Image \subseteq CODE + 1 .. UintSize - 1

GUARD == 5 * PGSIZE

VARIABLES
  sz, stack_sz, \* of the process
  pages,        \* the pages of its directory that are mapped, by number
  free,         \* free page frames
  killed,
  panicked      \* what the kernel panicked of: copyuvm() or mappages(), or "no"

vars == <<sz, stack_sz, pages, free, killed, panicked>>

\* userinit()
Init ==
  /\ sz = PGSIZE + CODE
  /\ stack_sz = 0
  /\ pages = {CODE \div PGSIZE}
  /\ free \in 0 .. Frames - 1
  /\ killed = FALSE
  /\ panicked = "no"

-----------------------------------------------------------------------------
Address == 0 .. UintSize - 1
U(n) == n % UintSize
Signed(n) == IF U(n) < UintSize \div 2 THEN U(n) ELSE U(n) - UintSize
PGROUNDUP(n) == (U(n + PGSIZE - 1) \div PGSIZE) * PGSIZE

\* The pages from PGROUNDUP(lo) on that begin below hi.
Between(lo, hi) ==
  {k \in 0 .. (UintSize \div PGSIZE) - 1 : PGROUNDUP(lo) <= k * PGSIZE /\ k * PGSIZE < hi}

\* The pages that allocuvm() adds, and whether it fails.
Added(old, new) == IF new < old THEN {} ELSE Between(old, new)
AllocFails(old, new) == new > USERTOP \/ Cardinality(Added(old, new)) > free

\* The pages that deallocuvm() takes away.
Removed(old, new) == IF new >= old THEN {} ELSE Between(new, old) \cap pages

Map(more) == pages' = pages \cup more /\ free' = free - Cardinality(more)
Unmap(less) == pages' = pages \ less /\ free' = free + Cardinality(less)

Alive == ~killed /\ panicked = "no"

\* The process may make system calls: it has its code.  Without it, all that it
\* executes is the zeroes of a page that a fault at its next instruction gave it.
Runs == Alive /\ CODE \div PGSIZE \in pages

-----------------------------------------------------------------------------
\* growproc()
Sbrk(n) ==
  LET new == U(sz + n)
  IN /\ Runs
     /\ IF U(sz + n + GUARD) > U(USERTOP - stack_sz) \/ (n > 0 /\ AllocFails(sz, new))
        THEN UNCHANGED <<sz, pages, free>>
        ELSE IF n > 0 THEN sz' = new /\ Map(Added(sz, new))
        ELSE IF n < 0 /\ new < sz
        THEN /\ Unmap(Removed(sz, new))
             /\ sz' = IF new = 0 THEN sz ELSE new
        ELSE UNCHANGED <<sz, pages, free>>
     /\ UNCHANGED <<stack_sz, killed, panicked>>

\* growstack(n): whether it returns -1, and the size of the stack otherwise.
NewStack(n) == PGROUNDUP(stack_sz + n)

GrowstackFails(n) ==
  \/ U(USERTOP - stack_sz - n - GUARD) < sz
  \/ n > 0 /\ AllocFails(U(USERTOP - NewStack(n)), USERTOP - stack_sz)

\* A page fault at loc, in trap(), by a program that may have given back even its
\* code: the stack grows to it or the process is killed.
Fault(loc) ==
  LET new_stack_sz == U(USERTOP - (loc \div PGSIZE) * PGSIZE)
      n == Signed(new_stack_sz - stack_sz)
  IN /\ Alive
     /\ loc \div PGSIZE \notin pages
     /\ IF loc < CODE \/ loc < U(sz + GUARD) \/ loc >= USERTOP \/ GrowstackFails(n)
        THEN killed' = TRUE /\ UNCHANGED <<stack_sz, pages, free>>
        ELSE /\ stack_sz' = NewStack(n)
             /\ IF n >= 0
                THEN Map(Added(U(USERTOP - NewStack(n)), USERTOP - stack_sz))
                ELSE Unmap(Removed(USERTOP - stack_sz, U(USERTOP - NewStack(n))))
             /\ UNCHANGED killed
     /\ UNCHANGED <<sz, panicked>>

\* What copyuvm() copies: it panics when a page is not there.
Copied ==
  {k \in 0 .. (USERTOP \div PGSIZE) - 1 :
     \/ CODE <= k * PGSIZE /\ k * PGSIZE < sz
     \/ USERTOP - stack_sz <= k * PGSIZE}

\* fork(): the model goes on with the parent, or with the child and forgets the parent.
Fork ==
  /\ Runs
  /\ IF ~ (Copied \subseteq pages) THEN panicked' = "copyuvm" /\ UNCHANGED <<pages, free>>
     ELSE /\ UNCHANGED panicked
          /\ \/ UNCHANGED <<pages, free>>
             \/ /\ Cardinality(Copied) <= free
                /\ pages' = Copied
                /\ free' = free - Cardinality(Copied) + Cardinality(pages)
  /\ UNCHANGED <<sz, stack_sz, killed>>

\* exec(): a new directory with the segments of a program that ends at end, and one
\* page of stack.  It fails and changes nothing when they pass USERTOP or memory runs
\* out; that they leave the stack its page is only found out by mappages(), and five
\* pages below that by nobody.
Exec(end) ==
  LET segments == Added(CODE, end)
      stack == Between(USERTOP - PGSIZE, USERTOP)
  IN /\ Runs
     /\ CASE end > USERTOP \/ Cardinality(segments) + 1 > free ->
               UNCHANGED <<sz, stack_sz, pages, free, panicked>>
          [] end <= USERTOP /\ Cardinality(segments) < free ->
               IF stack \subseteq segments
               THEN panicked' = "remap" /\ UNCHANGED <<sz, stack_sz, pages, free>>
               ELSE /\ pages' = segments \cup stack
                    /\ free' = free - Cardinality(segments) - 1 + Cardinality(pages)
                    /\ sz' = end
                    /\ stack_sz' = PGSIZE
                    /\ UNCHANGED panicked
     /\ UNCHANGED killed

\* Other processes take frames and give them back.
Others ==
  /\ free' \in 0 .. Frames - Cardinality(pages)
  /\ UNCHANGED <<sz, stack_sz, pages, killed, panicked>>

Next ==
  \/ \E n \in Delta : Sbrk(n)
  \/ \E loc \in Address : Fault(loc)
  \/ \E end \in Image : Exec(end)
  \/ Fork \/ Others

Spec == Init /\ [][Next]_vars

-----------------------------------------------------------------------------
\* syscall.c: is an address from a program accepted?

Fetchint(addr) ==
  IF addr < sz /\ U(addr + INT) <= sz THEN addr >= CODE
  ELSE addr >= U(USERTOP - stack_sz) /\ addr < USERTOP /\ U(addr + INT) <= USERTOP

\* (Faulty: what is not heap is taken for stack.)
ArgptrGap(i, size) ==
  IF U(i) < sz THEN i >= CODE /\ U(i + size) <= sz
  ELSE i < USERTOP /\ Signed(i + size) <= USERTOP

\* argptr() of the ints i and size: sz and stack_sz are unsigned and make a comparison
\* unsigned, 0x2000 and USERTOP are ints and leave it signed.
Argptr(i, size) ==
  IF U(i) < sz THEN i >= CODE /\ U(i + size) <= sz
  ELSE U(i) >= U(USERTOP - stack_sz) /\ i < USERTOP /\ Signed(i + size) <= USERTOP

\* argstr() and fetchstr(): the end that the search for the 0 does not pass, or 0.
Argstr(i) ==
  LET heap == U(i) < sz
      bad == IF heap THEN i < CODE \/ U(i + 1) > sz
             ELSE U(i) < U(USERTOP - stack_sz) \/ i >= USERTOP
      fetchbad == U(i) < CODE \/ (~heap /\ U(i) < U(USERTOP - stack_sz)) \/ U(i) >= USERTOP
  IN IF bad \/ fetchbad THEN 0 ELSE IF heap THEN sz ELSE USERTOP

-----------------------------------------------------------------------------
\* Properties

\* The bytes that belong to the program: its code and heap, and its stack.
Heap == CODE .. sz - 1
Stack == USERTOP - stack_sz .. USERTOP - 1
Own == Heap \cup Stack

\* As long as the program has its code, what is mapped is its code, heap and stack
\* and no more, and those are apart; fork() finds all it copies.
LayoutExact ==
  /\ panicked # "copyuvm"
  /\ stack_sz \in 0 .. USERTOP /\ stack_sz % PGSIZE = 0
  /\ sz <= USERTOP - stack_sz
  /\ Runs => pages = {x \div PGSIZE : x \in Own}

\* Five pages between heap and stack stay unmapped: sbrk(), faults and fork() bring the
\* two no nearer than that, and no nearer at all where exec() has put them too close.
GapKept ==
  LET gap == USERTOP - stack_sz - sz
  IN \/ gap' >= gap
     \/ gap' >= GUARD
     \/ \E end \in Image : Exec(end)

\* System calls take the addresses of the program's own bytes and no others,
\* wherever heap and stack end, and nothing that is part heap and part stack.  For
\* argptr() that is so of an address and a size that are positive as ints, and their
\* sum too: it compares with USERTOP as signed.
ArgumentsOwn ==
  Runs =>
    /\ \A a \in Address : Fetchint(a) <=> \E A \in {Heap, Stack} : a .. a + INT - 1 \subseteq A
    /\ \A i \in 0 .. (UintSize \div 2) - PGSIZE - 2, n \in 1 .. PGSIZE + 1 :
         Argptr(i, n) <=> \E A \in {Heap, Stack} : i .. i + n - 1 \subseteq A
    /\ \A a \in Address : a .. Argstr(Signed(a)) - 1 \subseteq Own
    /\ \A a \in Own : Argstr(Signed(a)) > a

\* A page fault is never in vain: the process is killed or has its page.
FaultEnds == killed' \/ \A loc \in Address : Fault(loc) => loc \div PGSIZE \in pages'
=============================================================================
