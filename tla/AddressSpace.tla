---------------------------- MODULE AddressSpace ----------------------------
(***************************************************************************)
(* Memory that threads share: kernel/proc.c (growproc, and what fork and   *)
(* clone do with the size), sysproc.c (sys_sbrk), vm.c (allocuvm,          *)
(* deallocuvm, copyuvm, freevm).                                           *)
(*                                                                         *)
(* Every entry of the process table has its own copy of the size of its    *)
(* address space.  growproc() works under ptable.lock; sys_sbrk, fork and  *)
(* clone read and write sizes without it.                                  *)
(***************************************************************************)
EXTENDS Integers, FiniteSets

CONSTANTS
  Slot,       \* indices of the process table
  Pgdir,      \* page directories
  None,       \* no directory
  PGSIZE, USERTOP,
  UintSize,   \* sizes are unsigned: they wrap at this number
  Delta,      \* the n that programs pass to sbrk()
  Frames,     \* pages of physical memory
  Serial,     \* directories of programs with a lock of their own around sbrk(), as malloc
  QuietSbrk   \* no thread calls sbrk() while another one forks or clones

ASSUME AddressSpaceAssumption ==
  /\ Slot \subseteq Nat /\ 1 \in Slot
  /\ None \notin Pgdir /\ Pgdir # {} /\ IsFiniteSet(Pgdir)
  /\ PGSIZE \in Nat \ {0} /\ USERTOP \in Nat
  /\ USERTOP % PGSIZE = 0 /\ PGSIZE <= USERTOP
  /\ UintSize \in Nat /\ USERTOP < UintSize
  /\ Delta \subseteq Int
  /\ \A n \in Delta : USERTOP + n < UintSize /\ - n < UintSize - USERTOP
  /\ Frames \in Nat \ {0}
  /\ Serial \subseteq Pgdir /\ QuietSbrk \in BOOLEAN

VARIABLES
  state, pgdir, sz, \* fields of struct proc
  thread,     \* was this entry made by clone()?
  pages,      \* pages[d]: the pages that directory d maps
  free,       \* how many frames are on kalloc's list
  pc,         \* where the kernel code of a process is
  n, addr,    \* sys_sbrk's locals
  np, reg, dir, i, \* fork's and clone's: the new entry, the size as read,
              \* the copy under way and the page it has come to
  owned,      \* the bytes that each thread got from sbrk(), kept for OwnedApart
              \* and only where calls are serial
  panicked

tableVars == <<state, pgdir, sz, thread>>
memVars   == <<pages, free>>
localVars == <<n, addr, np, reg, dir, i>>
vars == <<tableVars, memVars, localVars, pc, owned, panicked>>

PageNo == 0 .. USERTOP \div PGSIZE - 1
Size   == 0 .. USERTOP

TypeOK ==
  /\ state \in [Slot -> {"UNUSED", "EMBRYO", "ACTIVE", "ZOMBIE"}]
  /\ pgdir \in [Slot -> Pgdir \cup {None}]
  /\ sz \in [Slot -> Size]
  /\ thread \in [Slot -> BOOLEAN]
  /\ pages \in [Pgdir -> SUBSET PageNo]
  /\ free \in 0 .. Frames
  /\ pc \in [Slot -> {"user", "grow", "fork", "copy", "publish",
                      "clone", "load", "store"}]
  /\ n \in [Slot -> Delta \cup {0}]
  /\ addr \in [Slot -> Size]
  /\ np \in [Slot -> Slot]
  /\ reg \in [Slot -> Size]
  /\ dir \in [Slot -> Pgdir \cup {None}]
  /\ i \in [Slot -> Nat]
  /\ owned \in [Slot -> SUBSET Nat]
  /\ panicked \in BOOLEAN

-----------------------------------------------------------------------------
Active(p) == state[p] = "ACTIVE"

\* The other threads of p's address space.
Siblings(p) ==
  {q \in Slot \ {p} : state[q] # "UNUSED" /\ pgdir[q] = pgdir[p]}

\* A program can go on as long as it has its code, which is in page 0.
Runs(p) ==
  /\ ~ panicked
  /\ Active(p) /\ pc[p] = "user"
  /\ 0 \in pages[pgdir[p]]

\* (Faulty: PGROUNDDOWN(lo), so that shrinking takes a page that is still used in part.)
PageRangeDown(lo, hi) == {k \in PageNo : lo \div PGSIZE <= k /\ k * PGSIZE < hi}

\* The pages from PGROUNDUP(lo) up to hi.
PageRange(lo, hi) == {k \in PageNo : lo <= k * PGSIZE /\ k * PGSIZE < hi}

InUse ==
  {pgdir[q] : q \in {r \in Slot : state[r] \in {"ACTIVE", "ZOMBIE"}}}
    \cup {dir[q] : q \in Slot}

Goto(p, q) == pc' = [pc EXCEPT ![p] = q]

\* deallocuvm(): directory d loses these pages, the list gets their frames.
Dealloc(d, gone) ==
  /\ pages' = [pages EXCEPT ![d] = @ \ gone]
  /\ free' = free + Cardinality(pages[d] \cap gone)

Panic ==
  /\ panicked' = TRUE
  /\ UNCHANGED <<tableVars, memVars, localVars, pc, owned>>

-----------------------------------------------------------------------------
\* sys_sbrk() reads the size, then growproc() takes ptable.lock.

Sbrk(p) ==
  /\ Runs(p)
  /\ pgdir[p] \in Serial => \A q \in Siblings(p) : pc[q] # "grow"
  /\ QuietSbrk => \A q \in Siblings(p) : pc[q] \in {"user", "grow"}
  /\ n' \in {[n EXCEPT ![p] = k] : k \in Delta}
  /\ addr' = [addr EXCEPT ![p] = sz[p]]
  /\ Goto(p, "grow")
  /\ UNCHANGED <<tableVars, memVars, np, reg, dir, i, owned, panicked>>

Growing(p) == ~ panicked /\ pc[p] = "grow"

NewSize(p) == (sz[p] + n[p]) % UintSize

\* sbrk() is over.
Return(p) ==
  /\ Goto(p, "user")
  /\ n' = [n EXCEPT ![p] = 0]
  /\ addr' = [addr EXCEPT ![p] = 0]
  /\ UNCHANGED <<state, pgdir, thread, np, reg, dir, i, panicked>>

\* (Faulty: as the line that is commented out, only the caller's size.)
SetOwnSize(p, new) == sz' = [sz EXCEPT ![p] = new]

\* The last loop of growproc().
SetSizes(p, new) ==
  sz' = [q \in Slot |-> IF pgdir[q] = pgdir[p] THEN new ELSE sz[q]]

\* growproc() with n > 0, allocuvm() succeeds, or mappages() panics because it
\* finds a page that is mapped already.
Grow(p) ==
  LET new   == NewSize(p)
      fresh == PageRange(sz[p], new)
  IN /\ Growing(p) /\ n[p] > 0
     /\ new <= USERTOP
     /\ IF fresh \cap pages[pgdir[p]] # {}
        THEN Panic
        ELSE /\ Cardinality(fresh) <= free
             /\ pages' = [pages EXCEPT ![pgdir[p]] = @ \cup fresh]
             /\ free' = free - Cardinality(fresh)
             /\ SetSizes(p, new)
             /\ owned' = IF pgdir[p] \in Serial
                           THEN [owned EXCEPT ![p] = @ \cup addr[p] .. addr[p] + n[p] - 1]
                           ELSE owned
             /\ Return(p)

\* allocuvm() refuses, or kalloc() fails and allocuvm() takes back whatever is
\* mapped above the old size.
GrowFails(p) ==
  /\ Growing(p) /\ n[p] > 0
  /\ \/ NewSize(p) > USERTOP /\ UNCHANGED memVars
     \/ /\ NewSize(p) <= USERTOP
        /\ PageRange(sz[p], NewSize(p)) # {}
        /\ Dealloc(pgdir[p], PageRange(sz[p], NewSize(p)))
  /\ UNCHANGED <<sz, owned>>
  /\ Return(p)

\* (Faulty: the sizes passed to deallocuvm() are swapped.)
ShrinkSwapped(p) ==
  LET new == IF NewSize(p) >= sz[p] THEN sz[p] ELSE NewSize(p)
  IN /\ Growing(p) /\ n[p] <= 0
     /\ new # 0 \/ n[p] = 0
     /\ Dealloc(pgdir[p], PageRange(sz[p], new))
     /\ SetSizes(p, new)
     /\ owned' = [q \in Slot |-> IF pgdir[q] = pgdir[p]
                                   THEN {b \in owned[q] : b < new}
                                   ELSE owned[q]]
     /\ Return(p)

\* n < 0; a size that would be negative wraps, and deallocuvm() does nothing.
Shrink(p) ==
  LET new == IF NewSize(p) >= sz[p] THEN sz[p] ELSE NewSize(p)
  IN /\ Growing(p) /\ n[p] <= 0
     /\ new # 0 \/ n[p] = 0
     /\ Dealloc(pgdir[p], PageRange(new, sz[p]))
     /\ SetSizes(p, new)
     /\ owned' = [q \in Slot |-> IF pgdir[q] = pgdir[p]
                                   THEN {b \in owned[q] : b < new}
                                   ELSE owned[q]]
     /\ Return(p)

\* The new size is 0, which growproc() takes for an error.
ShrinkToZero(p) ==
  /\ Growing(p) /\ n[p] < 0
  /\ sz[p] + n[p] = 0
  /\ Dealloc(pgdir[p], PageRange(0, sz[p]))
  /\ UNCHANGED <<sz, owned>>
  /\ Return(p)

-----------------------------------------------------------------------------
\* allocproc() takes the first free entry.
Allocate(p, q) ==
  /\ state[q] = "UNUSED" /\ \A r \in Slot : r < q => state[r] # "UNUSED"
  /\ state' = [state EXCEPT ![q] = "EMBRYO"]
  /\ np' = [np EXCEPT ![p] = q]
  /\ UNCHANGED <<pgdir, sz, thread, memVars, n, addr, reg, dir, i, owned, panicked>>

Quiet(p) ==
  QuietSbrk => \A q \in Siblings(p) : pc[q] # "grow"

EnterFork(p) ==
  /\ Runs(p) /\ Quiet(p)
  /\ \E q \in Slot : Allocate(p, q)
  /\ Goto(p, "fork")

EnterClone(p) ==
  /\ Runs(p) /\ Quiet(p)
  /\ \E q \in Slot : Allocate(p, q)
  /\ Goto(p, "clone")

\* fork() calls copyuvm(proc->pgdir, proc->sz), which gets a directory.
CopyBegin(p) ==
  /\ ~ panicked /\ pc[p] = "fork"
  /\ \E d \in Pgdir \ InUse : dir' = [dir EXCEPT ![p] = d]
  /\ reg' = [reg EXCEPT ![p] = sz[p]]
  /\ Goto(p, "copy")
  /\ UNCHANGED <<tableVars, memVars, n, addr, np, i, owned, panicked>>

\* One round of copyuvm(): it panics when the page is absent.
CopyPage(p) ==
  /\ ~ panicked /\ pc[p] = "copy"
  /\ i[p] * PGSIZE < reg[p]
  /\ IF i[p] \notin pages[pgdir[p]]
     THEN Panic
     ELSE /\ free > 0
          /\ pages' = [pages EXCEPT ![dir[p]] = @ \cup {i[p]}]
          /\ free' = free - 1
          /\ i' = [i EXCEPT ![p] = @ + 1]
          /\ UNCHANGED <<tableVars, n, addr, np, reg, dir, pc, owned, panicked>>

ForkOver(p) ==
  /\ Goto(p, "user")
  /\ np' = [np EXCEPT ![p] = p]
  /\ reg' = [reg EXCEPT ![p] = 0]
  /\ dir' = [dir EXCEPT ![p] = None]
  /\ i' = [i EXCEPT ![p] = 0]
  /\ UNCHANGED <<n, addr, owned, panicked>>

\* No directory or no frame for a page: copyuvm() frees the copy, fork() its entry.
CopyFails(p) ==
  /\ ~ panicked
  /\ \/ pc[p] = "fork" /\ UNCHANGED memVars
     \/ pc[p] = "copy" /\ i[p] * PGSIZE < reg[p] /\ Dealloc(dir[p], PageNo)
  /\ state' = [state EXCEPT ![np[p]] = "UNUSED"]
  /\ UNCHANGED <<pgdir, sz, thread>>
  /\ ForkOver(p)

CopyDone(p) ==
  /\ ~ panicked /\ pc[p] = "copy"
  /\ i[p] * PGSIZE >= reg[p]
  /\ pgdir' = [pgdir EXCEPT ![np[p]] = dir[p]]
  /\ Goto(p, "publish")
  /\ UNCHANGED <<state, sz, thread, memVars, localVars, owned, panicked>>

\* np->sz = proc->sz and np->state = RUNNABLE; the size is read once more.
ForkPublish(p) ==
  /\ ~ panicked /\ pc[p] = "publish"
  /\ sz' = [sz EXCEPT ![np[p]] = sz[p]]
  /\ state' = [state EXCEPT ![np[p]] = "ACTIVE"]
  /\ thread' = [thread EXCEPT ![np[p]] = FALSE]
  /\ UNCHANGED <<pgdir, memVars>>
  /\ ForkOver(p)

\* clone() shares the directory, then copies the size: a load and a store.
CloneShare(p) ==
  /\ ~ panicked /\ pc[p] = "clone"
  /\ pgdir' = [pgdir EXCEPT ![np[p]] = pgdir[p]]
  /\ Goto(p, "load")
  /\ UNCHANGED <<state, sz, thread, memVars, localVars, owned, panicked>>

CloneLoad(p) ==
  /\ ~ panicked /\ pc[p] = "load"
  /\ reg' = [reg EXCEPT ![p] = sz[p]]
  /\ Goto(p, "store")
  /\ UNCHANGED <<tableVars, memVars, n, addr, np, dir, i, owned, panicked>>

ClonePublish(p) ==
  /\ ~ panicked /\ pc[p] = "store"
  /\ sz' = [sz EXCEPT ![np[p]] = reg[p]]
  /\ state' = [state EXCEPT ![np[p]] = "ACTIVE"]
  /\ thread' = [thread EXCEPT ![np[p]] = TRUE]
  /\ UNCHANGED <<pgdir, memVars>>
  /\ ForkOver(p)

-----------------------------------------------------------------------------
\* A thread exits when it likes, the process when its threads were joined (see
\* Proc for what happens otherwise).
Exit(p) ==
  /\ ~ panicked
  /\ Active(p) /\ pc[p] = "user"
  /\ thread[p] \/ Siblings(p) = {}
  /\ state' = [state EXCEPT ![p] = "ZOMBIE"]
  /\ owned' = [owned EXCEPT ![p] = {}]
  /\ UNCHANGED <<pgdir, sz, thread, memVars, localVars, pc, panicked>>

\* wait() frees the directory, join() does not; pgdir and sz stay as they are.
Reap(p) ==
  /\ ~ panicked
  /\ state[p] = "ZOMBIE"
  /\ state' = [state EXCEPT ![p] = "UNUSED"]
  /\ IF thread[p] THEN UNCHANGED memVars ELSE Dealloc(pgdir[p], PageNo)
  /\ UNCHANGED <<pgdir, sz, thread, localVars, pc, owned, panicked>>

Step(p) ==
  \/ Sbrk(p) \/ Grow(p) \/ GrowFails(p) \/ Shrink(p) \/ ShrinkToZero(p)
  \/ EnterFork(p) \/ CopyBegin(p) \/ CopyPage(p) \/ CopyFails(p)
  \/ CopyDone(p) \/ ForkPublish(p)
  \/ EnterClone(p) \/ CloneShare(p) \/ CloneLoad(p) \/ ClonePublish(p)
  \/ Exit(p) \/ Reap(p)

\* userinit(): one process with one page.
Init ==
  /\ state = [p \in Slot |-> IF p = 1 THEN "ACTIVE" ELSE "UNUSED"]
  /\ \E d \in Pgdir :
       /\ pgdir = [p \in Slot |-> IF p = 1 THEN d ELSE None]
       /\ pages = [e \in Pgdir |-> IF e = d THEN {0} ELSE {}]
  /\ sz = [p \in Slot |-> IF p = 1 THEN PGSIZE ELSE 0]
  /\ thread = [p \in Slot |-> FALSE]
  /\ free = Frames - 1
  /\ pc = [p \in Slot |-> "user"]
  /\ n = [p \in Slot |-> 0]
  /\ addr = [p \in Slot |-> 0]
  /\ np = [p \in Slot |-> p]
  /\ reg = [p \in Slot |-> 0]
  /\ dir = [p \in Slot |-> None]
  /\ i = [p \in Slot |-> 0]
  /\ owned = [p \in Slot |-> {}]
  /\ panicked = FALSE

Next == \E p \in Slot : Step(p)
Spec == Init /\ [][Next]_vars

-----------------------------------------------------------------------------
\* The threads of a process agree on how much memory they have (argument checks
\* of system calls go by each thread's own copy, syscall.c:20).
SizesAgree ==
  \A p, q \in Slot :
    Active(p) /\ Active(q) /\ pgdir[p] = pgdir[q] => sz[p] = sz[q]

\* A running program has exactly the pages below its size: growing, shrinking,
\* failing half way and forking leave no hole and nothing beyond the end, so that
\* mappages() never meets a mapped page (vm.c:90) and copyuvm() never an absent
\* one (vm.c:313).
PagesMatch ==
  /\ ~ panicked
  /\ \A p \in Slot :
       Active(p) /\ 0 \in pages[pgdir[p]] => pages[pgdir[p]] = PageRange(0, sz[p])

PagesOf(S) == {page \in S \X PageNo : page[2] \in pages[page[1]]}

\* Every frame is on the free list or mapped in one directory that is in use.
FramesExact ==
  /\ free + Cardinality(PagesOf(Pgdir)) = Frames
  /\ PagesOf(Pgdir \ InUse) = {}

\* Page frames are free or mapped once, and a program has exactly the pages below its
\* size, however growth, shrinking and the copy in fork end (growproc, allocuvm,
\* deallocuvm, copyuvm, freevm).
MemoryExact == TypeOK /\ PagesMatch /\ FramesExact

\* Two threads never get the same byte from sbrk(), and what they got is mapped.
OwnedApart ==
  \A p, q \in Slot :
    Active(p) /\ Active(q) /\ pgdir[p] = pgdir[q] /\ 0 \in pages[pgdir[p]] =>
      /\ p # q => owned[p] \cap owned[q] = {}
      /\ \A b \in owned[p] : b \div PGSIZE \in pages[pgdir[p]]

-----------------------------------------------------------------------------
\* The inductive invariant behind the theorems of AddressSpaceProofs.

\* Who has an address space; who is in the middle of fork() or clone().
Held(p) == state[p] \in {"ACTIVE", "ZOMBIE"}
Making(p) == pc[p] \in {"fork", "copy", "publish", "clone", "load", "store"}

\* Only live processes are in the kernel, and an entry under construction belongs
\* to one of them.
EntryInv ==
  \A p \in Slot :
    /\ pc[p] # "user" => Active(p)
    /\ Making(p) => /\ state[np[p]] = "EMBRYO"
                    /\ \A q \in Slot \ {p} : Making(q) => np[q] # np[p]
    /\ pc[p] = "publish" => pgdir[np[p]] = dir[p]
    /\ pc[p] \in {"load", "store"} => pgdir[np[p]] = pgdir[p]

\* A directory belongs to one process and its threads, or is a copy being made.
DirInv ==
  \A p \in Slot :
    /\ dir[p] # None <=> pc[p] \in {"copy", "publish"}
    /\ dir[p] # None => /\ \A q \in Slot \ {p} : dir[q] # dir[p]
                        /\ \A q \in Slot : Held(q) => pgdir[q] # dir[p]
    /\ Held(p) =>
         /\ pgdir[p] # None
         /\ ~ thread[p] => \A q \in Slot \ {p} :
                             Held(q) /\ ~ thread[q] => pgdir[q] # pgdir[p]
         /\ thread[p] => \E q \in Slot : /\ Active(q) /\ ~ thread[q]
                                         /\ pgdir[q] = pgdir[p]

\* The copies of the size agree, also with what fork() and clone() have read: where
\* one of these is under way, no other thread is in sbrk().
SizeInv ==
  /\ SizesAgree
  /\ \A p \in Slot :
       /\ pc[p] \in {"copy", "publish", "store"} => reg[p] = sz[p]
       /\ pc[p] = "grow" => \A q \in Slot :
                              Active(q) /\ pgdir[q] = pgdir[p] => ~ Making(q)

\* What a directory maps lies below the size of its processes: all of it as long as
\* there is page 0, and in a copy what has been copied.
PageInv ==
  \A p \in Slot :
    /\ Active(p) => /\ sz[p] > 0
                    /\ pages[pgdir[p]] \subseteq PageRange(0, sz[p])
                    /\ 0 \in pages[pgdir[p]] => PageRange(0, sz[p]) \subseteq pages[pgdir[p]]
    /\ Making(p) => 0 \in pages[pgdir[p]]
    /\ pc[p] \notin {"copy", "publish"} => i[p] = 0
    /\ pc[p] = "copy" => pages[dir[p]] = {k \in PageRange(0, reg[p]) : k < i[p]}
    /\ pc[p] = "publish" => pages[dir[p]] = PageRange(0, reg[p])

\* What sbrk() has given out lies below the size, which is what the one thread that
\* is in sbrk() has read.
OwnedInv ==
  \A p \in Slot :
    /\ owned[p] # {} => Active(p) /\ pgdir[p] \in Serial
    /\ \A b \in owned[p] : b < sz[p]
    /\ \A q \in Slot \ {p} : pgdir[q] = pgdir[p] => owned[p] \cap owned[q] = {}
    /\ pc[p] = "grow" /\ pgdir[p] \in Serial =>
         /\ addr[p] = sz[p]
         /\ \A q \in Slot \ {p} : pgdir[q] = pgdir[p] => pc[q] # "grow"

MemoryInv ==
  /\ TypeOK /\ ~ panicked
  /\ EntryInv /\ DirInv /\ FramesExact /\ SizeInv /\ PageInv /\ OwnedInv
=============================================================================
