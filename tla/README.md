# ECNU-OSLab in TLA+

A verification project kept beside the ECNU operating-systems labs: an xv6 kernel
with kernel threads (lab5), the same kernel with another address-space layout (lab4)
and with a call counter (lab2), a shell (lab2), a memory allocator (lab3), and two
small programs (lab1). It models the parts whose correctness depends on
interleavings, ordering, limits or partial failure, model-checks them with TLC and
proves the central facts with TLAPS.

Paths below are relative to the repository; `lab5/xv6-thread/kernel/` is written
`kernel/`. The three kernels share most files verbatim (spinlock.c, pipe.c, bio.c,
ide.c, fs.c, file.c, kalloc.c, console.c): lab5's is the one modelled, and what is
said of those files holds for lab2/xv6 and "lab4/xv6 Vm Layout" too. (That the kernel
and its user programs, usertests.c among them, are there three times is also why the
lines that the modules stand for are a small part of all lines of C in the repository,
although they are most of the lines of the files that are modelled.)

## 1. Inventory

| Component | State | Operations | Interacts with | What makes it correct |
|---|---|---|---|---|
| Process table, scheduler (`kernel/proc.c`, `trap.c`, `sysproc.c`, `exec.c`) | `ptable.lock`, per entry state, pid, parent, pgdir, killed, chan, kstack; per CPU the current process and the scan of `scheduler()`; `nextpid` | allocproc, fork, clone, wait, join, exit, kill, sleep/wakeup, sys_sleep, yield, sched, scheduler, forkret, the timer trap | everything that sleeps; kalloc/vm for stacks and directories | one CPU per kernel stack; no lost wakeup; each entry, stack and directory collected exactly once, by a living parent; a zombie stays dead; a killed process dies; nobody starves |
| Spin locks (`kernel/spinlock.c`) | locked, cpu per lock; ncli, intena, interrupt flag per CPU | acquire, release, holding, pushcli, popcli | interrupt handlers that take the same locks | mutual exclusion; holder known; no handler deadlocks on its own CPU's lock; interrupts come back on when the last lock goes |
| Pipes (`kernel/pipe.c`) | a ring of 512 bytes, nread, nwrite, readopen, writeopen, lock | pipewrite, piperead, pipeclose | sleep/wakeup, kill, file table | a FIFO; nothing lost or invented; nobody sleeps for ever when the other end moves or closes; freed once |
| Address-space size (`growproc`, `sys_sbrk`, `clone` in `proc.c`, `sysproc.c`) | sz of every entry that shares a directory, the pages mapped | sbrk, clone, exit | vm.c, umalloc | sz agrees with the mapped pages in all threads; two sbrk calls never return the same memory |
| Virtual memory (`kernel/vm.c`, `kalloc.c`) | page tables, free list | allocuvm, deallocuvm, copyuvm, freevm, kalloc, kfree | proc, exec | no page mapped twice or leaked |
| lab4's layout ("lab4/xv6 Vm Layout/kernel": proc.c, vm.c, trap.c, syscall.c) | heap end, stack bottom | sbrk, stack growth by page fault, argument checks | as above | heap and stack stay five pages apart; checked pointers are mapped |
| Block cache and disk queue (`kernel/bio.c`, `ide.c`) | LRU list of NBUF buffers, B_BUSY/B_VALID/B_DIRTY, idequeue | bread, bwrite, brelse, bget, iderw, ideintr | sleep/wakeup, the disk's interrupt | one holder per block; one buffer per block; what was written is what is read; each request completes |
| Inodes and directories (`kernel/fs.c`, `sysfile.c`) | icache (ref, flags), disk inodes, bitmap, directories | ialloc, iget, ilock, iput, bmap, itrunc, readi, writei, dirlookup, dirlink, namex; open, create, link, unlink, mkdir | block cache | no two files share a block; link counts match entries; freed when the last name and the last reference go |
| File table (`kernel/file.c`, `sysfile.c`) | ref, type, off of NFILE files; NOFILE descriptors per process | filealloc, filedup, fileclose, fileread, filewrite | pipes, inodes | references match descriptors; the object is closed once, at the last close |
| Console and keyboard (`kernel/console.c`, `kbd.c`, `uart.c`) | input ring with indices r, w, e | consoleintr, consoleread | interrupts, sleep/wakeup | lines arrive whole and in order; editing stops at the last newline |
| User threads and allocator (`user/ulib.c`, `user/umalloc.c`) | free list, its spin lock, `in_malloc` | malloc, free, thread_create, thread_join | clone, join, sbrk | the list is changed by one thread at a time; stacks are freed once |
| Allocator of lab3 ("lab3/Malloc and Free/mem.c") | free list in one mapped region, headers with a magic number | mem_init, mem_alloc, mem_free | - | blocks disjoint and inside the region; space conserved; bad pointers found by the magic number |
| Shell (`lab2/shell/`) | background pids, descriptors of a pipeline | parse, built-ins, redirection, pipelines | fork, exec, wait, pipe | every pipe end closed, every child waited for |
| `fastsort` (`lab1/0b/fastsort.c`) | growing record array | read, qsort by key, write | libc | output sorted by unsigned key |
| Set operation (`lab1/0a/set_operation.c`) | linked lists | A - B, B - A, union | - | symmetric difference |

The hard behaviours, all listed with their lines under `hazards` in PROJECT.json:
several CPUs and interrupts acting between any two unlocked instructions; a lock
that changes owner inside a context switch; sleeping and waking with two locks;
processes killed while asleep, exiting while their threads run, leaving children
behind; allocation that fails half way; counters that wrap; caches recycled while
somebody looks a block up; a size checked outside the lock that changes it.

## 2. The modules

| Module | Models | Composed or checked in |
|---|---|---|
| `Proc` | process table, scheduler, fork/clone/wait/join/exit/kill/sleep | `MCProcSafety`, `MCProc`, `ProcProofs` |
| `SpinLock` | locks with interrupts, and the locks' side of sleep, sched and scheduler() | `MCSpinLock`, `SpinLockProofs` |
| `AddressSpace` | sz, sbrk, the copy in fork and the sharing in clone | `MCAddressSpace`, `AddressSpaceProofs` |
| `FileSystem` | inode cache, names, the calls that make and remove files, crash and reboot | `MCFileSystem`, `FileSystemProofs` |
| `Pipe`, implements `ByteStream` | the ring, its sleepers and its two ends | `MCFiles`, `MCWaiting`, `PipeProofs` |
| `FileTable` | descriptors and reference counts of open files | `MCFiles`, `MCWaiting`, `FileTableProofs` |
| `FileBlocks` | bitmap, blocks of files, truncation, crash and reboot | `MCFiles`, `BufferCacheProofs` |
| `Console`, implements `LineBuffer` | the ring of typed characters, read() and write() of the console | `MCFiles`, `MCWaiting`, `ConsoleProofs` |
| `BufferCache`, implements `BlockStore` | bio.c and ide.c with the drive | `MCStores`, `MCWaiting`, `BufferCacheProofs` |
| `MemAlloc`, `UMalloc`, both implement `Region` | lab3's allocator; malloc() of the user library | `MCStores` |
| `VmLayout` | lab4's address space and its checks of arguments | `MCStores` |
| `Shell` | pipelines of lab2's shell | `MCWaiting` |

`MCFiles`, `MCStores` and `MCWaiting` put several components side by side: a variable
`focus`, chosen at the start, says which one moves, the others stay as they begin. So one
run asks one question of all of them, such as whether whoever waits comes back, and its
states are the sum of theirs, not the product. A property that holds for one component has
`focus` in its premise, or is about variables that only move with it.

How the modules rely on each other:

* A critical section is one step in `Proc`, `Pipe`, `AddressSpace`, `BufferCache`, `FileTable`
  and `Console` because `SpinLock` shows that nobody else is in it. sleep() is one step in
  `Pipe`, `BufferCache` and `Console` because it takes ptable.lock before it gives up the
  caller's lock, and wakeup() and kill() need ptable.lock (shown step by step in `SpinLock`).
* A write to the disk is one step in `FileSystem` and `FileBlocks` because `BufferCache`
  implements `BlockStore`: each block has one holder, and what it leaves is what the next
  one finds, and what a crash leaves behind.
* `FileSystem` keeps of a file only that it is there, `FileBlocks` what is in it;
  I_BUSY, which `FileSystem` models, is why `FileBlocks` has one operation per file.
* `FileTable` stands between: its `CloseObject` is `Close` of `Pipe` or of `FileSystem`.
* `UMalloc` with its lock is what `Serial` stands for in `AddressSpace`.

What is proved is said in the section of each component; section 16 has all theorems in a
table, and what stays with TLC.

## 3. The process table: `Proc`, `MCProcSafety`, `MCProc`, `ProcProofs`

One action is one critical section of `ptable.lock`, or one step that the code takes
without the lock. A critical section may be one step because everything it reads and
writes is otherwise written only under the lock, with the exceptions that the model
keeps apart: `np->state = RUNNABLE` and `UNUSED` in fork/clone/allocproc
(`Publish`, `AllocStackFails`, `CopyFails`), `proc->killed` read by traps and by
sys_sleep (`EnterExit`, `SleepTest`), `proc->state` read by the timer trap
(`TimerTrap`). The lock's hand-over inside swtch is three steps: the process that
calls `sched()` keeps it (`SleepOn`, `Yield`, `ExitLocked`), the CPU leaves its stack
(`Switch`), `scheduler()` picks the next one (`SchedPick`), and that one releases it
(`ForkRet`, `YieldReturns`, `DozeEnds`, or the rest of `Wait`/`Join`).

| Model | Code |
|---|---|
| `state`, `pid`, `parent`, `pgdir`, `killed`, `chan`, `kstack` | fields of `struct proc` |
| `running[c]`, `scan[c]` | the stack CPU c is on, and p in `scheduler()` |
| `pc[s]`, `call[s]`, `np[s]` | where the kernel code of s is, and its local np |
| `tick[s]` | the timer trap that interrupted s: it has seen RUNNING, or is in yield() |
| `live` | page directories handed out by setupkvm and not freed |
| `Enter*`, `Exec` | system calls, at trap()'s test of killed |
| `AllocProc` ... `Publish` | allocproc, fork, clone |
| `Wait`, `Join` | one round of their loop, with the sleep that ends it |
| `ExitLocked`, `Kill`, `Clock` | exit from acquire on, kill, the tick's wakeup |

Left out of this module: user memory and sz, open files and the current directory
(exit closes them before the part modelled here), names, procdump, the panics of
sched() about locks (they belong to `SpinLock`). Stale fields stay stale: a free
entry keeps pgdir, chan and, after a failed fork, killed, as in the code.

Programs are arbitrary except that init does what user/init.c does (it forks, waits
and execs) and nobody kills pid 1. `JoinFirst` says that programs join their threads
before exit and exec; without it the kernel itself goes wrong, see findings.

### Runs

| Run | Bounds | Shows |
|---|---|---|
| `proc_safety` | 4 entries, 2 CPUs, 4 directories, pids up to 4 (5 in the third kind); programs of one of three kinds, below | the invariants below |
| `proc_liveness` | 3 entries, 1 CPU, pids up to 3, kill(2) | `KilledDies`, `OrphansReaped`, `ReadyRuns` |
| `proc_threads_killed` | 4 entries, 2 CPUs, clone without joining | finding: a thread killed by exit() comes back to life |

In `proc_safety` a behaviour has programs of one of three kinds, so that its states are the sum
of theirs: up to three processes at a time with kill(2) and kill(3) at any moment, no clone;
processes and threads that are joined before exit and exec, no kill, four entries, so that a
process can leave a zombie to an init that sleeps, and that a thread can create a thread; and
processes that fork until there is no entry left, so that allocproc() fails for want of one.
Three entries are init, a parent and a child; two CPUs are enough for every race of
two critical sections with an unlocked step; the fourth pid makes a slot be used
twice. `MaxPid` bounds `nextpid` in the guard of EnterFork and EnterClone, `Pids` in
`MCProcSafety` further in two of the kinds.

Invariants: `OneCpuPerProc`, `RunningIffOnCpu`, `MemoryOwned` (`StacksOwned` and
`AddressSpacesExact`: stacks and directories live as long as who needs them),
`ExitsNoticed` (`ParentAlive` and `NoLostWakeup`) and the action property `ZombieStays`; each
is explained above its definition.

Fairness (`Fairness` in `Proc`): the clock and the timer go on interrupting, where a
pending interrupt is taken as soon as interrupts are on (strong fairness); scheduler
code goes on (weak); a process that is inside the kernel makes progress whenever it
has the CPU often enough (strong, because the timer may preempt it any number of
times); a killed process reaches a trap; init calls wait again, as its loop does.
Programs owe nothing else. The run has one CPU because acquire() gives no fairness
between CPUs. There, directories are numbered and exec is left out (`OrderedFairSpec`
in `MCProc`), which the properties cannot tell.

### Findings

* exit() makes zombies of the threads of the process, also of those another CPU is
  running. Such a thread goes on; its next yield() or sleep() overwrites the state
  (proc.c:471, 511). proc.c:309 and 345 say otherwise.

Also seen: kill() marks an entry whose fork is under way; if that fork fails, the mark stays
on the free entry and hits the next process, which nobody named (proc.c:545). No
invariant suffers: that process dies at its first trap.

### Proofs

`ProcProofs`: `TypeCorrect`, Spec => []TypeOK for all constants; and for Threads = FALSE,
any number of entries, CPUs, directories and any use of kill(), all of these invariants and
`ZombieStays`. `OneCpuPerProc` alone is not inductive: that a picked process is on no CPU
follows from RUNNING being exact (`CpuInv`), this needs fork's unlocked writes to hit only
EMBRYO entries that one caller owns (`ForkInv`), and exit() to find no thread to kill, which
needs every process to have a directory of its own (`SpaceInv`); together `ProcInv`. On it
stands `FamilyInv`: each stack and each live directory has an entry or a fork that answers
for it (`StackInv`, `LiveInv`), every entry has a parent that lives (`ParentInv`), and who
sleeps in wait() has been woken by whatever it waits for, or has nothing to collect
(`SleepInv`: the sleeper found that under the lock that exit() and kill() need). From these
follow `MemoryOwned` and `ExitsNoticed`. TLC checked both invariants first.

Only model-checked: all of this with threads, and liveness. With threads the argument is
about groups: of the entries that share a directory only one is collected by wait(), and it
outlives the others. It holds only for programs that join their threads.

## 4. Spin locks and interrupts: `SpinLock`, `MCSpinLock`, `SpinLockProofs`

Here one action is one access to a shared variable, or several that nobody can see in
between. The kernel runs in *contexts*: one per process and one scheduler per CPU. A
context has two levels, 0 and the interrupt handler on top of it; a context and a level
are a *frame*, which has its own place in the code. A process that yields from a
handler leaves both levels behind and may go on with them on another CPU.

| Model | Code |
|---|---|
| `locked`, `cpu` | `lk->locked`, `lk->cpu` |
| `ncli`, `intena`, `FL_IF` | `cpu->ncli`, `cpu->intena`, the interrupt flag |
| `running`, `level` | the stack a CPU is on; whether a handler runs on top of it |
| `pc`, `op`, `arg`, `back`, `eflags`, `saved` | place, function and locals of a frame |
| `held` | the locks a frame has acquired and not released (a history variable) |
| `CallAcquire`, `PushCli` | pushcli(): eflags read, then cli and the counters |
| `ReadLocked`, `ReadCpu` | holding() in acquire() |
| `Xchg`, `Acquired` | the exchange; `lk->cpu = cpu` |
| `CallRelease`, `Unlock`, `PopCli` | release(): check and `lk->cpu = 0`; the exchange; popcli() |
| `Sleep`, `SleepDropsLock`, `SleepOnTable`, `SleepRetakesLock` | sleep() with a lock other than ptable.lock |
| `Yield`, `Exit`, `Sched`, `Resumed` | yield() from the timer trap, exit(), sched() around swtch |
| `Sti`, `StartScan`, `Pick`, `EndScan`, `ForkRet`, `ReturnToUser` | scheduler() and the first run of a process |
| `Interrupt`, `InterruptReturns` | entry and exit of a handler (interrupt gate) |

Locks come in three kinds: `Outer` (taken alone or before ptable.lock, also by interrupt
handlers), ptable.lock, and `Inner` (kmem, taken also while ptable.lock is held). The
code has more locks but no other order. sleep() is called by system calls, and by exit() that
trap() calls of a killed process after a timer interrupt, at the handler's level and with
interrupts off: a frame may sleep there if it interrupted user code, which has no lock. Memory is sequentially consistent, as lock;xchg
makes it for this code. getcallerpcs is left out: it fills fields nobody reads.

`spinlock` (2 CPUs, 2 processes, one lock of each kind: enough for two waiters of one
lock, for a handler on each CPU and for a process that changes the CPU between
reading eflags and cli) checks `Mutex`, `HoldingTrue` (holding() tells the truth, and
none of the panics of acquire, release, popcli and sched happens),
`InterruptsRestored` and `SpinsForRunning`: whoever spins does so for a frame that another
CPU executes. There is no liveness: an exchange in a loop promises none.

Proved, for any number of CPUs, processes and locks: `LockTypeCorrect` and
`MutualExclusion`. `Mutex` says of each lock that one owner at most has it. For
ptable.lock the owner changes inside swtch: the thread that took it stops there, the
scheduler that goes on gives it back, so `held` alone does not tell who may release.
The inductive invariant `LockInv` therefore says where in the code a frame owes a
release of ptable.lock (the `Handover` places): `RunInv` (a context is on one CPU at
most), `FrameInv` (what each place in the code implies about `held`), `KindInv` (which
locks each function works on) and `ContextInv` (a suspended context stands at a
hand-over or has not begun, and level 1 is used only while `level` says so). Further,
`HoldingAlwaysTrue`, `InterruptsAlwaysRestored` and `SpinsAlwaysForRunning`. They need to know
how deep pushcli() is nested: by `CpuInv` ncli is the number of locks of the frame that a CPU
executes, plus one between pushcli() and the lock's taking, or between its release and
popcli(), and the interrupt flag and intena are what this depth and the frame's level say.
`HeldInv` says which locks a place has, `FlagsInv` what it remembers of the flag (in eflags and
in sched()'s intena), `PassiveInv` that a frame which no CPU executes has no lock; together
`CliInv`. This is what makes holding() right on the CPU where it is asked, and excludes that
a handler spins for what it interrupted.

## 5. Pipes: `ByteStream`, `Pipe`

`p->lock` is held over several steps, so that kill() and entering processes fall in
between; sleep() is one step. Each byte is an action, each return and each wait of
pipewrite and piperead another. `Close` is fileclose() (the descriptor count under
ftable.lock, then, with that lock released, `PipeClose` and `Free`), `Fork` shares
descriptors, `PipeAlloc` reuses the page. The counters nread and nwrite wrap at
`UintSize`, a multiple of PIPESIZE as 2^32 is of 512.

`ByteStream` is what a pipe promises: a queue of at most Size bytes with two ends, each
of which closes once. `Pipe` implements it under the mapping at `Stream`: the queue is
the `Count` bytes of the ring from nread on, `Count` being nwrite - nread modulo
`UintSize`.

In `files` three processes, all of which may be killed, share a ring of 2 with counters up
to 4 and requests of 1 and 2 bytes: `StreamSpec`, `WritersWoken`, `PipeExact`. In `waiting`
three processes that nobody kills share a ring of 1: `ReadersWoken`, and `CallsEnd` (once
one side is closed for good, everybody on the other side comes back). A request as
long as the ring makes writers sleep half way when bytes are left in it; counters that
wrap after two fills pass the wrap many times; three processes are two on one side and
one on the other. Deadlock is not an error here: processes that read from a pipe and
hold its write end themselves wait for ever, rightly.

Proved in `PipeProofs`, for any processes, ring, width of the counters and requests:
`PipeCorrect` (`PipeExact`), `WritersAlwaysWoken` and, if nobody is killed, `ReadersAlwaysWoken`;
and `PipeIsByteStream`, the refinement. The inductive invariant `PipeInv` says that the counters
are at most the ring apart, that the holder of the lock is where its place says (`CallInv`),
that a writer which sleeps has found the ring full and nobody has emptied a byte and left
since (`WriterInv`; a reader in its copying loop still owes the wakeup), and that an end is open
as long as somebody has a descriptor or is on the way to close it. `ReaderInv` is the same for
readers. The arithmetic of the refinement is that `nwrite - nread` modulo a multiple of
PIPESIZE finds the same places of the ring before and after a wrap.

What kill() does not keep, and why `ReadersWoken` and `CallsEnd` are checked without it:

* A process killed between its test of `killed` (pipe.c:83, 104) and its sleep() sleeps on,
  killed, until the pipe moves, although kill() says "Wake process from sleep if
  necessary" (proc.c:557). The console's read has the same window (console.c:232).
* pipewrite() that is killed while the pipe is full returns at pipe.c:85 without waking the
  readers of the bytes it has put. With KillProc = {1, 2, 3} in MCWaiting TLC shows a reader
  asleep on a full pipe.

## 6. Shared memory size: `AddressSpace`, `MCAddressSpace`

Each thread has its own copy of sz. growproc() is one step (ptable.lock); sys_sbrk's
read of sz before it, fork's two reads, and clone's load and store are steps of
their own, since they have no lock. allocuvm, deallocuvm, copyuvm and freevm are
modelled by the pages a directory maps and by the frames that move to and from
kalloc's list; kalloc may fail at any time. copyuvm goes page by page. A new size is
computed modulo `UintSize`, as the code's unsigned arithmetic does.

Two constants say what programs do: the threads in a directory of `Serial` have a lock of
their own around sbrk() as user/umalloc.c has, and with `QuietSbrk` no thread grows
memory while another one forks or clones. `owned` is a history variable, what each
thread of a `Serial` directory got from sbrk().

`address_space` has one directory of each kind and QuietSbrk; it shows `SizesAgree`,
`MemoryExact` (`PagesMatch` and `FramesExact`) and `OwnedApart`. Bounds: 3 entries (a
process, a thread, and a child or second thread), 2 directories, pages of 2 bytes,
memory of 3 pages, steps of -3, 1 and 2 bytes (below, at and across a page), 5 frames,
so that two full address spaces do not fit. `CHECK_DEADLOCK FALSE`: the last process may
exit, and a panic stops the machine.

Finding (`address_space_clone`, without QuietSbrk): clone() may store a size that another
thread has just changed, and the threads disagree from then on.

The restrictions are needed elsewhere too. Without QuietSbrk fork() may panic ("copyuvm:
page not present", in `CopyPage`) when another thread shrinks memory during the copy, so
that `MemoryExact` fails. Without Serial two calls of sbrk() may return the same address; what
`OwnedApart` says is that a lock of the program around the calls is enough. sbrk() down to size 0
returns -1 after it has unmapped everything (`ShrinkToZero`); the program's code is gone then, and `Runs` and `PagesMatch` leave such a process aside.

Proved in `AddressSpaceProofs`, for any number of entries and directories and any memory and
page size, with QuietSbrk = TRUE: `SizesAlwaysAgree`, `MemoryAlwaysExact` and `OwnedAlwaysApart`.
The inductive `MemoryInv` says who may refer to a directory (`DirInv`), that an entry under
construction belongs to one fork or clone (`EntryInv`), that a size which was read is still the
size when it is used (`SizeInv`: here QuietSbrk is needed, and Serial for the return value),
how far a copy and a growth have come (`PageInv`), and that bytes handed out are below the
size (`OwnedInv`). That frames add up is an argument on cardinalities: what a step takes from
kalloc's list it maps, or gives back.

Left out: exec, the contents of pages, page-table pages, the user stack and guard page,
the TLB.

## 7. Block cache and disk: `BlockStore`, `BufferCache`, `BufferCacheProofs`

One action is a critical section of bcache.lock or idelock, up to a sleep().

| Model | Code |
|---|---|
| `sector`, `busy`, `valid`, `dirty`, `data`, `lru` | fields and flags of struct buf, the list |
| `queue` | idequeue |
| `drive`, `disk`, `irq` | external: one command at a time, the medium, its interrupt line |
| `BgetHit`, `BgetBusy`, `BgetRecycle`, `BgetPanics` | one pass through bget()'s loop and scan |
| `Bread`, `Bwrite`, `Brelse` | bread after bget; bwrite of changed data; brelse |
| `Iderw`, `IderwWakes`, `Idestart` | iderw() with its sleep loop, idestart() |
| `Ideintr`, `IdeintrIgnored` | ideintr() with and without a queue |
| `DriveDone`, `SpuriousInterrupt` | external |

A process that sleeps in bget() and one that sleeps in iderw() for the same buffer use
the same channel, and each wakeup() wakes both: `IderwWakes` and bget's loop look again.
A process has one block at a time, but for bmap() (fs.c:336-341) and itrunc() (fs.c:367-373):
they keep the buffer of the indirect block while balloc(), bfree() and bzero() read the
superblock, the bitmap or data. So a process has two uses of the cache, `First` and `Second`, each
with a place, a block and a buffer of its own; the second one begins when the first has a block
of `Indirect`, and is over before the first goes on (`Innermost`). Which blocks are indirect
is fixed: a block does not change its kind while somebody has it. The file system locks
the inode before it reads its indirect block, and the indirect block is of one file,
so no two processes wait for each other's buffers; in the model a second use is of a block that
is not indirect.

`BlockStore` is the promise: a store of blocks, each held by one process at a time, whose
content is what the last holder left. In the mapping, a block's content is the data of
its buffer if that is valid or being written, else what the disk holds or will hold
after the command it is at.

In `stores` two processes use 3 buffers and 4 blocks of 2 values, one of which is indirect:
`CacheExact` (one buffer per block, one holder per buffer, valid data is the disk's),
`SleepersWoken`, `NoPanic`, `StoreSpec`. More blocks than buffers make eviction happen; one
process with two buffers and one that wants a third use all of them; both want the indirect
block, so that one waits for the other. Spurious interrupts come in a focus of their own
(`noisy`), where one process at a time uses the cache, since together they are too many
states. In `waiting` two processes use 2 buffers, without indirect blocks: `CallsEnd` for iderw().

`Users`, `Indirect` and `DriveFails` mark where the code stops being right. When every buffer is
busy bget() panics ("bget: no buffers") instead of waiting. `Needed` is how many buffers `Users`
processes can have between them: one each, and one more for each that has an indirect block,
of which there is one holder per block. Nothing in the kernel keeps this below NBUF = 10: there may
be 64 processes, ten of them with an indirect block each panic when the first one
reads the bitmap, and up to five are safe. With DriveFails = TRUE `CacheExact` fails: ideintr()
sets B_VALID after a command that ended with an error (ide.c:109). No run has it.

Proved in `BufferCacheProofs`, for any buffers, blocks, values and processes: `BuffersOwned`
and `SleepersAlwaysWoken` whatever the drive does, `BuffersSuffice` (`NoPanic`) where there are
at least `Needed` buffers, and where the drive does not fail `CacheCorrect` and
`CacheIsBlockStore`, the refinement. `CacheInv` ties a place in the code to a buffer
(`ProcInv`: who is between bget and brelse has marked it busy for the block it wants) and the
queue to those who sleep (`BufInv`); `DriveInv` says that the drive works for the queue's head
or is done with it. A step of the store is a step of bget or brelse, or the change before
bwrite; the queue, the drive and its interrupts stutter, because a block's content is
defined through them.

Nothing is claimed of those who wait in bget(): wakeup() starts a race which a waiter may
lose for ever. The liveness run has no spurious interrupts: with them idewait() would
poll the drive with idelock held, which one step cannot show.

## 8. Inodes and names: `FileSystem`, `MCFileSystem`, `FileSystemProofs`

A step is one write to the disk with the locking around it, or one critical section of
icache.lock; two steps stand for several writes (see the end of this section). Taking an inode's lock goes with what is done first under it: nobody else
can look at the inode in between, and a process that finds it busy waits where it is.

| Model | Code |
|---|---|
| `disk` | type, nlink and entries of the inodes on the disk |
| `icache` | ref, flags (I_VALID as `valid`, I_BUSY with its setter as `busy`), type and nlink in memory |
| `proc[p]` | the call p is in, its dp and ip, what it has left to iput(), its open file and directory |
| `StartWalk`, `Walk` | namex() with skipelem and dirlookup |
| `Iput`, `IputFree`, `IputForget` | the three critical sections and the truncation in iput() |
| `CreateLookup` ... `CreateMade` | create() with ialloc(), for open and mkdir |
| `Unlink*`, `Link*`, `OpenFound`, `Chdir`, `Close` | the other calls |
| `Crash` | external: what is in memory is gone, processes begin at "/" |

`file_system` has two processes, three inodes, and calls on "/a", "/a/a" and "/b" that meet
in every way: files get a second name, "/b", and lose the first, directories are removed while somebody is in them or
walks through them, inodes are freed and allocated again; and one crash at any
moment. It shows

* `RefsExact`: the count of an inode in memory is the number of variables that refer to
  it, on all paths, error paths included;
* `Intact`: memory and disk agree on unlocked inodes; an open file outlives its names;
* `CrashSafe`: between any two writes the disk is good to boot from: counts of links may
  be too high, never too low, and no name leads to a free inode. There is no log; this is
  what the order of the writes gives. Inodes may be lost to a crash, and are;
* `NeverStuck`: no deadlock of two inode locks (unlink and create lock a directory and
  then an inode below it), and none of the panics "ilock: no type", "iput busy" and
  "unlink: nlink < 1".

The panics for want of inodes on the disk or in the cache are in the model (`"full"`), and
allowed.

Proved in `FileSystemProofs`, for any processes, names, inodes, slots, programs and number of
crashes, first: `RefsAlwaysExact`, from the inductive invariant `TableInv` (`TablesCorrect`), which
TLC finds true on both configurations:

* `CallInv` says for every place of a call which of dp, ip, file and cwd are in use and what
  is left of the paths. Without it the invariant is not inductive: the step that puts dp
  would not be known to have one;
* the counts are compared by weights. A process weighs on a slot as often as its variables
  name it; `Recount` has that `Holders` changes by the difference of the weights of the one
  process that moves (finite sets and their cardinalities), and `StepInv` that a step is good
  if the counts in the cache change by that difference, too. It is the only place where sets
  of processes are counted;
* most steps change neither a count nor a number of the cache: what ilock(), iunlock() and
  changes of nlink make of it is `Alike`, and then the weights must agree (`Steady`, `Moves`,
  `Ends`, `FailsNow`). The rest are iget(), where the count of one slot grows (`Got`), idup(),
  and iput(), where it shrinks (`Puts`);
* that iget() never takes a second slot for a cached inode follows from its search.

Then, for all programs whose paths do not use ".." (`NoUp`): `AlwaysIntact`, `AlwaysCrashSafe` and
`NeverGetsStuck`, from `TableInv` and a second inductive invariant, `TreeInv` (`TreeCorrect`), which
TLC finds true on the 3.1 million states of `file_system`. Its parts need each other:

* `LockInv`: an inode is busy by exactly the process that stands where it has locked it, and
  what is locked has been read;
* `RoleInv`: a cached inode is used, or is being freed by iput(), or is being made by create(),
  and no two of these at a time; but ialloc() may take a number that iput() has freed on the
  disk and not yet dropped from memory, and the two are then told apart by their places;
* `DeadInv`, `CacheInv`: no name leads to an inode that is being freed; what is cached of any
  other is what the disk has, and it is not free there;
* `KnowsInv`: what a call has seen under a lock still holds where it relies on it: the parent of
  create() and unlink is a directory, the new inode has no name and no entries, the name that
  unlink found still leads to the inode it has, what link counts is no directory;
* `CountInv`: the debts. The link count on the disk is at least the names, the ".." of the
  directories in it, and the links that some process has counted and not yet written, or erased
  and not yet uncounted (`Owes`, `OwesUp`). `CrashSafe` alone is not inductive: that unlink may
  take one off follows only from what nobody else owes;
* `Shape`: a directory has one name, and no two directories are in each other. This is why
  unlink, which holds a directory and waits for an inode in it, does not wait for a process
  that waits for it. The theorem is about two processes, among any number of them: no two
  wait for each other, and whom create() waits for waits for nobody. That there is no longer
  circle either follows from the tree, but is not stated.

There is one lemma per action (`...Tree`). The actions that change no link go through `Loosely` and
`Same`; those that do, through `Recounts`, `Balanced` and `Pays`, which leave only the sums of one
inode to compare.

TLC shows that `NeverStuck` needs the hypothesis (the finding below). For `Intact` and `CrashSafe`
it finds no counterexample with ".." on the configuration of `file_system_up` (507,030 states),
but they are not proved there: ".." of a removed directory leads to an inode that another
process may be making, which `RoleInv` excludes.

The named assumption says of the paths that "/" is only their first element, as skipelem()
sees them, and that there are finitely many processes and names (a name has 14 bytes).

Finding (`file_system_up`): a directory may be removed while a process is in it, and then
its parent, which is freed, although ".." still names it. chdir("..") then panics in
ilock(). `NeverStuck` therefore is about programs whose paths do not use "..".

Also in the model, and no error of any promise that the code makes: create() locks a
directory that may have been removed since it was found (sysfile.c:222), and makes a
file there which nothing frees.

Two steps merge writes. `WriteEntry`: when dirlink() makes a directory longer, writei() writes the
entry and then, with iupdate(), the new size (fs.c:438-449). A crash in between leaves the old
size. If the entry is the first of a new block, it is gone, as if the crash had come before it.
If it is in the last block that the directory has, dirlookup(), which looks through whole
blocks (fs.c:474-478), finds it all the same, but the next dirlink() takes its place
(fs.c:508): the name is lost, and the count of the inode that it named stays too high. It is
counted before the entry is written (link, create), so no count gets too low and no name leads
to a free inode, and `CrashSafe` and `Intact` say no more; unlink changes entries in place and no
size. `IputFree`: iput() truncates the inode, writes it without blocks and then without type
(fs.c:291-293); in between it has no name and no link, and what becomes of its blocks is
`FileBlocks`.

Left out: devices and mknod, fstat, names longer than an entry, "." as a path, the current
directory in fork and exit (`FileTable` has their descriptors), exec's inode.

## 9. Blocks of files: `FileBlocks`, `BufferCacheProofs`

Each action is one write: a bitmap block (`Balloc`, `TruncUnmark`), the indirect block
(`WritePointer`), data (`WriteData`), zeros (`TruncZero`), an inode (`WriteEnd`,
`TruncEnd`). Two files are written and removed at the same time and share the bitmap.
Every cell of each file is given a text of its own, so that a block in the wrong file
or place shows. A cell has the same text whenever it is written: a write that is lost
where the same was written before would not be seen.

In `files`: two files, blocks of two cells, one direct block and an indirect block of two
entries, four data blocks (the largest file needs all of them), writes of three cells
at the end and at offset 1, one crash. `ContentsKept`: a file reads as what was written,
what is behind its end in its last block is zero, and so is every free block, which bmap() and
dirlookup() expect. `BlocksSafe`: at every moment, so at every crash, the blocks of all
files are marked and in one file only; without a crash none is lost or freed twice.

After a crash the tail of a file may hold what a write had put there before its size was
written. `ContentsKept` asks for zeros only while there was no crash; what such a tail
means for a directory is in section 8.

Proved in `BufferCacheProofs`, where `FileBlocks` is the instance `Fs` with constants of its own,
for any inodes, size of a block, number of direct blocks, disk, texts, writes and crashes:
`ReadsWhatWasWritten` (`ContentsKept` without the focus) and `BlocksNeverMixed` (`BlocksSafe`).
Neither is inductive: between Balloc and the write that enters the block, and again
while itrunc() takes blocks out one by one, a block is in no inode on the disk, and what
a write has put behind the old size is not covered by it. `BlockInv` (end of `FileBlocks`) adds:

* `OwnInv`: a file has `Place`s, the ones bmap() goes through, the indirect block, and
  the block that is allocated and not yet entered. Those that count (`Owned`: all of a file
  with links; of one that is removed, those itrunc() has not come to) hold marked blocks,
  and no two of them, in one file or in two, hold the same one.
* `OpOK`: what the operation has seen still holds: the place for its new block is still empty,
  the new block is zero, the one to be unmarked is.
* `DiskOK`: the inode on the disk has the size of the one in memory and, of its addresses,
  some; those that the size covers are there.
* `ContentOK`: the file is as written up to `Top`, the end of what a write has done so far,
  and zero from there on while there was no crash.
* `LostInv`: a marked block has an owner while there was no crash.

An action changes one file and some blocks, so `Stepped` says once what is to be shown of it:
that its file is in order, that the blocks it writes are its own or free, and that it takes
none from another file; `Unmoved` shows from this that the other files keep what they have,
`Stay` and `Taken` are the cases without and with a new block. `CrashInv` stands apart: every file
loses what is not on its disk inode at once, and `DiskOK` says that this is nothing the file's
size covers. TLC checks `BlockInv` as a whole before the proof, with other sizes than the run's, too.

## 10. Open files: `FileTable`

A step is a critical section of ftable.lock; what a process does to its own descriptors
goes with the step before. Inodes are counts of references, pipes two ends. In `files` two
processes share a table of three entries with two descriptors each, one inode and one
page for pipes, so that every allocation fails at some time. `DescriptorsExact`: counts
match descriptors and calls under way; each inode is put and each end closed as often as
it was opened, although the entry is free for others before that (file.c:65); a
program never has a descriptor of a file that is closed or not yet open; the panics of
filedup and fileclose do not happen. Close, open, pipe, dup and the
copying of descriptors in fork each have a step in which a descriptor exists that is not
counted yet, or a count whose descriptor is gone; `References` lists what a count stands for,
call by call: descriptors, the variables rf and wf, files still to be closed.

Proved in `FileTableProofs`, for any table, any number of descriptors, processes, inodes and
pages (`FileTableAssumption`: 0 names none of them, and processes are finitely many, as counts
of references need): `DescriptorsAlwaysExact`. The inductive invariant `FileInv` adds what
calls know (`CallInv`, `LocalInv`: a file between filealloc() and its filling in has one
reference, its maker's; of dup's new descriptor, the old one stays until it is counted,
because a process makes one call at a time), that a descriptor's file is filled in unless its
own process is still in open() (`DescInv`), and what kind of object a file has (`KindInv`).
The proof is one on sets: each step adds or removes one element of `References` and `Holders`,
and the count next to it changes by one.

In `waiting` `InputArrives` says that when the last
descriptor of a write end goes, by whatever call, the pipe learns of it.

## 11. Console: `LineBuffer`, `Console`

An interrupt with one key is one step (it holds input.lock), a reader takes one
character per step. `LineBuffer` promises: what is finished can only be read, from the
front; what is edited can only be erased, from the back; both fit in the ring. The
mapping cuts the ring at r, w and e, which wrap.

In `files`, a ring of 2, indices up to 4, two readers, one of which may be killed: `LineSpec`.
In `waiting` two processes read and write: `ReadersWoken`; finished input is read
(`InputArrives`); output does not wait for input, although both lock the same inode
(`CallsEnd`: consoleread gives the lock up).

Proved in `ConsoleProofs`, for any ring, any multiple of it as the width of the indices, any
number of readers, any requests and any use of kill(): `ConsoleReadersAlwaysWoken` and
`ConsoleIsLineBuffer`, the refinement. The inductive `ConsoleInv` says that r, w and e come in this
order and not more than the ring apart, that there is no newline between w and e (so
Ctrl-U's search for one ends at w), that whoever is in the loop has input.lock, and that
sleepers have found r = w. The proof of the refinement cuts the ring in slices: storing a
character behind a slice appends it, and slices do not change when an index wraps.

## 12. Allocators: `Region`, `MemAlloc`, `UMalloc`

`Region` promises what both allocators should keep: blocks lie in memory, do not
overlap, are as long as asked for, stay until they are freed, and a request is refused
only when no free run of words is long enough (for malloc: and the heap cannot grow).

`MemAlloc` (lab3): 12 words, requests of 1, 2, 4 and 5 words; all three placements are
allowed at each call. The words left over from a split that cannot hold a node go with
the block. Not in the model, and outside what mem.c promises: mem_alloc(0), whose
block is shorter than the node it becomes when freed; freeing twice, which the magic
number does not always catch, since merging to the left leaves it where it was.

`UMalloc` (lab5): two threads, 4 units per morecore(), a heap of 10. Search and list update
are one step each, with the places of threads kept apart, so that two threads in the
list are seen by `ListGuarded`. `MallocSpec` holds with Serial = TRUE: calls come from one
thread at a time, in any order (run `stores`).

Finding (`malloc_threads`, Serial = FALSE): free() takes no lock, as its two lock calls are commented
out (umalloc.c:29 and 47), so that two threads are in the list at once, although
lab5/report/b/all.tex:389 and 441 say that every access to the list is locked. What is more,
in_malloc is cleared by whoever leaves malloc() first, so that another thread's morecore() waits
for the lock that it has itself (`MorecoreEnds`).

thread_create and thread_join are not a module: thread_join (ulib.c:145-149) frees the page-
rounded stack address and not the one malloc() returned, and loses the block that it
allocated for the result. These are calls outside what `Region` promises.

## 13. lab4's address space: `VmLayout`

One process, since nothing is shared: each call is a step. Numbers are modulo `UintSize` or
signed, as the types of the code say. Pages of 4 bytes, code at 8, USERTOP at 48, numbers
up to 128, 12 frames, a page fault at every address, sbrk by amounts that are no multiple of
a page, too large, or negative beyond zero; exec of programs that end well below the stack,
within five pages of it, just below it, in it and above USERTOP. `LayoutSpec`: what is mapped is
code, heap and stack, which do not overlap (`LayoutExact`); fork's copy finds all it wants;
`Fetchint`, `Argptr` and `Argstr` accept exactly the program's own bytes (`ArgumentsOwn`); a page fault
is not taken twice (`FaultEnds`); and sbrk(), page faults and fork() keep five pages between heap
and stack (`GapKept`).

exec() does not look at those five pages: allocuvm() refuses only what passes USERTOP (vm.c:235;
exec.c:37-56). A program whose data end within five pages of the stack starts without the gap, and
`GapKept` then says only that nobody makes it smaller; one whose data reach into the top page
makes mappages() panic ("remap") when the stack is to be mapped. Both are in the
model (`Exec`, `panicked`). lab4/report/b/all.tex:400 and 573 have the five pages as a property
of the layout; they speak of moving the stack and of growproc(), so this is noted here and is
no finding.

argptr() (syscall.c:93) compares with USERTOP, an int, as signed and with sz and stack_sz as
unsigned. The property is therefore about addresses and sums that are not negative as
ints. A program that has given its own code back (sbrk down to 0, which returns -1 after
unmapping, as in lab5) makes no system calls any more (`Runs`). A page fault at its next
instruction kills it, or, when the instruction is five pages above sz, grows the stack down to
it (trap.c:83), which `Fault` has.

## 14. Pipelines of the shell: `Shell`

A step is a system call of runCmdWithPipe() or of a child. Which process has which end of
which pipe open is all there is to the descriptors. Programs are of kinds: those that
write, those that copy input to output, those that end without reading, and the
shell's own commands, whose output is kept in buf and written to the next command. fork() may
fail (`ForkFails`): the function returns and leaves the ends of its pipes open. A write of buf
is taken to fit in a pipe.

In `waiting` the lines are all of two and three commands of these kinds (a line of one command has no
pipe; a program that ignores its input is not first and one that only writes not last, where
they are as a filter and as one that ignores its input), with pipes of one byte and programs that
write three, one more than the two pipes of a line hold: whoever can get stuck on a
full pipe does. `PromptReturns`:

* every line comes to an end: the shell is back at its prompt, or it is dead, or it is in
  `WaitsInVain`: a program of the line writes into a full pipe that no program reads any
  more, and has no SIGPIPE since the shell has the read end;
* a line in which what is written is read (`BeginsTame`: filters, and the shell's own commands
  where no program writes to them) always comes to the prompt.

Both exceptions happen. The shell never closes the read end of a pipe between two programs
(cmd.c:324 closes the write end only). So a program that writes more than a pipe holds to one
that ends without reading waits for ever, and the shell in waitpid() with it; and so does
`cat big | cat | pwd`: the built-in closes the read end of its own pipe (cmd.c:280-283), the second
program dies, the first one's pipe has the shell as its only reader. lab2/README.md:191 says of
this close that it is no problem, as built-ins do not read their input; that is so of
the built-in, not of who writes to it. The shell dies of SIGPIPE (cmd.c:319, `FeedWrite`) when it writes
the output of a built-in to a program that has ended. Left out: parsing, redirection, the `wait`
command (its list, bghead, is never filled), descriptors that run out.

## 15. The runs of several components

| Run | Bounds | Shows |
|---|---|---|
| `file_system` | 2 processes, 3 inodes, section 8 | `RefsExact`, `Intact`, `CrashSafe`, `NeverStuck` |
| `files` | sections 5, 9, 10, 11 | `WritersWoken`, `PipeExact`, `StreamSpec`; `DescriptorsExact`; `ContentsKept`, `BlocksSafe`; `LineSpec` |
| `stores` | sections 7, 12, 13 | `CacheExact`, `SleepersWoken`, `NoPanic`, `StoreSpec`; `RegionSpec`, `MallocSpec`; `LayoutSpec` |
| `waiting` | two processes on the disk, three on a pipe, two at the console, two with files, three programs of a pipeline | `ReadersWoken`, `CallsEnd`, `InputArrives`, `PromptReturns` |
| `file_system_up` | as `file_system`, with ".." | finding: chdir("..") meets a freed inode |
| `malloc_threads` | two threads, section 12 | finding: free() and malloc() are in the list at once |

Deadlock is allowed in all of them: a panic stops the machine, heaps and programs run out,
readers of their own pipe wait for ever.

Fairness in `waiting` (`AllFairness`), for each agent of the component in focus: a process that
is inside the kernel goes on when nothing keeps it (weak); the drive ends a command and a
pending interrupt is taken (weak); the programs and the shell of a pipeline are scheduled
(weak); one that spins on a pipe's or the console's lock gets it if it is free again and again
(strong). The last is about hardware: xchg has no queue, but the memory bus does not
starve one CPU for ever, and waiters are few. Programs owe nothing: they need never read
what is there, type, or close.

## 16. Theorems

tlapm checks all of them, for every value of the constants under the module's named
assumption and the hypothesis given here. TLC evaluates the assumptions on every run.

| Module | Theorems | Hypothesis |
|---|---|---|
| `ProcProofs` | `TypeCorrect` | none |
| | `ProcessInvariant`, `OneProcessorEach`, `RunningMeansOnCpu`, `ZombiesStayDead`, `FamilyInvariant`, `MemoryAlwaysOwned`, `ExitsAlwaysNoticed` | Threads = FALSE: nobody calls clone() |
| `SpinLockProofs` | `LockTypeCorrect`, `MutualExclusion`, `HoldingAlwaysTrue`, `InterruptsAlwaysRestored`, `SpinsAlwaysForRunning` | none |
| `PipeProofs` | `PipeCorrect`, `WritersAlwaysWoken`, `PipeIsByteStream` | none |
| | `ReadersAlwaysWoken` | KillProc = {}: section 5 has the execution that breaks it otherwise |
| `BufferCacheProofs` | `BuffersOwned`, `SleepersAlwaysWoken` | none |
| | `CacheCorrect`, `CacheIsBlockStore` | DriveFails = FALSE |
| | `BuffersSuffice` | Needed <= Cardinality(Buf) (section 7) |
| | of `FileBlocks`: `BlocksInOrder`, `ReadsWhatWasWritten`, `BlocksNeverMixed` | none |
| `AddressSpaceProofs` | `MemoryInvariant`, `SizesAlwaysAgree`, `MemoryAlwaysExact`, `OwnedAlwaysApart` | QuietSbrk = TRUE |
| `FileTableProofs` | `FilesCounted`, `DescriptorsAlwaysExact` | none |
| `FileSystemProofs` | `TablesCorrect`, `RefsAlwaysExact` | none |
| | `TreeCorrect`, `AlwaysIntact`, `AlwaysCrashSafe`, `NeverGetsStuck` | NoUp: programs do not use ".." |
| `ConsoleProofs` | `RingCorrect`, `ConsoleReadersAlwaysWoken`, `ConsoleIsLineBuffer` | none |

A hypothesis is there because TLC finds the property violated without it, as the section of
the component says (for Threads with programs that do not join; for those that do, the
property is model-checked and not proved). The exception is NoUp, which `NeverStuck` needs and
of which it is not known whether `Intact` and `CrashSafe` do (section 8).

`ContentsKept`, `BlocksSafe`, `DescriptorsExact` and the console's part of `ReadersWoken` are
defined in modules that put several components side by side; the theorems state the component's
own part, without the premise on `focus`: `ReadsWhatWasWritten`, `BlocksNeverMixed`,
`DescriptorsAlwaysExact`, `ConsoleReadersAlwaysWoken` and, for the pipe, `ReadersAlwaysWoken`.

What stays with TLC:

* liveness, which rests on fairness and ENABLED: `KilledDies`, `OrphansReaped`, `ReadyRuns`,
  `CallsEnd`, `InputArrives`, `PromptReturns`;
* the allocators and lab4's layout (`RegionSpec`, `MallocSpec`, `LayoutSpec`): the first two rest on
  facts about sorted lists of any length, which need induction over data.

## 17. What is not modelled

The components with status `not_modelled` in PROJECT.json, and why:

* the dispatch of system calls and lab5's argument checks (a table, and comparisons
  that `VmLayout` has in lab4's longer form);
* the user programs (sequential; init's loop is a fairness assumption of `Proc`), the test
  programs (they are read for what they say of the kernel) and mkfs (runs on the host);
* lab2's kernel: lab5's without threads, and a counter of read() calls that is
  incremented without a lock;
* lab1's two programs: sequential. fastsort compares keys by an unsigned difference cut to an
  int (fastsort.c:58), which is no order for keys that are far apart; what qsort() makes of
  it is up to the C library;
* boot code, interrupt controllers, timers: they run once, in one order; generated vectors;
* page tables, segments and the kernel's mappings; kalloc's list beyond its count; screen and
  serial output.
