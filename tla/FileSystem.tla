----------------------------- MODULE FileSystem -----------------------------
(***************************************************************************)
(* kernel/fs.c and kernel/sysfile.c: the cache of inodes with their locks  *)
(* and reference counts, path lookup, the system calls that make, link,    *)
(* unlink, open and close files and directories, and a crash with reboot.  *)
(*                                                                         *)
(* A step is one write to the disk with the locking around it, or one      *)
(* critical section of icache.lock: taking an inode's lock goes together   *)
(* with what is done first under it, giving it up with what is done last.  *)
(* The blocks of a file are in FileBlocks, descriptors in FileTable; of a  *)
(* directory only its names and ".." are kept, "." names the directory.    *)
(***************************************************************************)
EXTENDS Integers, Sequences, FiniteSets

CONSTANTS
  Proc,
  Name,       \* names of directory entries
  NINODES,    \* inodes on the disk; inode 1 is the root directory
  NINODE,     \* entries of the inode cache
  Calls,      \* what programs call: records of a call, its path and link's new path,
              \*   which are names, ".." and, in front, "/"
  MaxCrashes, \* bound on the crashes of the machine
  NoProc

Path == Seq(Name \cup {"/", ".."})

ASSUME FileSystemAssumption ==
  /\ NINODES \in Nat \ {0}
  /\ NINODE \in Nat \ {0}
  /\ {"/", ".."} \cap Name = {}
  /\ Calls \subseteq [call : {"creat", "mkdir", "link", "unlink", "open", "chdir"},
                      path : Path \ {<<>>}, new : Path]
  /\ \A c \in Calls :
       /\ c.call = "link" => c.new # <<>>
       /\ \A i \in 2 .. Len(c.path) : c.path[i] # "/"
       /\ \A i \in 2 .. Len(c.new) : c.new[i] # "/"
  /\ MaxCrashes \in Nat
  /\ NoProc \notin Proc /\ IsFiniteSet(Proc) /\ IsFiniteSet(Name)

Inum == 1 .. NINODES
Slot == 1 .. NINODE
ROOTINO == 1

VARIABLES
  disk,     \* struct dinode: type, link count and, of a directory, its entries
  icache,   \* struct inode; busy is I_BUSY with the process that has set it
  proc,     \* per process: the system call it is in, its place and variables there
            \*   (dp, ip: slots, 0 when unused; puts: what it will iput() before it
            \*   goes on; new: the second path of link), its open file and directory
  panicked, \* did the kernel halt: for want of inodes ("full") or by its own fault?
  crashes

vars == <<disk, icache, proc, panicked, crashes>>

Type == {"free", "file", "dir"}
Pointer == Slot \cup {0}

Process ==
  [call : {"none", "creat", "mkdir", "link", "unlink", "open", "chdir"},
   pc   : {"user", "walk", "parent", "found", "ialloc", "iget", "init", "nest",
           "dots", "enter", "made", "child", "unnest", "unname", "count", "again",
           "bad", "open", "chdir"},
   path : Path, new : Path,
   dp   : Pointer, ip : Pointer \cup Inum, puts : Seq(Slot),
   iput : {"start", "free", "forget"},
   file : Pointer, cwd : Pointer]

TypeOK ==
  /\ disk \in [Inum -> [type : Type, nlink : Nat,
                        entries : [Name \cup {".."} -> Inum \cup {0}]]]
  /\ icache \in [Slot -> [inum : Inum \cup {0}, ref : Nat, valid : BOOLEAN,
                          type : Type, nlink : Nat, busy : Proc \cup {NoProc}]]
  /\ proc \in [Proc -> Process]
  /\ panicked \in {"no", "full", "bad"}
  /\ crashes \in 0 .. MaxCrashes

-----------------------------------------------------------------------------
\* The inode cache: what the functions of fs.c make of a cache c

\* The slots in which iget(k) may find inode k, or that it may take for it.
SlotsFor(c, k) ==
  LET cached == {s \in Slot : c[s].ref > 0 /\ c[s].inum = k}
  IN IF cached # {} THEN cached ELSE {s \in Slot : c[s].ref = 0}

SlotOf(c, k) == CHOOSE s \in SlotsFor(c, k) : \A t \in SlotsFor(c, k) : s <= t

Iget(c, k) ==
  LET s == SlotOf(c, k)
  IN [c EXCEPT ![s] =
        IF c[s].ref > 0 THEN [c[s] EXCEPT !.ref = @ + 1]
        ELSE [c[s] EXCEPT !.inum = k, !.ref = 1, !.valid = FALSE, !.busy = NoProc]]

Idup(c, s) == [c EXCEPT ![s].ref = @ + 1]

\* ilock() by q; with NoProc for q, ilock() and iunlock().
Ilock(c, s, q) ==
  [c EXCEPT ![s] =
     [c[s] EXCEPT !.busy = q, !.valid = TRUE,
                  !.type = IF c[s].valid THEN @ ELSE disk[c[s].inum].type,
                  !.nlink = IF c[s].valid THEN @ ELSE disk[c[s].inum].nlink]]

Iunlock(c, s) == [c EXCEPT ![s].busy = NoProc]

AddLink(c, s, n) == [c EXCEPT ![s].nlink = @ + n]

\* iupdate(): the disk after inode c[s] was written to it.
Iupdate(d, c, s) ==
  [d EXCEPT ![c[s].inum].type = c[s].type, ![c[s].inum].nlink = c[s].nlink]

Entry(s, name) == disk[icache[s].inum].entries[name]

\* The disk after entry name of the directory in slot s was written.
WriteEntry(d, s, name, k) == [d EXCEPT ![icache[s].inum].entries[name] = k]

NoEntries == [n \in Name \cup {".."} |-> 0]

IsEmpty(s) == \A n \in Name : Entry(s, n) = 0

-----------------------------------------------------------------------------
\* Panics and the places of a process

Panic(why) == panicked' = why /\ UNCHANGED <<disk, icache, proc, crashes>>

\* What follows ilock(s): the kernel halts on an inode that is free on the disk.
Locking(s, A) ==
  /\ icache[s].busy = NoProc
  /\ IF ~icache[s].valid /\ disk[icache[s].inum].type = "free" THEN Panic("bad") ELSE A

\* What follows iget(k): the kernel halts when all slots are in use.
Getting(c, k, A) == IF SlotsFor(c, k) = {} THEN Panic("full") ELSE A

At(p, pc) == proc[p].pc = pc /\ proc[p].puts = <<>>

\* p goes on as q, the cache is c and the disk d.
Go(p, q, c, d) ==
  /\ proc' = [proc EXCEPT ![p] = q]
  /\ icache' = c
  /\ disk' = d
  /\ UNCHANGED <<panicked, crashes>>

\* Back to the program once the inodes in puts are put.
Return(q, puts) ==
  [q EXCEPT !.call = "none", !.pc = "user", !.path = <<>>, !.new = <<>>,
            !.dp = 0, !.ip = 0, !.puts = puts]

\* namex() returns 0 once the inodes in puts are put; link then undoes its count.
Fail(q, puts) ==
  IF q.call = "link" /\ q.ip # 0
  THEN [q EXCEPT !.pc = "bad", !.path = <<>>, !.dp = 0, !.puts = puts]
  ELSE Return(q, puts)

\* Does this lookup stop at the parent directory?
IsParent(q) == q.call \in {"creat", "mkdir", "unlink"} \/ (q.call = "link" /\ q.ip # 0)

\* The loop of namex() has come to the inode in slot q.dp.
Looked(q) ==
  IF q.path # <<>> THEN [q EXCEPT !.pc = "walk"]
  ELSE IF IsParent(q) THEN Fail(q, Append(q.puts, q.dp))
  ELSE [q EXCEPT !.ip = q.dp, !.dp = 0,
                 !.pc = IF q.call = "link" THEN "count" ELSE q.call]

\* namex(path) begins.
StartWalk(p, q, path) ==
  IF Head(path) = "/"
  THEN Getting(icache, ROOTINO,
         Go(p, Looked([q EXCEPT !.dp = SlotOf(icache, ROOTINO), !.path = Tail(path)]),
            Iget(icache, ROOTINO), disk))
  ELSE Go(p, Looked([q EXCEPT !.dp = q.cwd, !.path = path]), Idup(icache, q.cwd), disk)

-----------------------------------------------------------------------------
\* System calls begin; an inode is put; a path is walked

Call(p) ==
  \E c \in Calls :
    /\ At(p, "user")
    /\ c.call \in {"creat", "open"} => proc[p].file = 0
    /\ StartWalk(p, [proc[p] EXCEPT !.call = c.call, !.new = c.new], c.path)

\* sys_close() of the process's file: fileclose() puts the inode.
Close(p) ==
  /\ At(p, "user")
  /\ proc[p].file # 0
  /\ Go(p, [proc[p] EXCEPT !.file = 0, !.puts = <<proc[p].file>>], icache, disk)

\* (Faulty: others that have it open are not considered.)
DeadToAll(c, s) == c[s].valid /\ c[s].nlink = 0

\* Is this the last reference to an inode that no directory names?
Dead(c, s) == c[s].ref = 1 /\ c[s].valid /\ c[s].nlink = 0

Unreferenced(c, s) == [c EXCEPT ![s].ref = @ - 1]

Put(q) == [q EXCEPT !.puts = Tail(@), !.iput = "start"]

\* iput() of the first inode in puts. One that is no longer used is marked busy,
\* for it is freed without icache.lock.
Iput(p) ==
  LET q == proc[p]
      s == Head(q.puts)
  IN /\ q.puts # <<>>
     /\ q.iput = "start"
     /\ IF ~Dead(icache, s) THEN Go(p, Put(q), Unreferenced(icache, s), disk)
        ELSE IF icache[s].busy # NoProc THEN Panic("bad")
        ELSE Go(p, [q EXCEPT !.iput = "free"], [icache EXCEPT ![s].busy = p], disk)

\* itrunc() and iupdate() of an inode that is no longer used.
IputFree(p) ==
  LET s == Head(proc[p].puts)
      freed == [icache EXCEPT ![s].type = "free"]
  IN /\ proc[p].iput = "free"
     /\ Go(p, [proc[p] EXCEPT !.iput = "forget"], freed,
           Iupdate([disk EXCEPT ![icache[s].inum].entries = NoEntries], freed, s))

IputForget(p) ==
  LET s == Head(proc[p].puts)
  IN /\ proc[p].iput = "forget"
     /\ Go(p, Put(proc[p]),
           Unreferenced([icache EXCEPT ![s].valid = FALSE, ![s].busy = NoProc], s), disk)

\* namex(): one directory of the path.
Walk(p) ==
  LET q == proc[p]
      s == q.dp
      name == Head(q.path)
      here == Ilock(icache, s, NoProc)
      child == Entry(s, name)
  IN /\ At(p, "walk")
     /\ Locking(s,
          IF here[s].type # "dir" THEN Go(p, Fail(q, <<s>>), here, disk)
          ELSE IF IsParent(q) /\ Len(q.path) = 1
          THEN Go(p, [q EXCEPT !.pc = "parent"], here, disk)
          ELSE IF child = 0 THEN Go(p, Fail(q, <<s>>), here, disk)
          ELSE Getting(here, child,
                 Go(p, Looked([q EXCEPT !.dp = SlotOf(here, child), !.path = Tail(@),
                                        !.puts = <<s>>]),
                    Iget(here, child), disk)))

-----------------------------------------------------------------------------
\* open and mkdir: create(), which returns with the inode locked

\* sys_open() has its inode in q.ip, unlocked again: there is a descriptor for it
\* or there is none.
Open(p, q, c, d) ==
  \/ Go(p, [Return(q, q.puts) EXCEPT !.file = q.ip], c, d)
  \/ Go(p, Return(q, Append(q.puts, q.ip)), c, d)

\* create() looks in the parent directory, and keeps it locked if the name is free.
CreateLookup(p) ==
  LET q == proc[p]
      name == Head(q.path)
      child == Entry(q.dp, name)
      here == Ilock(icache, q.dp, NoProc)
  IN /\ At(p, "parent")
     /\ q.call \in {"creat", "mkdir"}
     /\ Locking(q.dp,
          IF child = 0
          THEN Go(p, [q EXCEPT !.pc = "ialloc"], Ilock(icache, q.dp, p), disk)
          ELSE Getting(here, child,
                 Go(p, [q EXCEPT !.pc = "found", !.path = <<>>, !.ip = SlotOf(here, child),
                                 !.dp = 0, !.puts = <<q.dp>>],
                    Iget(here, child), disk)))

\* (Faulty: mkdir does not put the inode that it finds.)
CreateFoundLeaks(p) ==
  LET q == proc[p]
      here == Ilock(icache, q.ip, NoProc)
  IN /\ At(p, "found")
     /\ Locking(q.ip, IF q.call = "creat" /\ here[q.ip].type = "file"
                      THEN Open(p, q, here, disk)
                      ELSE Go(p, Return(q, <<>>), here, disk))

\* The name is there: open takes a file, mkdir nothing.
CreateFound(p) ==
  LET q == proc[p]
      here == Ilock(icache, q.ip, NoProc)
  IN /\ At(p, "found")
     /\ Locking(q.ip, IF q.call = "creat" /\ here[q.ip].type = "file"
                      THEN Open(p, q, here, disk)
                      ELSE Go(p, Return(q, <<q.ip>>), here, disk))

\* ialloc() marks an inode allocated on the disk.
Ialloc(p) ==
  LET q == proc[p]
      free == {k \in Inum : disk[k].type = "free"}
  IN /\ At(p, "ialloc")
     /\ IF free = {} THEN Panic("full")
        ELSE \E k \in free :
               Go(p, [q EXCEPT !.pc = "iget", !.ip = k], icache,
                  [disk EXCEPT ![k] = [type    |-> IF q.call = "mkdir" THEN "dir" ELSE "file",
                                       nlink   |-> 0,
                                       entries |-> NoEntries]])

\* ialloc() returns iget() of it.
IallocGet(p) ==
  LET q == proc[p]
  IN /\ At(p, "iget")
     /\ Getting(icache, q.ip,
          Go(p, [q EXCEPT !.pc = "init", !.ip = SlotOf(icache, q.ip)],
             Iget(icache, q.ip), disk))

\* (Faulty: the link count is not written to the disk before the name is.)
CreateInitLate(p) ==
  LET q == proc[p]
      new == [Ilock(icache, q.ip, p) EXCEPT ![q.ip].nlink = 1]
  IN /\ At(p, "init")
     /\ Locking(q.ip,
          Go(p, [q EXCEPT !.pc = IF q.call = "mkdir" THEN "nest" ELSE "enter"], new, disk))

CreateInit(p) ==
  LET q == proc[p]
      new == [Ilock(icache, q.ip, p) EXCEPT ![q.ip].nlink = 1]
  IN /\ At(p, "init")
     /\ Locking(q.ip,
          Go(p, [q EXCEPT !.pc = IF q.call = "mkdir" THEN "nest" ELSE "enter"],
             new, Iupdate(disk, new, q.ip)))

\* The parent is counted for the ".." of the new directory.
CreateNest(p) ==
  LET c == AddLink(icache, proc[p].dp, 1)
  IN /\ At(p, "nest")
     /\ Go(p, [proc[p] EXCEPT !.pc = "dots"], c, Iupdate(disk, c, proc[p].dp))

CreateDots(p) ==
  LET q == proc[p]
  IN /\ At(p, "dots")
     /\ Go(p, [q EXCEPT !.pc = "enter"], icache,
           WriteEntry(disk, q.ip, "..", icache[q.dp].inum))

\* The name is written into the parent directory, which is unlocked and put.
CreateEnter(p) ==
  LET q == proc[p]
  IN /\ At(p, "enter")
     /\ Go(p, [q EXCEPT !.pc = "made", !.path = <<>>, !.dp = 0, !.puts = <<q.dp>>],
           Iunlock(icache, q.dp),
           WriteEntry(disk, q.dp, Head(q.path), icache[q.ip].inum))

\* create() has returned: open takes the inode, mkdir puts it.
CreateMade(p) ==
  LET q == proc[p]
      c == Iunlock(icache, q.ip)
  IN /\ At(p, "made")
     /\ IF q.call = "creat" THEN Open(p, q, c, disk) ELSE Go(p, Return(q, <<q.ip>>), c, disk)

-----------------------------------------------------------------------------
\* open without O_CREATE, chdir

\* A directory is opened for reading only.
OpenFound(p) ==
  LET q == proc[p]
      c == Ilock(icache, q.ip, NoProc)
  IN At(p, "open") /\ Locking(q.ip, Open(p, q, c, disk))

Chdir(p) ==
  LET q == proc[p]
      c == Ilock(icache, q.ip, NoProc)
  IN /\ At(p, "chdir")
     /\ Locking(q.ip,
          IF c[q.ip].type # "dir" THEN Go(p, Return(q, <<q.ip>>), c, disk)
          ELSE Go(p, [Return(q, <<q.cwd>>) EXCEPT !.cwd = q.ip], c, disk))

-----------------------------------------------------------------------------
\* unlink

\* The parent directory is locked, and stays so if the name is in it.
UnlinkLookup(p) ==
  LET q == proc[p]
      name == Head(q.path)
      child == Entry(q.dp, name)
      here == Ilock(icache, q.dp, p)
  IN /\ At(p, "parent")
     /\ q.call = "unlink"
     /\ Locking(q.dp,
          IF name = ".." \/ child = 0
          THEN Go(p, Return(q, <<q.dp>>), Iunlock(here, q.dp), disk)
          ELSE Getting(here, child,
                 Go(p, [q EXCEPT !.pc = "child", !.ip = SlotOf(here, child)],
                    Iget(here, child), disk)))

\* The inode is locked. The entry is erased, unless it is a directory with entries.
UnlinkErase(p) ==
  LET q == proc[p]
      c == Ilock(icache, q.ip, p)
      erased == WriteEntry(disk, q.dp, Head(q.path), 0)
  IN /\ At(p, "child")
     /\ Locking(q.ip,
          IF c[q.ip].nlink < 1 THEN Panic("bad")
          ELSE IF c[q.ip].type = "dir" /\ ~IsEmpty(q.ip)
          THEN Go(p, Return(q, <<q.ip, q.dp>>), Iunlock(Iunlock(c, q.ip), q.dp), disk)
          ELSE IF c[q.ip].type = "dir"
          THEN Go(p, [q EXCEPT !.pc = "unnest", !.path = <<>>], c, erased)
          ELSE Go(p, [q EXCEPT !.pc = "unname", !.path = <<>>, !.dp = 0, !.puts = <<q.dp>>],
                  Iunlock(c, q.dp), erased))

\* The parent no longer counts the ".." of the directory.
UnlinkNest(p) ==
  LET q == proc[p]
      c == AddLink(icache, q.dp, -1)
  IN /\ At(p, "unnest")
     /\ Go(p, [q EXCEPT !.pc = "unname", !.dp = 0, !.puts = <<q.dp>>],
           Iunlock(c, q.dp), Iupdate(disk, c, q.dp))

\* The inode is counted down, unlocked and put.
UnlinkCount(p) ==
  LET q == proc[p]
      c == AddLink(icache, q.ip, -1)
  IN /\ At(p, "unname")
     /\ Go(p, Return(q, <<q.ip>>), Iunlock(c, q.ip), Iupdate(disk, c, q.ip))

-----------------------------------------------------------------------------
\* link

\* (Faulty: link does not count the new name.)
LinkUncounted(p) ==
  LET q == proc[p]
      here == Ilock(icache, q.ip, NoProc)
  IN /\ At(p, "count")
     /\ Locking(q.ip,
          IF here[q.ip].type = "dir" THEN Go(p, Return(q, <<q.ip>>), here, disk)
          ELSE Go(p, [q EXCEPT !.pc = "again"], here, disk))

\* The old name has led to an inode; if it is no directory it is counted up.
LinkCount(p) ==
  LET q == proc[p]
      here == Ilock(icache, q.ip, NoProc)
      c == AddLink(here, q.ip, 1)
  IN /\ At(p, "count")
     /\ Locking(q.ip,
          IF here[q.ip].type = "dir" THEN Go(p, Return(q, <<q.ip>>), here, disk)
          ELSE Go(p, [q EXCEPT !.pc = "again"], c, Iupdate(disk, c, q.ip)))

\* nameiparent() of the new path.
LinkAgain(p) ==
  At(p, "again") /\ StartWalk(p, [proc[p] EXCEPT !.new = <<>>], proc[p].new)

\* The new entry is written unless the name is taken. (The inode that dirlookup()
\* finds under the name is put at once, while the directory is locked.)
LinkEnter(p) ==
  LET q == proc[p]
      name == Head(q.path)
      here == Ilock(icache, q.dp, NoProc)
  IN /\ At(p, "parent")
     /\ q.call = "link"
     /\ Locking(q.dp,
          IF Entry(q.dp, name) # 0 THEN Go(p, Fail(q, <<q.dp>>), here, disk)
          ELSE Go(p, Return(q, <<q.dp, q.ip>>), here,
                  WriteEntry(disk, q.dp, name, icache[q.ip].inum)))

\* bad: the inode is counted down again.
LinkBad(p) ==
  LET q == proc[p]
      c == AddLink(Ilock(icache, q.ip, NoProc), q.ip, -1)
  IN /\ At(p, "bad")
     /\ Locking(q.ip, Go(p, Return(q, <<q.ip>>), c, Iupdate(disk, c, q.ip)))

-----------------------------------------------------------------------------
\* The machine crashes and boots from its disk: the new processes have the root
\* directory as their own.

NoInode == [inum |-> 0, ref |-> 0, valid |-> FALSE, type |-> "free", nlink |-> 0,
            busy |-> NoProc]

BootCache ==
  [s \in Slot |->
     IF s = 1 THEN [NoInode EXCEPT !.inum = ROOTINO, !.ref = Cardinality(Proc)] ELSE NoInode]

BootProc ==
  [call |-> "none", pc |-> "user", path |-> <<>>, new |-> <<>>, dp |-> 0, ip |-> 0,
   puts |-> <<>>, iput |-> "start", file |-> 0, cwd |-> 1]

Init ==
  /\ disk = [k \in Inum |->
       [type    |-> IF k = ROOTINO THEN "dir" ELSE "free",
        nlink   |-> IF k = ROOTINO THEN 1 ELSE 0,
        entries |-> IF k = ROOTINO THEN [NoEntries EXCEPT ![".."] = ROOTINO] ELSE NoEntries]]
  /\ icache = BootCache
  /\ proc = [p \in Proc |-> BootProc]
  /\ panicked = "no"
  /\ crashes = 0

Crash ==
  /\ crashes < MaxCrashes
  /\ crashes' = crashes + 1
  /\ icache' = BootCache
  /\ proc' = [p \in Proc |-> BootProc]
  /\ panicked' = "no"
  /\ UNCHANGED disk

Step(p) ==
  \/ Call(p) \/ Close(p)
  \/ Iput(p) \/ IputFree(p) \/ IputForget(p) \/ Walk(p)
  \/ CreateLookup(p) \/ CreateFound(p) \/ Ialloc(p) \/ IallocGet(p) \/ CreateInit(p)
  \/ CreateNest(p) \/ CreateDots(p) \/ CreateEnter(p) \/ CreateMade(p)
  \/ OpenFound(p) \/ Chdir(p)
  \/ UnlinkLookup(p) \/ UnlinkErase(p) \/ UnlinkNest(p) \/ UnlinkCount(p)
  \/ LinkCount(p) \/ LinkAgain(p) \/ LinkEnter(p) \/ LinkBad(p)

Next ==
  \/ panicked = "no" /\ \E p \in Proc : Step(p)
  \/ Crash

Spec == Init /\ [][Next]_vars

-----------------------------------------------------------------------------
\* Properties

\* How many variables of processes are slot s.
Holders(s) ==
  Cardinality({p \in Proc : proc[p].dp = s})
  + Cardinality({p \in Proc : proc[p].ip = s /\ proc[p].pc # "iget"})
  + Cardinality({p \in Proc : proc[p].file = s})
  + Cardinality({p \in Proc : proc[p].cwd = s})
  + Cardinality({p \in Proc : proc[p].puts # <<>> /\ Head(proc[p].puts) = s})
  + Cardinality({p \in Proc : Len(proc[p].puts) = 2 /\ proc[p].puts[2] = s})

\* The reference count of a cached inode is the number of variables that hold it:
\* no call leaks an inode or puts one twice, on any of its error paths.  An inode
\* is in one slot of the cache, so all processes share its lock.
RefsExact ==
  /\ \A p \in Proc : Len(proc[p].puts) <= 2
  /\ \A s \in Slot : icache[s].ref = Holders(s)
  /\ \A s, t \in Slot :
       icache[s].ref > 0 /\ icache[t].ref > 0 /\ icache[s].inum = icache[t].inum => s = t

\* What is cached of an unlocked inode is what the disk has, even when the inode
\* was freed by one process and allocated by another in between.
CacheAgrees ==
  \A s \in Slot : icache[s].ref > 0 /\ icache[s].valid /\ icache[s].busy = NoProc =>
    /\ icache[s].type = disk[icache[s].inum].type
    /\ icache[s].nlink = disk[icache[s].inum].nlink

\* An inode that a program has open, or that is its directory, is not freed or
\* given to another file, whatever becomes of its names.
OpenSurvives ==
  \A p \in Proc : \A s \in {proc[p].file, proc[p].cwd} \ {0} :
    disk[icache[s].inum].type # "free"

\* What the cache says of an unlocked inode the disk says too, and an inode that a
\* program has open or stands in is not freed or given away, whatever is done to its
\* names meanwhile (ilock, iget, iput, iupdate, sys_unlink).
Intact == TypeOK /\ CacheAgrees /\ OpenSurvives

\* The names of inode k on disk d, by directory and entry, and the directories in it.
NamesOf(d, k) ==
  {x \in Inum \X Name : d[x[1]].type = "dir" /\ d[x[1]].entries[x[2]] = k}

SubdirsOf(d, k) ==
  {n \in Name : LET j == d[k].entries[n] IN j # 0 /\ d[j].type = "dir"}

\* The disk is good to boot from between any two writes: a name leads to an inode
\* that is allocated and whose link count is not below the number of its names and,
\* for a directory, of the directories in it, whose ".." leads back.
CrashSafe ==
  \A k \in Inum :
    /\ NamesOf(disk, k) # {} => disk[k].type # "free"
    /\ disk[k].nlink >= Cardinality(NamesOf(disk, k))
         + IF disk[k].type = "dir" THEN Cardinality(SubdirsOf(disk, k)) ELSE 0
    /\ disk[k].type = "dir" /\ k # ROOTINO =>
         \A x \in NamesOf(disk, k) :
           disk[k].entries[".."] = x[1] /\ Cardinality(NamesOf(disk, k)) = 1

\* The kernel does not halt by its own fault: no lookup meets a freed inode, no
\* inode is freed under a lock, no name leads to an inode without links.
NoPanic == panicked # "bad"

\* The slot that p must lock before it goes on, 0 if none.
Wants(p) ==
  LET q == proc[p]
  IN IF q.puts # <<>> THEN 0
     ELSE IF q.pc \in {"walk", "parent"} THEN q.dp
     ELSE IF q.pc \in {"found", "init", "child", "open", "chdir", "count", "bad"} THEN q.ip
     ELSE 0

\* Processes never wait for each other's inodes in a circle.
NoLockCycle ==
  \A p, q \in Proc : ~ ( /\ Wants(p) # 0 /\ icache[Wants(p)].busy = q
                         /\ Wants(q) # 0 /\ icache[Wants(q)].busy = p )

\* No two calls wait for each other's inodes, and no call halts the kernel by meeting
\* a freed inode, one without links or one that is locked as it is freed (ilock, iput,
\* namex, create, sys_unlink).
NeverStuck == NoPanic /\ NoLockCycle

-----------------------------------------------------------------------------
\* The inductive invariant behind RefsExact

Disks == [Inum -> [type : Type, nlink : Int,
                   entries : [Name \cup {".."} -> Inum \cup {0}]]]
Caches == [Slot -> [inum : Inum \cup {0}, ref : Nat, valid : BOOLEAN,
                    type : Type, nlink : Int, busy : Proc \cup {NoProc}]]

\* What a process holds at each place of its call.
CallInv(q) ==
  /\ q.call = "none" <=> q.pc = "user"
  /\ q.dp # 0 <=> q.pc \in {"walk", "parent", "ialloc", "iget", "init", "nest", "dots",
                            "enter", "child", "unnest"}
  /\ q.path # <<>> <=> q.dp # 0 /\ q.pc # "unnest"
  /\ \A i \in 1 .. Len(q.path) : q.path[i] # "/"
  /\ \A i \in 2 .. Len(q.new) : q.new[i] # "/"
  /\ IF q.pc = "iget" THEN q.ip \in Inum ELSE q.ip \in Pointer
  /\ q.pc \in {"user", "ialloc"} => q.ip = 0
  /\ q.pc \in {"found", "init", "nest", "dots", "enter", "made", "child", "unnest", "unname",
               "open", "chdir", "count", "again", "bad"} => q.ip # 0
  /\ q.pc \in {"walk", "parent"} /\ q.ip # 0 => q.call = "link"
  /\ q.pc \in {"count", "again", "bad"} => q.call = "link"
  /\ q.pc = "parent" => IsParent(q)
  /\ q.pc = "open" => q.call = "open"
  /\ q.call = "link" /\ (q.ip = 0 \/ q.pc \in {"count", "again"}) => q.new # <<>>
  /\ q.call \in {"creat", "open"} => q.file = 0
  /\ q.cwd # 0
  /\ q.iput # "start" => q.puts # <<>>

TableInv ==
  /\ disk \in Disks
  /\ icache \in Caches
  /\ proc \in [Proc -> Process]
  /\ \A s \in Slot : icache[s].ref > 0 => icache[s].inum # 0
  /\ \A p \in Proc : CallInv(proc[p])
  /\ RefsExact

-----------------------------------------------------------------------------
\* The inductive invariant behind Intact, CrashSafe and NeverStuck, for programs that
\* do not use ".."

NoUp == \A c \in Calls : /\ \A i \in 1 .. Len(c.path) : c.path[i] # ".."
                         /\ \A i \in 1 .. Len(c.new) : c.new[i] # ".."

\* The slots that a process has locked.
Locked(q) ==
  {s \in Slot :
     \/ s = q.dp /\ q.pc \in {"ialloc", "iget", "init", "nest", "dots", "enter", "child",
                              "unnest"}
     \/ s = q.ip /\ q.pc \in {"nest", "dots", "enter", "made", "unnest", "unname"}
     \/ q.iput # "start" /\ s = Head(q.puts)}

LockInv ==
  /\ \A p \in Proc, s \in Slot : s \in Locked(proc[p]) <=> icache[s].busy = p
  /\ \A s \in Slot : icache[s].busy # NoProc => icache[s].valid

\* The inode that create() makes, by its number; the slot that iput() frees; the others
\* that a process has.
New(c, q) ==
  IF q.pc = "iget" THEN q.ip
  ELSE IF q.pc \in {"init", "nest", "dots", "enter"} THEN c[q.ip].inum ELSE 0

Kills(q, s) == q.iput # "start" /\ Head(q.puts) = s

Uses(q, s) ==
  \/ q.dp = s \/ q.file = s \/ q.cwd = s
  \/ q.ip = s /\ q.pc \notin {"iget", "init", "nest", "dots", "enter"}
  \/ q.puts # <<>> /\ Head(q.puts) = s /\ q.iput = "start"
  \/ Len(q.puts) = 2 /\ q.puts[2] = s

\* An inode in use is not made or freed, and it is made by one process. Its number may
\* be that of an inode that iput() has freed on the disk and not yet forgotten.
RoleInv ==
  /\ \A p, r \in Proc, s \in Slot :
       Uses(proc[p], s) => New(icache, proc[r]) # icache[s].inum /\ ~ Kills(proc[r], s)
  /\ \A p, r \in Proc :
       New(icache, proc[p]) = New(icache, proc[r]) /\ New(icache, proc[p]) # 0 => p = r
  /\ \A p, r \in Proc, s \in Slot :
       Kills(proc[p], s) /\ New(icache, proc[r]) = icache[s].inum =>
         proc[p].iput = "forget" /\ proc[r].pc \in {"iget", "init"}

\* An inode that is freed has no links; no name leads to it.
DeadInv ==
  \A p \in Proc, s \in Slot : Kills(proc[p], s) =>
    /\ icache[s].inum # ROOTINO
    /\ NamesOf(disk, icache[s].inum) = {}
    /\ proc[p].iput = "free" => icache[s].nlink = 0

\* What is cached is what the disk has, and is not free.
CacheInv ==
  \A s \in Slot :
    /\ icache[s].nlink >= 0
    /\ icache[s].ref > 0 /\ (\A p \in Proc : Kills(proc[p], s) => proc[p].iput = "free") =>
         /\ disk[icache[s].inum].type # "free"
         /\ icache[s].valid => /\ icache[s].type = disk[icache[s].inum].type
                               /\ icache[s].nlink = disk[icache[s].inum].nlink

\* What a process q knows of the disk d, with the cache c.
Knows(c, d, q) ==
  /\ \A i \in 1 .. Len(q.path) : q.path[i] # ".."
  /\ \A i \in 1 .. Len(q.new) : q.new[i] # ".."
  /\ q.pc \in {"parent", "ialloc", "iget", "init", "nest", "dots", "enter", "child",
               "unnest"} => d[c[q.dp].inum].type = "dir"
  /\ New(c, q) # 0 =>
       /\ q.call \in {"creat", "mkdir"}
       /\ New(c, q) # ROOTINO
       /\ d[New(c, q)].type = IF q.call = "mkdir" THEN "dir" ELSE "file"
       /\ \A n \in Name : d[New(c, q)].entries[n] = 0
       /\ NamesOf(d, New(c, q)) = {}
  /\ q.pc = "ialloc" => q.call \in {"creat", "mkdir"}
  /\ q.pc \in {"nest", "dots"} => q.call = "mkdir"
  /\ q.pc = "enter" /\ q.call = "mkdir" => d[New(c, q)].entries[".."] = c[q.dp].inum
  /\ q.pc = "child" => d[c[q.dp].inum].entries[Head(q.path)] = c[q.ip].inum
  /\ q.pc = "unnest" => q.dp # q.ip
  /\ q.call = "link" /\ q.ip # 0 /\ q.pc \in {"again", "walk", "parent", "bad"} =>
       d[c[q.ip].inum].type # "dir"

KnowsInv == \A p \in Proc : Knows(icache, disk, proc[p])

\* Inode k has a link that is counted, but is not there yet or no longer: the name of
\* an inode that a process has in ip, the ".." that leads to the directory in dp.
Owes(c, q, k) ==
  /\ \/ q.pc \in {"nest", "dots", "enter", "again", "bad", "unnest", "unname"}
     \/ q.call = "link" /\ q.pc \in {"walk", "parent"}
  /\ q.ip # 0
  /\ c[q.ip].inum = k

OwesUp(c, q, k) ==
  /\ q.pc \in {"dots", "unnest"} \/ (q.pc = "enter" /\ q.call = "mkdir")
  /\ c[q.dp].inum = k

CountInv ==
  \A k \in Inum :
    disk[k].nlink >= Cardinality(NamesOf(disk, k))
      + (IF disk[k].type = "dir" THEN Cardinality(SubdirsOf(disk, k)) ELSE 0)
      + (IF k = ROOTINO THEN 1 ELSE 0)
      + Cardinality({p \in Proc : Owes(icache, proc[p], k)})
      + Cardinality({p \in Proc : OwesUp(icache, proc[p], k)})

\* The shape of the tree on disk d.
Shape(d) ==
  /\ d[ROOTINO].type # "free"
  /\ \A k \in Inum : NamesOf(d, k) # {} => d[k].type # "free"
  /\ \A k \in Inum : d[k].type = "dir" /\ k # ROOTINO =>
       \A x, y \in NamesOf(d, k) : x = y /\ d[k].entries[".."] = x[1]
  /\ \A j, k \in Inum : d[j].type = "dir" /\ d[k].type = "dir" =>
       \A n, m \in Name : ~ (d[j].entries[n] = k /\ d[k].entries[m] = j)

RunInv == panicked \in {"no", "full"} /\ crashes \in 0 .. MaxCrashes

TreeInv ==
  /\ LockInv /\ RoleInv /\ DeadInv /\ CacheInv /\ KnowsInv /\ CountInv /\ Shape(disk)
  /\ RunInv
=============================================================================
