------------------------------ MODULE FileTable ------------------------------
(***************************************************************************)
(* kernel/file.c and the calls that make, copy and close descriptors:      *)
(* open, pipe, dup, close, and the descriptors in fork, clone and exit.    *)
(*                                                                         *)
(* A step is a critical section of ftable.lock, or of the pipe's or the    *)
(* inode cache's lock when the last descriptor is gone.  What a process    *)
(* does to its own table ofile goes with the step before.  Of an inode     *)
(* there is only its reference count and of a pipe its two ends: the rest  *)
(* is in FileSystem and Pipe.                                              *)
(***************************************************************************)
EXTENDS Naturals, Sequences, FiniteSets, FiniteSetsExt

CONSTANTS
  Proc,
  NFILE,    \* entries of the table of open files
  NOFILE,   \* descriptors of a process
  Inode,    \* inodes that programs open
  Page      \* pages that pipes are allocated in

FileTableAssumption ==
  /\ {NFILE, NOFILE} \subseteq Nat \ {0}
  /\ 0 \notin Inode \cup Page \cup Proc
  /\ Inode \cap Page = {}
  /\ IsFiniteSet(Proc)

File == 1 .. NFILE
Fd == 0 .. NOFILE - 1

VARIABLES
  ftable,   \* struct file: ref, type, writable and the inode or pipe
  ofile,    \* the descriptors of each process, 0 where there is none
  running,  \* the processes
  pc,       \* per process: the call it is in, with its local variables:
  local,    \*   the files or inode it holds, the child, the next descriptor
  todo,     \*   the files it will fileclose() before it goes on
  ff,       \*   the copy of the file that it is closing
  iref,     \* references to each inode
  readopen, writeopen, \* the pipes with an open end
  panicked

vars == <<ftable, ofile, running, pc, local, todo, ff, iref, readopen, writeopen, panicked>>

\* What is left of a file that is closed; the fields that the code leaves in it are
\* not read before they are set again.
Closed == [ref |-> 0, type |-> "none", writable |-> FALSE, obj |-> 0]
NoLocal == [rf |-> 0, wf |-> 0, ip |-> 0, child |-> 0, fd |-> 0]

Init ==
  /\ ftable = [f \in File |-> Closed]
  /\ ofile = [p \in Proc |-> [fd \in Fd |-> 0]]
  /\ \E p \in Proc : running = {p}
  /\ pc = [p \in Proc |-> "user"]
  /\ local = [p \in Proc |-> NoLocal]
  /\ todo = [p \in Proc |-> <<>>]
  /\ ff = [p \in Proc |-> Closed]
  /\ iref = [i \in Inode |-> 0]
  /\ readopen = {}
  /\ writeopen = {}
  /\ panicked = FALSE

-----------------------------------------------------------------------------
\* Helpers

At(p, l) == p \in running /\ pc[p] = l /\ todo[p] = <<>> /\ ff[p] = Closed

Become(p, l) == pc' = [pc EXCEPT ![p] = l]

\* The call returns, once the files in fs are closed.
Return(p, fs) ==
  /\ Become(p, "user")
  /\ local' = [local EXCEPT ![p] = NoLocal]
  /\ todo' = [todo EXCEPT ![p] = fs]

Objects == <<iref, readopen, writeopen>>

\* The file that filealloc() returns, 0 if there is none.
FreeFile ==
  IF \E f \in File : ftable[f].ref = 0 THEN Min({f \in File : ftable[f].ref = 0}) ELSE 0

\* What is left of the table once filealloc() has returned f.
Filealloc(f) == ftable' = IF f = 0 THEN ftable ELSE [ftable EXCEPT ![f].ref = 1]

\* filedup() of f, where there is a file.
Filedup(f) ==
  IF f # 0 /\ ftable[f].ref < 1 THEN panicked' = TRUE /\ UNCHANGED ftable
  ELSE /\ ftable' = IF f = 0 THEN ftable ELSE [ftable EXCEPT ![f].ref = @ + 1]
       /\ UNCHANGED panicked

\* The descriptors that fdalloc() can return: one, the first that is free.
FreeFds(table) ==
  {fd \in Fd : table[fd] = 0 /\ \A lower \in 0 .. fd - 1 : table[lower] # 0}

-----------------------------------------------------------------------------
\* sys_open(), from where it has a reference to the inode

Open(p) ==
  /\ At(p, "user")
  /\ \E i \in Inode :
       /\ iref' = [iref EXCEPT ![i] = @ + 1]
       /\ local' = [local EXCEPT ![p].ip = i]
  /\ Become(p, "open")
  /\ UNCHANGED <<ftable, ofile, running, todo, ff, readopen, writeopen, panicked>>

\* (Faulty: without a descriptor the file is not closed.)
OpenAllocLeaks(p) ==
  LET f == FreeFile
      fds == FreeFds(ofile[p])
  IN /\ At(p, "open")
     /\ Filealloc(f)
     /\ IF f # 0 /\ fds # {}
        THEN /\ \E fd \in fds : ofile' = [ofile EXCEPT ![p][fd] = f]
             /\ local' = [local EXCEPT ![p].rf = f]
             /\ Become(p, "fill")
        ELSE Become(p, "put") /\ UNCHANGED <<ofile, local>>
     /\ UNCHANGED <<running, todo, ff, Objects, panicked>>

\* filealloc() and fdalloc(). Without a descriptor the file is closed again; without
\* both the inode is put.
OpenAlloc(p) ==
  LET f == FreeFile
      fds == FreeFds(ofile[p])
  IN /\ At(p, "open")
     /\ Filealloc(f)
     /\ IF f # 0 /\ fds # {}
        THEN /\ \E fd \in fds : ofile' = [ofile EXCEPT ![p][fd] = f]
             /\ local' = [local EXCEPT ![p].rf = f]
             /\ Become(p, "fill")
             /\ UNCHANGED todo
        ELSE /\ Become(p, "put")
             /\ todo' = [todo EXCEPT ![p] = IF f = 0 THEN <<>> ELSE <<f>>]
             /\ UNCHANGED <<ofile, local>>
     /\ UNCHANGED <<running, ff, Objects, panicked>>

OpenFail(p) ==
  /\ At(p, "put")
  /\ iref' = [iref EXCEPT ![local[p].ip] = @ - 1]
  /\ Return(p, <<>>)
  /\ UNCHANGED <<ftable, ofile, running, ff, readopen, writeopen, panicked>>

\* The fields of the file are set, for reading or for writing.
OpenFill(p) ==
  /\ At(p, "fill")
  /\ \E w \in BOOLEAN :
       ftable' = [ftable EXCEPT ![local[p].rf] =
                    [@ EXCEPT !.type = "inode", !.obj = local[p].ip, !.writable = w]]
  /\ Return(p, <<>>)
  /\ UNCHANGED <<ofile, running, ff, Objects, panicked>>

-----------------------------------------------------------------------------
\* sys_pipe() and pipealloc()

PipeBegin(p) ==
  LET f == FreeFile
  IN /\ At(p, "user")
     /\ Filealloc(f)
     /\ IF f = 0 THEN Return(p, <<>>)
        ELSE Become(p, "pipe") /\ local' = [local EXCEPT ![p].rf = f] /\ UNCHANGED todo
     /\ UNCHANGED <<ofile, running, ff, Objects, panicked>>

PipeSecond(p) ==
  LET f == FreeFile
  IN /\ At(p, "pipe")
     /\ Filealloc(f)
     /\ IF f = 0 THEN Return(p, <<local[p].rf>>)
        ELSE Become(p, "kalloc") /\ local' = [local EXCEPT ![p].wf = f] /\ UNCHANGED todo
     /\ UNCHANGED <<ofile, running, ff, Objects, panicked>>

\* kalloc() of the pipe may fail. The two files become its ends.
PipeMake(p) ==
  LET rf == local[p].rf
      wf == local[p].wf
      end(w, page) == [ref |-> 1, type |-> "pipe", writable |-> w, obj |-> page]
      free == Page \ (readopen \cup writeopen)
  IN /\ At(p, "kalloc")
     /\ IF free = {} THEN Return(p, <<rf, wf>>) /\ UNCHANGED <<ftable, readopen, writeopen>>
        ELSE \E page \in free :
               /\ readopen' = readopen \cup {page}
               /\ writeopen' = writeopen \cup {page}
               /\ ftable' = [ftable EXCEPT ![rf] = end(FALSE, page), ![wf] = end(TRUE, page)]
               /\ Become(p, "fds")
               /\ UNCHANGED <<local, todo>>
     /\ UNCHANGED <<ofile, running, ff, iref, panicked>>

\* Two descriptors, or none and both ends are closed.
PipeFds(p) ==
  LET rf == local[p].rf
      wf == local[p].wf
  IN /\ At(p, "fds")
     /\ \/ \E fd0 \in FreeFds(ofile[p]) :
             \E fd1 \in FreeFds([ofile[p] EXCEPT ![fd0] = rf]) :
               /\ ofile' = [ofile EXCEPT ![p] = [@ EXCEPT ![fd0] = rf, ![fd1] = wf]]
               /\ Return(p, <<>>)
        \/ /\ Cardinality({fd \in Fd : ofile[p][fd] = 0}) < 2
           /\ UNCHANGED ofile
           /\ Return(p, <<rf, wf>>)
     /\ UNCHANGED <<ftable, running, ff, Objects, panicked>>

-----------------------------------------------------------------------------
\* sys_dup(), sys_close(), fileclose()

\* The descriptor is there before the file is counted for it.
Dup(p) ==
  \E old \in Fd, fd \in FreeFds(ofile[p]) :
    /\ At(p, "user")
    /\ ofile[p][old] # 0
    /\ ofile' = [ofile EXCEPT ![p][fd] = ofile[p][old]]
    /\ local' = [local EXCEPT ![p] = [NoLocal EXCEPT !.rf = ofile[p][old], !.fd = fd]]
    /\ Become(p, "dup")
    /\ UNCHANGED <<ftable, running, todo, ff, Objects, panicked>>

DupCount(p) ==
  /\ At(p, "dup")
  /\ Filedup(local[p].rf)
  /\ Return(p, <<>>)
  /\ UNCHANGED <<ofile, running, ff, Objects>>

Close(p) ==
  \E fd \in Fd :
    /\ At(p, "user")
    /\ ofile[p][fd] # 0
    /\ ofile' = [ofile EXCEPT ![p][fd] = 0]
    /\ Return(p, <<ofile[p][fd]>>)
    /\ UNCHANGED <<ftable, running, ff, Objects, panicked>>

\* fileclose() of the first file in todo, up to the release of ftable.lock. (Only
\* the descriptor that was the last leaves a copy, of a file without references.)
CloseFile(p) ==
  LET f == Head(todo[p])
      last == ftable[f].ref = 1
  IN /\ todo[p] # <<>>
     /\ ff[p] = Closed
     /\ IF ftable[f].ref < 1 THEN panicked' = TRUE /\ UNCHANGED <<ftable, todo, ff>>
        ELSE /\ todo' = [todo EXCEPT ![p] = Tail(@)]
             /\ ff' = [ff EXCEPT ![p] = IF last /\ ftable[f].type # "none"
                                        THEN [ftable[f] EXCEPT !.ref = 0] ELSE @]
             /\ ftable' = [ftable EXCEPT ![f] = IF last THEN Closed
                                                ELSE [ftable[f] EXCEPT !.ref = @ - 1]]
             /\ UNCHANGED panicked
     /\ UNCHANGED <<ofile, running, pc, local, Objects>>

\* pipeclose() or iput(), from the copy.
CloseObject(p) ==
  LET obj == ff[p].obj
  IN /\ ff[p] # Closed
     /\ ff' = [ff EXCEPT ![p] = Closed]
     /\ IF ff[p].type = "inode"
        THEN iref' = [iref EXCEPT ![obj] = @ - 1] /\ UNCHANGED <<readopen, writeopen>>
        ELSE IF ff[p].writable
        THEN writeopen' = writeopen \ {obj} /\ UNCHANGED <<iref, readopen>>
        ELSE readopen' = readopen \ {obj} /\ UNCHANGED <<iref, writeopen>>
     /\ UNCHANGED <<ftable, ofile, running, pc, local, todo, panicked>>

-----------------------------------------------------------------------------
\* fork() and clone() copy the descriptors, exit() closes them

Forking(c) == \E p \in running : pc[p] = "fork" /\ local[p].child = c

Fork(p) ==
  \E c \in Proc \ running :
    /\ At(p, "user")
    /\ ~Forking(c)
    /\ Become(p, "fork")
    /\ local' = [local EXCEPT ![p] = [NoLocal EXCEPT !.child = c]]
    /\ UNCHANGED <<ftable, ofile, running, todo, ff, Objects, panicked>>

\* One descriptor for the child.
ForkCopy(p) ==
  LET fd == local[p].fd
      f == ofile[p][fd]
  IN /\ At(p, "fork")
     /\ fd < NOFILE
     /\ Filedup(f)
     /\ ofile' = [ofile EXCEPT ![local[p].child][fd] = f]
     /\ local' = [local EXCEPT ![p].fd = @ + 1]
     /\ UNCHANGED <<running, pc, todo, ff, Objects>>

ForkEnd(p) ==
  /\ At(p, "fork")
  /\ local[p].fd = NOFILE
  /\ running' = running \cup {local[p].child}
  /\ Return(p, <<>>)
  /\ UNCHANGED <<ftable, ofile, ff, Objects, panicked>>

Exit(p) ==
  /\ At(p, "user")
  /\ Become(p, "exit")
  /\ UNCHANGED <<ftable, ofile, running, local, todo, ff, Objects, panicked>>

\* The first of the descriptors left; exit() ends with none.
ExitClose(p) ==
  LET open == {fd \in Fd : ofile[p][fd] # 0}
      fd == Min(open)
  IN /\ At(p, "exit")
     /\ IF open = {}
        THEN /\ Return(p, <<>>)
             /\ running' = running \ {p}
             /\ UNCHANGED ofile
        ELSE /\ todo' = [todo EXCEPT ![p] = <<ofile[p][fd]>>]
             /\ ofile' = [ofile EXCEPT ![p][fd] = 0]
             /\ UNCHANGED <<pc, local, running>>
     /\ UNCHANGED <<ftable, ff, Objects, panicked>>

\* What a call does once it has begun.
Continue(p) ==
  \/ OpenAlloc(p) \/ OpenFail(p) \/ OpenFill(p)
  \/ PipeSecond(p) \/ PipeMake(p) \/ PipeFds(p)
  \/ DupCount(p) \/ CloseFile(p) \/ CloseObject(p)
  \/ ForkCopy(p) \/ ForkEnd(p) \/ ExitClose(p)

Step(p) ==
  \/ Open(p) \/ PipeBegin(p) \/ Dup(p) \/ Close(p) \/ Fork(p) \/ Exit(p)
  \/ Continue(p)

Next == ~panicked /\ \E p \in Proc : Step(p)

Spec == Init /\ [][Next]_vars

\* A process that is in a call is scheduled.
Fairness == \A p \in Proc : WF_vars(~panicked /\ Continue(p))

-----------------------------------------------------------------------------
\* Properties

TypeOK ==
  LET file == [ref : Nat, type : {"none", "inode", "pipe"}, writable : BOOLEAN,
               obj : Inode \cup Page \cup {0}]
  IN /\ ftable \in [File -> file]
     /\ ofile \in [Proc -> [Fd -> File \cup {0}]]
     /\ running \in SUBSET Proc
     /\ pc \in [Proc -> {"user", "open", "put", "fill", "pipe", "kalloc", "fds", "dup",
                         "fork", "exit"}]
     /\ local \in [Proc -> [rf : File \cup {0}, wf : File \cup {0}, ip : Inode \cup {0},
                            child : Proc \cup {0}, fd : 0 .. NOFILE]]
     /\ todo \in [Proc -> Seq(File)]
     /\ ff \in [Proc -> file]
     /\ iref \in [Inode -> Nat]
     /\ readopen \in SUBSET Page /\ writeopen \in SUBSET Page
     /\ panicked \in BOOLEAN

\* A descriptor counts, but for one that dup() has set and not counted yet.
Descriptor(p, k, f) ==
  /\ k \in Fd /\ ofile[p][k] = f
  /\ ~ (pc[p] = "dup" /\ k = local[p].fd)

\* f is the k-th file, from the last on, that p still has to close.
Pending(p, k, f) ==
  k < Len(todo[p]) /\ todo[p][Len(todo[p]) - k] = f

\* Is f what a process refers to: by a descriptor, as one that it has to close, or in a
\* variable of pipe()?
Refers(place, p, k, f) ==
  \/ place = "ofile" /\ Descriptor(p, k, f)
  \/ place = "todo" /\ Pending(p, k, f)
  \/ place = "rf" /\ k = 0 /\ pc[p] \in {"pipe", "kalloc", "fds"} /\ local[p].rf = f
  \/ place = "wf" /\ k = 0 /\ pc[p] \in {"kalloc", "fds"} /\ local[p].wf = f

References(f) ==
  {x \in {"ofile", "rf", "wf", "todo"} \X Proc \X (0 .. NOFILE) :
     Refers(x[1], x[2], x[3], f)}

\* The reference count of a file is the number of its descriptors in all processes and
\* of the references that calls under way have: it is closed when the last of them is
\* gone, and not before.
RefsExact == \A f \in File : ftable[f].ref = Cardinality(References(f))

\* The files, and the copies of closed ones, that refer to an inode or an end.
Holders(type, w, obj) ==
  LET match(x) == x.type = type /\ x.obj = obj /\ (type = "pipe" => x.writable = w)
  IN {<<"file", f>> : f \in {g \in File : ftable[g].ref > 0 /\ match(ftable[g])}}
     \cup {<<"copy", p>> : p \in {q \in Proc : match(ff[q])}}

\* Each inode is put, and each end of a pipe closed, once for every time it was
\* opened, although the file is free for others before that.
ObjectsExact ==
  /\ \A i \in Inode :
       iref[i] = Cardinality(Holders("inode", FALSE, i))
                 + Cardinality({p \in Proc : local[p].ip = i})
  /\ \A g \in Page, w \in BOOLEAN :
       Cardinality(Holders("pipe", w, g))
         = IF g \in (IF w THEN writeopen ELSE readopen) THEN 1 ELSE 0

\* What a program has a descriptor for can be read or written: it is never a file
\* that another process has closed or is still opening, and fileread() and
\* filewrite() find an inode or a pipe.
DescriptorsOpen ==
  \A p \in running : pc[p] # "fill" => \A fd \in Fd : ofile[p][fd] # 0 =>
    /\ ftable[ofile[p][fd]].ref > 0
    /\ ftable[ofile[p][fd]].type # "none"

\* fileclose() of a file that is not open yet closes nothing: open() and pipe()
\* rely on it on their error paths.
FreshIsNone == \A f \in File : ftable[f].ref = 0 => ftable[f].type = "none"

NoPanic == ~panicked

\* Every file is counted as often as descriptors and running calls refer to it, every
\* inode and end of a pipe is given back once, and a program never has a descriptor
\* of a file that is closed (fileclose, filedup, sys_open, sys_pipe, sys_dup, fork).
DescriptorsExact ==
  TypeOK /\ RefsExact /\ ObjectsExact /\ DescriptorsOpen /\ FreshIsNone /\ NoPanic

\* The last descriptor of the write end of a pipe is gone, and its readers are not yet
\* told; for one that they will be.
WritersGone(g) ==
  /\ g \in writeopen
  /\ \A f \in File : ftable[f].ref > 0 /\ ftable[f].writable => ftable[f].obj # g

-----------------------------------------------------------------------------
\* The inductive invariant behind the theorems of FileTableProofs.

\* Only processes that run are in a call or have files to close; only they and the
\* children being forked have descriptors. An inode is held up to sys_open's end.
CallInv ==
  \A p \in Proc :
    /\ p \notin running => pc[p] = "user" /\ todo[p] = <<>>
    /\ p \notin running /\ ~ Forking(p) => \A fd \in Fd : ofile[p][fd] = 0
    /\ todo[p] # <<>> => pc[p] \in {"user", "put", "exit"}
    /\ Len(todo[p]) <= 2
    /\ local[p].ip # 0 <=> pc[p] \in {"open", "put", "fill"}

\* A file that has been allocated and is not filled in: only the call that allocated it
\* knows of it.
Fresh(f) == f \in File /\ ftable[f].ref = 1 /\ ftable[f].type = "none"

\* What the variables of a call stand for.
LocalInv ==
  \A p \in Proc :
    /\ pc[p] \in {"fill", "pipe", "kalloc"} => Fresh(local[p].rf)
    /\ pc[p] = "kalloc" => Fresh(local[p].wf)
    /\ pc[p] = "fds" => /\ {local[p].rf, local[p].wf} \subseteq File
                        /\ ftable[local[p].rf].type = "pipe"
                        /\ ftable[local[p].wf].type = "pipe"
    /\ pc[p] \in {"kalloc", "fds"} => local[p].rf # local[p].wf
    /\ pc[p] = "fill" => \E fd \in Fd : ofile[p][fd] = local[p].rf
    /\ pc[p] = "dup" => /\ local[p].rf \in File /\ local[p].fd \in Fd
                        /\ ofile[p][local[p].fd] = local[p].rf
                        /\ \E old \in Fd \ {local[p].fd} : ofile[p][old] = local[p].rf
    /\ pc[p] = "fork" => /\ local[p].child \in Proc \ running
                         /\ \A q \in Proc \ {p} :
                              pc[q] = "fork" => local[q].child # local[p].child
                         /\ \A fd \in Fd : fd >= local[p].fd => ofile[local[p].child][fd] = 0

\* A descriptor's file is filled in, unless open() is about to do it.
DescInv ==
  \A p \in Proc, fd \in Fd :
    ofile[p][fd] # 0 => \/ ftable[ofile[p][fd]].type # "none"
                        \/ pc[p] = "fill" /\ ofile[p][fd] = local[p].rf

\* What files, and the copies of closed ones, refer to.
KindInv ==
  LET wellFormed(x) == /\ x.type = "inode" => x.obj \in Inode
                       /\ x.type = "pipe" => x.obj \in Page
  IN /\ \A f \in File : wellFormed(ftable[f])
     /\ \A p \in Proc : wellFormed(ff[p]) /\ (ff[p].type = "none" => ff[p] = Closed)

FileInv ==
  /\ TypeOK /\ ~ panicked
  /\ RefsExact /\ ObjectsExact /\ FreshIsNone
  /\ CallInv /\ LocalInv /\ DescInv /\ KindInv
=============================================================================
