----------------------------- MODULE MCWaiting -----------------------------
(***************************************************************************)
(* What must eventually happen: the components in which somebody waits for *)
(* somebody else, BufferCache, Pipe, Console, FileTable and Shell, each on *)
(* small sets.  A behaviour is one of the component in focus; the others   *)
(* stay as they begin.                                                     *)
(***************************************************************************)
EXTENDS BufferCache

CONSTANTS b1, b2, k1, k2, k3, zero, byte, page, nl, eof

VARIABLES
  focus,
  ring, nread, nwrite, readopen, writeopen, pipelock, freed, ends, ppc, pcall, left, pkilled,
  buf, r, w, e, inputlock, ilock, cpc, ccall, target, n, ckilled,
  ftable, ofile, running, fpc, local, todo, ff, iref, openreads, openwrites, fpanicked,
  shpc, line, bg, pleft, pright, shbuf, pids, pipes, children, child, reads, writes, bytes

pipe == <<ring, nread, nwrite, readopen, writeopen, pipelock, freed, ends, ppc, pcall,
          left, pkilled>>
keyboard == <<buf, r, w, e, inputlock, ilock, cpc, ccall, target, n, ckilled>>
files == <<ftable, ofile, running, fpc, local, todo, ff, iref, openreads, openwrites,
           fpanicked>>
shell == <<shpc, line, bg, pleft, pright, shbuf, pids, pipes, children, child, reads,
           writes, bytes>>

Pipes == INSTANCE Pipe WITH
  Proc <- 1 .. 3, KillProc <- {}, Byte <- {byte}, PIPESIZE <- 1, UintSize <- 2,
  Request <- {2},
  data <- ring, lock <- pipelock, pc <- ppc, call <- pcall, killed <- pkilled

Keyboard == INSTANCE Console WITH
  Char <- {byte, nl, eof}, Newline <- nl, CtrlD <- eof, INPUT_BUF <- 2, UintSize <- 4,
  Request <- {2}, KillProc <- {},
  lock <- inputlock, busy <- ilock, pc <- cpc, call <- ccall, killed <- ckilled

Files == INSTANCE FileTable WITH
  NFILE <- 2, NOFILE <- 2, Inode <- {}, Page <- {page},
  pc <- fpc, readopen <- openreads, writeopen <- openwrites, panicked <- fpanicked

\* Lines of two and three commands of every kind: a first one that ignores its input is as
\* a filter without any, and a last one that writes is as one that does not.
Kinds == {"source", "filter", "ignore", "builtin"}
Lines ==
  LET first == Kinds \ {"ignore"}
      last == Kinds \ {"source"}
  IN (first \X last) \cup (first \X Kinds \X last)

Commands == INSTANCE Shell WITH
  Line <- Lines, Pipe <- 1 .. 2, Child <- 1 .. 3, PipeSize <- 1, Output <- 3,
  pc <- shpc, buf <- shbuf

ASSUME Keyboard!ConsoleAssumption /\ Files!FileTableAssumption /\ Commands!ShellAssumption

allVars == <<focus, vars, pipe, keyboard, files, shell>>

AllInit ==
  /\ focus \in {"disk", "pipe", "keyboard", "files", "shell"}
  /\ Init /\ Pipes!Init /\ Keyboard!Init /\ Files!Init /\ Commands!Init
  /\ focus = "disk" \/ (lru = <<b1, b2>> /\ drive.sector = k1)
  /\ focus = "files" \/ running = {1}

\* A step of the component in focus.
OfDisk(A) == focus = "disk" /\ A /\ UNCHANGED <<focus, pipe, keyboard, files, shell>>
OfPipe(A) == focus = "pipe" /\ A /\ UNCHANGED <<focus, vars, keyboard, files, shell>>
OfKeyboard(A) == focus = "keyboard" /\ A /\ UNCHANGED <<focus, vars, pipe, files, shell>>
OfFiles(A) == focus = "files" /\ A /\ UNCHANGED <<focus, vars, pipe, keyboard, shell>>
OfShell(A) == focus = "shell" /\ A /\ UNCHANGED <<focus, vars, pipe, keyboard, files>>

AllNext ==
  \/ OfDisk(Next)
  \/ OfPipe(Pipes!Next)
  \/ OfKeyboard(Keyboard!Next)
  \/ OfFiles(Files!Next)
  \/ OfShell(Commands!Next)

\* The fairness of the modules, for the component in focus.  Agents 1 to 3 are its
\* processes or programs, or the drive; 4 stands for the disk's interrupts or the shell.
Agent == 1 .. 4

Step(x) ==
  \/ OfDisk(~panicked /\ CASE x \in Proc -> ProcNext(First(x)) \/ ProcNext(Second(x))
                          [] x = 3 -> DriveDone
                          [] x = 4 -> Ideintr \/ IdeintrIgnored)
  \/ OfShell(IF x = 4 THEN Commands!ShellStep ELSE Commands!ChildStep(x))
  \/ x \in 1 .. 3 /\ OfPipe(Pipes!KernelStep(x))
  \/ x \in Proc /\ OfKeyboard(Keyboard!KernelStep(x))
  \/ x \in Proc /\ OfFiles(~fpanicked /\ Files!Continue(x))

\* The steps in which an agent may find a lock taken again and again.
LockStep(x) ==
  \/ OfPipe(Pipes!Acquire(x) \/ Pipes!PipeClose(x))
  \/ x \in Proc /\ OfKeyboard(Keyboard!KernelStep(x))

AllFairness == (\A x \in Agent : WF_allVars(Step(x))) /\ \A x \in 1 .. 3 : SF_allVars(LockStep(x))

AllSpec == AllInit /\ [][AllNext]_allVars /\ AllFairness

-----------------------------------------------------------------------------
\* The properties, for two of the processes of each component, which are alike.

\* No reader sleeps on a pipe, or at the console, while there is something to read: the
\* wakeup did not come between its test and its sleep (piperead, consoleread).
ReadersWoken == Pipes!ReadersWoken /\ Keyboard!ReadersWoken

\* A call that owes nothing to other programs ends: one that waits for the disk has its
\* block, one at the closed end of a pipe returns, and output goes out although others
\* wait for input at the same inode (iderw, pipeclose, consolewrite).
CallsEnd ==
  \A x \in 1 .. 2 :
    (\/ focus = "disk" /\ pc[First(x)] = "iderw"
     \/ focus = "pipe" /\ Pipes!AtClosedEnd(x)
     \/ focus = "keyboard" /\ ccall[x] = "write")
    ~> (\/ focus = "disk" /\ pc[First(x)] = "hold"
        \/ focus = "pipe" /\ pcall[x] \notin {"read", "write"}
        \/ focus = "keyboard" /\ ccall[x] = "none")

\* What readers wait for reaches them: finished input is read, and the end of file of a
\* pipe is announced once the last descriptor for writing is closed, by whatever way
\* that happened (consoleintr, fileclose).
InputArrives ==
  \A x \in 1 .. 2 :
    (\/ focus = "keyboard" /\ Keyboard!MayRead(x)
     \/ focus = "files" /\ Files!WritersGone(page))
    ~> (\/ focus = "keyboard" /\ ~Keyboard!MayRead(x)
        \/ focus = "files" /\ ~Files!WritersGone(page))

\* The shell comes back to its prompt, unless it dies of SIGPIPE or waits for a program that
\* writes into a full pipe of which only the shell has the read end; and that happens in no
\* line of programs that read their input to its end, where no process keeps an end of a
\* pipe open on which a filter waits for ever (runCmdWithPipe).
PromptReturns ==
  /\ shpc # "prompt" ~> shpc \in {"prompt", "dead"} \/ Commands!WaitsInVain
  /\ Commands!BeginsTame ~> shpc = "prompt"
=============================================================================
