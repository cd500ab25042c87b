------------------------------- MODULE Shell -------------------------------
(***************************************************************************)
(* lab2, the shell: runCmdWithPipe() of cmd.c and the main loop of mysh.c, *)
(* with the programs that it starts.  A line is a sequence of commands     *)
(* with a pipe from each to the next.                                      *)
(*                                                                         *)
(* A step of the shell or of a child is a system call, or what it does     *)
(* between two.  A descriptor stands for all duplicates of it in a         *)
(* process.  Every pipe is a new one, and so is every child; bytes are     *)
(* only counted.                                                           *)
(***************************************************************************)
EXTENDS Naturals, Sequences, FiniteSets

CONSTANTS
  Line,     \* what is typed: sequences of kinds of commands
  Pipe,     \* 1 .. the number of pipes that are made
  Child,    \* 1 .. the number of programs that are started
  PipeSize, \* bytes that a pipe holds
  Output    \* bytes that a program writes which has no input

\* The kinds: a program that writes Output bytes, one that copies its input to its
\* output, one that ends without reading its input, and the shell's own commands.
Kind == {"source", "filter", "ignore", "builtin"}

ShellAssumption ==
  /\ Line \subseteq Seq(Kind) \ {<<>>}
  /\ {PipeSize, Output} \subseteq Nat \ {0}
  /\ Pipe = 1 .. Cardinality(Pipe)
  /\ Child = 1 .. Cardinality(Child)

SHELL == 0
Process == {SHELL} \cup Child

VARIABLES
  pc,      \* the shell: at the prompt, in the loop over the line, or after it
  line,    \* the commands of the line that are not yet started
  bg,      \* isBackground
  pleft, pright, \* of the command in hand, 0 for none
  buf,     \* has the shell the output of a command of its own in buf?
  pids,    \* the children that it will wait for
  pipes, children, \* how many there were so far
  child,   \* the programs: where each is, its kind, its pipes, the bytes it has in hand
           \*   and whether the shell writes its input (a copy of buf)
  reads, writes,   \* the pipes that each process has an end of
  bytes    \* in each pipe

vars == <<pc, line, bg, pleft, pright, buf, pids, pipes, children,
          child, reads, writes, bytes>>

NoChild == [at |-> "none", kind |-> "source", in |-> 0, out |-> 0, left |-> 0,
            fed |-> FALSE]

Init ==
  /\ pc = "prompt"
  /\ line = <<>>
  /\ bg = FALSE
  /\ pleft = 0 /\ pright = 0
  /\ buf = FALSE
  /\ pids = <<>>
  /\ pipes = 0 /\ children = 0
  /\ child = [c \in Child |-> NoChild]
  /\ reads = [p \in Process |-> {}]
  /\ writes = [p \in Process |-> {}]
  /\ bytes = [i \in Pipe |-> 0]

-----------------------------------------------------------------------------
HasReader(i) == \E p \in Process : i \in reads[p]
HasWriter(i) == \E p \in Process : i \in writes[p]

CloseRead(p, i) == reads' = [reads EXCEPT ![p] = @ \ {i}]
CloseWrite(p, i) == writes' = [writes EXCEPT ![p] = @ \ {i}]

Loop == <<line, bg, pleft, pright, buf, pids, pipes, children>>
Ends == <<reads, writes, bytes>>

-----------------------------------------------------------------------------
\* The shell

Programs(l) == Len(SelectSeq(l, LAMBDA kind : kind # "builtin"))

\* The main loop reads a line, with or without an & at its end.
ReadLine ==
  /\ pc = "prompt"
  /\ line' \in {l \in Line : /\ pipes + Len(l) - 1 \in {0} \cup Pipe
                             /\ children + Programs(l) \in {0} \cup Child}
  /\ bg' \in BOOLEAN
  /\ pc' = "loop"
  /\ UNCHANGED <<pleft, pright, buf, pids, pipes, children, child, Ends>>

\* runCmdWithPipe() returns, and forgets what it had.
Return ==
  /\ pc' = "prompt" /\ line' = <<>> /\ bg' = FALSE
  /\ pleft' = 0 /\ pright' = 0 /\ buf' = FALSE /\ pids' = <<>>

\* A turn of the loop begins: there is a pipe to the next command if there is one.
Turn ==
  /\ pc = "loop" /\ line # <<>>
  /\ IF Len(line) > 1
     THEN /\ pipes' = pipes + 1
          /\ pright' = pipes + 1
          /\ reads' = [reads EXCEPT ![SHELL] = @ \cup {pipes + 1}]
          /\ writes' = [writes EXCEPT ![SHELL] = @ \cup {pipes + 1}]
     ELSE pright' = 0 /\ UNCHANGED <<pipes, reads, writes>>
  /\ pc' = IF Head(line) = "builtin" THEN "builtin" ELSE "fork"
  /\ UNCHANGED <<line, bg, pleft, buf, pids, children, child, bytes>>

NextCommand == line' = Tail(line) /\ pleft' = pright /\ pc' = "loop"

\* A command of the shell's own runs in the shell and leaves its output in buf, or
\* fails, and the line with it.
Builtin ==
  /\ pc = "builtin"
  /\ CloseRead(SHELL, pleft)
  /\ \/ NextCommand /\ buf' = TRUE /\ UNCHANGED <<bg, pright, pids>>
     \/ Return
  /\ UNCHANGED <<pipes, children, child, writes, bytes>>

\* fork(): the child has all ends of pipes that the shell has.
Fork ==
  LET c == children + 1
  IN /\ pc = "fork"
     /\ children' = c
     /\ child' = [child EXCEPT ![c] = [at |-> "start", kind |-> Head(line), in |-> pleft,
                                       out |-> pright, left |-> 0, fed |-> buf]]
     /\ reads' = [reads EXCEPT ![c] = reads[SHELL]]
     /\ writes' = [writes EXCEPT ![c] = writes[SHELL]]
     /\ pids' = Append(pids, c)
     /\ pc' = IF buf THEN "feed" ELSE "parent"
     /\ UNCHANGED <<line, bg, pleft, pright, buf, pipes, bytes>>

\* fork() fails, and the line with it: the ends of its pipes stay open, the children that
\* it has started go on, and nobody waits for them.
ForkFails ==
  /\ pc = "fork"
  /\ Return
  /\ UNCHANGED <<pipes, children, child, Ends>>

\* What the last command left in buf goes into the pipe between them. The shell has
\* closed its read end: it dies of SIGPIPE when the child has, too.
Feed ==
  /\ pc = "feed"
  /\ CloseRead(SHELL, pleft)
  /\ pc' = "write"
  /\ UNCHANGED <<Loop, child, writes, bytes>>

FeedWrite ==
  /\ pc = "write"
  /\ IF HasReader(pleft)
     THEN /\ bytes' = [bytes EXCEPT ![pleft] = @ + 1]
          /\ CloseWrite(SHELL, pleft)
          /\ buf' = FALSE
          /\ pc' = "parent"
     ELSE pc' = "dead" /\ UNCHANGED <<bytes, writes, buf>>
  /\ UNCHANGED <<line, bg, pleft, pright, pids, pipes, children, child, reads>>

\* (Faulty: the shell keeps the write end of the pipe.)
ParentKeepsEnd ==
  /\ pc = "parent"
  /\ NextCommand
  /\ UNCHANGED <<bg, pright, buf, pids, pipes, children, child, Ends>>

Parent ==
  /\ pc = "parent"
  /\ CloseWrite(SHELL, pright)
  /\ NextCommand
  /\ UNCHANGED <<bg, pright, buf, pids, pipes, children, child, reads, bytes>>

\* waitpid() for each child in turn, unless the line is a background one; then what
\* is in buf is put out.
Wait ==
  /\ pc = "loop" /\ line = <<>>
  /\ IF bg \/ pids = <<>> THEN Return
     ELSE /\ child[Head(pids)].at = "exited"
          /\ pids' = Tail(pids)
          /\ UNCHANGED <<pc, line, bg, pleft, pright, buf>>
  /\ UNCHANGED <<pipes, children, child, Ends>>

-----------------------------------------------------------------------------
\* A child, and the program it becomes

\* Before exec() the child closes the end of pright that it does not use, and of
\* pleft if the shell writes into it; the others from the shell stay open.
Start(c) ==
  /\ child[c].at = "start"
  /\ CloseRead(c, child[c].out)
  /\ IF child[c].fed THEN CloseWrite(c, child[c].in) ELSE UNCHANGED writes
  /\ child' = [child EXCEPT ![c].at = "run",
                            ![c].left = IF child[c].kind = "source" THEN Output ELSE 0]
  /\ UNCHANGED <<pc, Loop, bytes>>

Exit(c) ==
  /\ child' = [child EXCEPT ![c] = [NoChild EXCEPT !.at = "exited"]]
  /\ reads' = [reads EXCEPT ![c] = {}]
  /\ writes' = [writes EXCEPT ![c] = {}]
  /\ UNCHANGED bytes

\* A byte is written: to the terminal, into the pipe when it has room, or SIGPIPE.
Write(c) ==
  LET out == child[c].out
  IN /\ child[c].at = "run" /\ child[c].left > 0
     /\ IF out # 0 /\ ~HasReader(out) THEN Exit(c)
        ELSE /\ out # 0 => bytes[out] < PipeSize
             /\ child' = [child EXCEPT ![c].left = @ - 1]
             /\ bytes' = IF out = 0 THEN bytes ELSE [bytes EXCEPT ![out] = @ + 1]
             /\ UNCHANGED <<reads, writes>>
     /\ UNCHANGED <<pc, Loop>>

\* A filter reads a byte, and ends when there is none and nobody can write one. A
\* terminal has nothing for it.
Read(c) ==
  LET in == child[c].in
  IN /\ child[c].at = "run" /\ child[c].left = 0 /\ child[c].kind = "filter"
     /\ IF in # 0 /\ bytes[in] > 0
        THEN /\ bytes' = [bytes EXCEPT ![in] = @ - 1]
             /\ child' = [child EXCEPT ![c].left = 1]
             /\ UNCHANGED <<reads, writes>>
        ELSE /\ in # 0 => ~HasWriter(in)
             /\ Exit(c)
     /\ UNCHANGED <<pc, Loop>>

Done(c) ==
  /\ child[c].at = "run" /\ child[c].left = 0 /\ child[c].kind # "filter"
  /\ Exit(c)
  /\ UNCHANGED <<pc, Loop>>

ShellStep == Turn \/ Builtin \/ Fork \/ ForkFails \/ Feed \/ FeedWrite \/ Parent \/ Wait
ChildStep(c) == Start(c) \/ Write(c) \/ Read(c) \/ Done(c)

Next == ReadLine \/ ShellStep \/ \E c \in Child : ChildStep(c)

Spec == Init /\ [][Next]_vars

\* All of them are processes that the system schedules.
Fairness == WF_vars(ShellStep) /\ \A c \in Child : WF_vars(ChildStep(c))

-----------------------------------------------------------------------------
\* What keeps the shell from its prompt

\* A program of the line writes into a full pipe that no program reads any more, and
\* gets no SIGPIPE, as the shell has the read end.
WritesInVain(c) ==
  LET out == child[c].out
  IN /\ child[c].at = "run" /\ child[c].left > 0
     /\ out # 0 /\ bytes[out] = PipeSize /\ out \in reads[SHELL]
     /\ \A d \in Child : child[d].in # out

WaitsInVain ==
  /\ pc = "loop" /\ line = <<>> /\ ~bg
  /\ \E c \in Child : WritesInVain(c) /\ \E i \in DOMAIN pids : pids[i] = c

\* A line begins in which what is written is read: behind the first command there are only
\* filters, and the shell's own commands where no filter writes to them.
BeginsTame ==
  /\ pc = "loop" /\ line # <<>> /\ pleft = 0
  /\ \A i \in 2 .. Len(line) :
       line[i] = "filter" \/ (line[i] = "builtin" /\ (i = 2 \/ line[i - 1] = "builtin"))
=============================================================================
