------------------------------- MODULE Shell --------------------------------
(***************************************************************************)
(* The shell (user/sh.c), its parser and the processes that run a command, *)
(* below init (user/init.c), which starts the shell again.                 *)
(*                                                                         *)
(* A line is a sequence of tokens: "w" for a word, or a symbol (">>" opens *)
(* its file in another mode, and is taken with ">").  The tree holds       *)
(* positions of the line, as sh.c's holds pointers into its buffer.        *)
(* A step is a system call, or the calls in a row by which a child rewires *)
(* its own descriptors.  fork(), exit(), wait() and pipe() are the kernel's*)
(* (modules Proc, Fs and Pipe); a program writes Chunks times what fills a *)
(* pipe, then reads to the end of its input.                               *)
(***************************************************************************)
EXTENDS Naturals, Sequences, FiniteSets, FiniteSetsExt, Functions

CONSTANTS NPROC, NOFILE, MAXARGS,
          Lines,                \* the lines that may be typed first, second, ...
          Chunks

MaxLines == Len(Lines)          \* bound: lines typed

ASSUME ShellAssumption == NPROC > 2 /\ NOFILE > 4 /\ MAXARGS > 1

VARIABLES proc,     \* the process table
          full,     \* pipes with no room
          lines,    \* lines typed
          failed    \* a fork1() has panicked
other == <<full, lines, failed>>
vars == <<proc, other>>

---------------------------------------------------------------------------
(* The parser: where it stands in the line, and what it has built.         *)

execcmd(argv) == [type |-> "EXEC", argv |-> argv]
redircmd(cmd, file, fd) == [type |-> "REDIR", cmd |-> cmd, file |-> file, fd |-> fd]
pipecmd(left, right) == [type |-> "PIPE", left |-> left, right |-> right]
listcmd(left, right) == [type |-> "LIST", left |-> left, right |-> right]
backcmd(cmd) == [type |-> "BACK", cmd |-> cmd]

gettoken(l, i) == IF i <= Len(l) THEN l[i] ELSE "end"
peek(l, i, toks) == gettoken(l, i) \in toks

Fail == [ok |-> FALSE, cmd |-> [type |-> "SYNTAX"]]   \* panic(): the child exits
Done(cmd, i) == [ok |-> TRUE, cmd |-> cmd, i |-> i]

RECURSIVE AddArg(_, _), parseredirs(_, _), parseargs(_, _, _), backs(_, _),
          parseline(_, _), parsepipe(_, _), parseexec(_, _), nulterminate(_)

\* cmd->argv[argc] = q, in the EXEC below the redirections made so far.
AddArg(cmd, q) == IF cmd.type = "EXEC" THEN execcmd(Append(cmd.argv, q))
                  ELSE [cmd EXCEPT !.cmd = AddArg(@, q)]

RedirFd(tok) == IF tok = "<" THEN 0 ELSE 1
parseredirs(l, r) ==
  IF ~r.ok \/ ~peek(l, r.i, {"<", ">"}) THEN r
  ELSE IF gettoken(l, r.i + 1) # "w" THEN Fail
  ELSE parseredirs(l, Done(redircmd(r.cmd, r.i + 1, RedirFd(gettoken(l, r.i))), r.i + 2))

\* Mutant: a block does not end the arguments.
EndOfArgsInBlock == {"|", "&", ";", "end"}
EndOfArgs == {"|", ")", "&", ";", "end"}
parseargs(l, r, argc) ==
  IF ~r.ok \/ peek(l, r.i, EndOfArgs) THEN r
  ELSE IF gettoken(l, r.i) # "w" \/ argc + 1 >= MAXARGS THEN Fail
  ELSE parseargs(l, parseredirs(l, Done(AddArg(r.cmd, r.i), r.i + 1)), argc + 1)

parseblock(l, i) ==
  LET r == parseline(l, i + 1) IN
  IF r.ok /\ peek(l, r.i, {")"}) THEN parseredirs(l, Done(r.cmd, r.i + 1)) ELSE Fail

parseexec(l, i) == IF peek(l, i, {"("}) THEN parseblock(l, i)
                   ELSE parseargs(l, parseredirs(l, Done(execcmd(<<>>), i)), 0)

parsepipe(l, i) ==
  LET r == parseexec(l, i)
      s == parsepipe(l, r.i + 1)
  IN IF ~r.ok \/ ~peek(l, r.i, {"|"}) THEN r
     ELSE IF s.ok THEN Done(pipecmd(r.cmd, s.cmd), s.i) ELSE Fail

backs(l, r) == IF r.ok /\ peek(l, r.i, {"&"}) THEN backs(l, Done(backcmd(r.cmd), r.i + 1)) ELSE r
parseline(l, i) ==
  LET r == backs(l, parsepipe(l, i))
      s == parseline(l, r.i + 1)
  IN IF ~r.ok \/ ~peek(l, r.i, {";"}) THEN r
     ELSE IF s.ok THEN Done(listcmd(r.cmd, s.cmd), s.i) ELSE Fail

parsecmd(l) == LET r == parseline(l, 1) IN
               IF r.ok /\ peek(l, r.i, {"end"}) THEN r ELSE Fail

\* The words that nulterminate() cuts: until then a word runs to the end of the line.
nulterminate(cmd) ==
  CASE cmd.type = "EXEC" -> Range(cmd.argv)
    [] cmd.type = "REDIR" -> nulterminate(cmd.cmd) \cup {cmd.file}
    [] cmd.type = "BACK" -> nulterminate(cmd.cmd)
    [] OTHER -> nulterminate(cmd.left) \cup nulterminate(cmd.right)

\* What the child makes of each line.
Parsed == [l \in UNION Range(Lines) |-> parsecmd(l).cmd]

---------------------------------------------------------------------------
(* Processes, their descriptors, and the ends of pipes.                    *)

Pids == 1..NPROC
Fds == 0..(NOFILE - 1)
InitPid == 1
None == [kind |-> "none", id |-> <<>>]
Console == [kind |-> "console", id |-> <<>>]
File(q) == [kind |-> "file", id |-> <<q>>]
End(fd, id) == [kind |-> IF fd = 0 THEN "read" ELSE "write", id |-> id]

\* main() of init and of sh: descriptors 0, 1 and 2 are the console.
Std == [fd \in Fds |-> IF fd <= 2 THEN Console ELSE None]
Unused == [pc |-> "unused", parent |-> 0, fd |-> [fd \in Fds |-> None],
           line |-> <<>>, tree |-> execcmd(<<>>), cut |-> {}, node |-> <<>>, no |-> 0, out |-> 0]

FreeFds(p) == {fd \in Fds : proc[p].fd[fd] = None}
FreePids == {p \in Pids : proc[p].pc = "unused"}
Children(p) == {q \in Pids : proc[q].parent = p /\ proc[q].pc # "unused"}
Zombies(p) == {q \in Children(p) : proc[q].pc = "zombie"}
IsOpen(end) == \E p \in Pids : end \in Range(proc[p].fd)

\* exit(): every descriptor is closed, the children go to init.
Exited(p) == [q \in Pids |-> IF q = p THEN [Unused EXCEPT !.pc = "zombie", !.parent = proc[p].parent]
                             ELSE IF q \in Children(p) THEN [proc[q] EXCEPT !.parent = InitPid]
                             ELSE proc[q]]
exit(p) == proc' = Exited(p) /\ UNCHANGED other

\* fork1(): the child is a copy that goes on as `child`, the parent as `me`; without
\* a free slot it panics, and exits.
fork1(p, me, child) ==
  IF FreePids = {} THEN proc' = Exited(p) /\ failed' = TRUE
  ELSE /\ proc' = [proc EXCEPT ![p] = me, ![Min(FreePids)] = [child EXCEPT !.parent = p]]
       /\ UNCHANGED failed

\* wait(0): any child that has exited.
wait(p, me) == /\ \E z \in Zombies(p) : proc' = [proc EXCEPT ![z] = Unused, ![p] = me]
               /\ UNCHANGED other

At(p, pc) == proc[p].pc = pc
Goto(p, pc) == [proc[p] EXCEPT !.pc = pc]

---------------------------------------------------------------------------
(* init, and the loop of the shell.                                        *)

\* Without a slot init exits, and the kernel panics: nothing runs any more.
init_fork ==
  /\ At(InitPid, "start")
  /\ IF FreePids = {} THEN proc' = [p \in Pids |-> Goto(p, "halted")] /\ UNCHANGED failed
     ELSE fork1(InitPid, [Goto(InitPid, "reap") EXCEPT !.no = Min(FreePids)],
                [Unused EXCEPT !.pc = "getcmd", !.fd = Std])
  /\ UNCHANGED <<full, lines>>
init_wait ==
  /\ At(InitPid, "reap")
  /\ \E z \in Zombies(InitPid) :
       proc' = [proc EXCEPT ![z] = Unused,
                            ![InitPid].pc = IF z = proc[InitPid].no THEN "start" ELSE "reap"]
  /\ UNCHANGED other

\* A line is read; a child parses it, in its own memory.  (cd and blank lines leave the state as it is.)
getcmd(p, l) ==
  /\ At(p, "getcmd") /\ lines' = lines + 1
  /\ fork1(p, Goto(p, "wait"), [Goto(p, "parsed") EXCEPT
                                 !.line = l, !.tree = Parsed[l], !.no = lines + 1])
  /\ UNCHANGED full
\* The end of the input.  A shell whose exec() fails in init's child ends the same way.
getcmd_eof(p) == At(p, "getcmd") /\ exit(p)
sh_wait(p) == At(p, "wait") /\ wait(p, Goto(p, "getcmd"))

parsed(p) ==
  /\ At(p, "parsed")
  /\ IF proc[p].tree.type = "SYNTAX" THEN exit(p)
     ELSE /\ proc' = [proc EXCEPT ![p] = [Goto(p, "runcmd") EXCEPT
                         !.line = <<>>, !.cut = nulterminate(proc[p].tree)]]
          /\ UNCHANGED other

---------------------------------------------------------------------------
(* runcmd(), one action for each type of command and each call it makes.   *)

RECURSIVE Node(_, _)
Node(cmd, path) == IF path = <<>> THEN cmd ELSE Node(cmd[Head(path)], Tail(path))
Cmd(p) == Node(proc[p].tree, proc[p].node)
Runs(p, type) == At(p, "runcmd") /\ Cmd(p).type = type
Sub(p, field) == [Goto(p, "runcmd") EXCEPT !.node = Append(@, field)]

run_exec(p) == Runs(p, "EXEC") /\ Cmd(p).argv # <<>> /\ UNCHANGED other
               /\ proc' = [proc EXCEPT ![p] = [Goto(p, "program") EXCEPT !.out = Chunks]]
exec_fails(p) == Runs(p, "EXEC") /\ exit(p)      \* nothing to run, or exec() returned

\* close(fd) and open(): the lowest free descriptor.
run_redir(p) ==
  LET c == Cmd(p)
      free == FreeFds(p) \cup {c.fd}
      opened == [proc[p].fd EXCEPT ![c.fd] = None, ![Min(free)] = File(c.file)]
  IN /\ Runs(p, "REDIR") /\ UNCHANGED other
     /\ proc' = [proc EXCEPT ![p] = [Sub(p, "cmd") EXCEPT !.fd = opened]]
redir_fails(p) == Runs(p, "REDIR") /\ exit(p)

run_list(p) == Runs(p, "LIST") /\ fork1(p, Goto(p, "list"), Sub(p, "left")) /\ UNCHANGED <<full, lines>>
\* Mutant: the second command does not wait for the first.
list_no_wait(p) == At(p, "list") /\ proc' = [proc EXCEPT ![p] = Sub(p, "right")] /\ UNCHANGED other
list_wait(p) == At(p, "list") /\ wait(p, Sub(p, "right"))

run_back(p) ==
  /\ Runs(p, "BACK") /\ fork1(p, Goto(p, "exit"), Sub(p, "cmd")) /\ UNCHANGED <<full, lines>>

\* pipe(p): the two lowest free descriptors.
PipeId(p) == <<proc[p].no, proc[p].node>>
run_pipe(p) ==
  LET fd0 == Min(FreeFds(p))
      fd1 == Min(FreeFds(p) \ {fd0})
  IN /\ Runs(p, "PIPE") /\ Cardinality(FreeFds(p)) >= 2 /\ UNCHANGED other
     /\ proc' = [proc EXCEPT ![p] = [Goto(p, "fork_left") EXCEPT
                   !.fd[fd0] = End(0, PipeId(p)), !.fd[fd1] = End(1, PipeId(p))]]

pipe_fails(p) == Runs(p, "PIPE") /\ exit(p)

\* close(to); dup() of the end; close() of both ends that pipe() gave.
\* Mutant: the write end stays open.
CloseReadEnd(fd, id) == [x \in Fds |-> IF x > 2 /\ fd[x] = End(0, id) THEN None ELSE fd[x]]
CloseEnds(fd, id) == [x \in Fds |-> IF x > 2 /\ fd[x] \in {End(0, id), End(1, id)} THEN None ELSE fd[x]]
Wire(p, to) ==
  LET dup == [proc[p].fd EXCEPT ![to] = None,
                                ![Min(FreeFds(p) \cup {to})] = End(to, PipeId(p))]
  IN CloseEnds(dup, PipeId(p))
pipe_left(p) == At(p, "fork_left") /\ fork1(p, Goto(p, "fork_right"), Goto(p, "wire_left"))
                /\ UNCHANGED <<full, lines>>
pipe_right(p) == At(p, "fork_right") /\ fork1(p, Goto(p, "close"), Goto(p, "wire_right"))
                 /\ UNCHANGED <<full, lines>>
wire_left(p) == /\ At(p, "wire_left") /\ UNCHANGED other
                /\ proc' = [proc EXCEPT ![p] = [Sub(p, "left") EXCEPT !.fd = Wire(p, 1)]]
wire_right(p) == /\ At(p, "wire_right") /\ UNCHANGED other
                 /\ proc' = [proc EXCEPT ![p] = [Sub(p, "right") EXCEPT !.fd = Wire(p, 0)]]
pipe_close(p) == /\ At(p, "close") /\ UNCHANGED other
                 /\ proc' = [proc EXCEPT ![p] = [Goto(p, "pipe_wait") EXCEPT
                               !.fd = CloseEnds(@, PipeId(p)), !.out = 2]]
pipe_wait(p) ==
  /\ At(p, "pipe_wait")
  /\ wait(p, [Goto(p, IF proc[p].out = 1 THEN "exit" ELSE "pipe_wait") EXCEPT !.out = @ - 1])
run_exit(p) == At(p, "exit") /\ exit(p)

---------------------------------------------------------------------------
(* What a program does with its descriptors 0 and 1.                       *)

Reads(p) == proc[p].fd[0].kind = "read"
Writes(p) == proc[p].fd[1].kind = "write" /\ proc[p].out > 0
program_write(p) ==
  LET id == proc[p].fd[1].id IN
  /\ At(p, "program") /\ Writes(p) /\ UNCHANGED <<lines, failed>>
  /\ \/ /\ id \notin full /\ IsOpen(End(0, id))
        /\ full' = full \cup {id} /\ proc' = [proc EXCEPT ![p].out = @ - 1]
     \/ ~IsOpen(End(0, id)) /\ proc' = Exited(p) /\ UNCHANGED full
program_read(p) ==
  LET id == proc[p].fd[0].id IN
  /\ At(p, "program") /\ ~Writes(p) /\ Reads(p) /\ id \in full
  /\ full' = full \ {id} /\ UNCHANGED <<proc, lines, failed>>
program_exit(p) ==
  /\ At(p, "program") /\ ~Writes(p)
  /\ Reads(p) => proc[p].fd[0].id \notin full /\ ~IsOpen(End(1, proc[p].fd[0].id))
  /\ exit(p)

---------------------------------------------------------------------------
Init == /\ proc = [p \in Pids |-> IF p = InitPid THEN [Unused EXCEPT !.pc = "start", !.fd = Std] ELSE Unused]
        /\ full = {} /\ lines = 0 /\ failed = FALSE

Start(p) == \/ lines < MaxLines /\ \E l \in Lines[lines + 1] : getcmd(p, l)
            \/ getcmd_eof(p)
Step(p) ==
  \/ sh_wait(p) \/ parsed(p) \/ run_exec(p) \/ exec_fails(p) \/ run_redir(p) \/ redir_fails(p)
  \/ run_list(p) \/ list_wait(p) \/ run_back(p) \/ run_pipe(p) \/ pipe_fails(p)
  \/ pipe_left(p) \/ pipe_right(p) \/ wire_left(p) \/ wire_right(p) \/ pipe_close(p)
  \/ pipe_wait(p) \/ run_exit(p)
  \/ program_write(p) \/ program_read(p) \/ program_exit(p)

Next == init_fork \/ init_wait \/ \E p \in Pids : Start(p) \/ Step(p)

Spec == Init /\ [][Next]_vars

\* The scheduler is fair to every process; nobody needs to type.
Fairness == /\ WF_vars(init_fork \/ init_wait)
            /\ \A p \in Pids : WF_vars(Step(p))
FairSpec == Spec /\ Fairness

---------------------------------------------------------------------------
(* Properties.                                                             *)

\* The values of the variables; a parent is a process that has not exited.
TypeOK ==
  /\ \A p \in Pids : /\ proc[p].parent \in 0..NPROC
                     /\ {proc[p].fd[fd].kind : fd \in Fds}
                          \subseteq {"none", "console", "file", "read", "write"}
                     /\ proc[p].parent # 0 => ~At(proc[p].parent, "unused") /\ ~At(proc[p].parent, "zombie")
                     /\ proc[p].out \in 0..(Chunks + 2)
  /\ lines \in 0..MaxLines

\* The grammar, as the set of trees of the tokens i to j of the line.
RECURSIVE Args(_), Line(_, _, _), Back(_, _, _), Pipeline(_, _, _), Simple(_, _, _), Block(_, _, _)
Redirects(l, i, j) == j > i /\ l[j - 1] \in {"<", ">"} /\ l[j] = "w"
Redirected(l, j, trees) == {redircmd(t, j, IF l[j - 1] = "<" THEN 0 ELSE 1) : t \in trees}
Args(t) == IF t.type = "EXEC" THEN Len(t.argv) ELSE Args(t.cmd)
Simple(l, i, j) ==
  CASE i > j -> {execcmd(<<>>)}
    [] i <= j /\ Redirects(l, i, j) -> Redirected(l, j, Simple(l, i, j - 2))
    [] i <= j /\ ~Redirects(l, i, j) /\ l[j] = "w" ->
         {AddArg(t, j) : t \in {t \in Simple(l, i, j - 1) : Args(t) + 1 < MAXARGS}}
    [] OTHER -> {}
Block(l, i, j) ==
  (IF Redirects(l, i, j) THEN Redirected(l, j, Block(l, i, j - 2)) ELSE {})
  \cup (IF i < j /\ l[i] = "(" /\ l[j] = ")" THEN Line(l, i + 1, j - 1) ELSE {})
Pipeline(l, i, j) ==
  Simple(l, i, j) \cup Block(l, i, j)
  \cup UNION {{pipecmd(t, u) : t \in Simple(l, i, k - 1) \cup Block(l, i, k - 1),
                               u \in Pipeline(l, k + 1, j)} : k \in {k \in i..j : l[k] = "|"}}
Back(l, i, j) ==
  Pipeline(l, i, j)
  \cup (IF i <= j /\ l[j] = "&" THEN {backcmd(t) : t \in Back(l, i, j - 1)} ELSE {})
Line(l, i, j) ==
  Back(l, i, j)
  \cup UNION {{listcmd(t, u) : t \in Back(l, i, k - 1), u \in Line(l, k + 1, j)} :
                k \in {k \in i..j : l[k] = ";"}}

\* The recursive descent of sh.c finds the one tree that the grammar gives a line,
\* and refuses exactly the lines outside the grammar.
ParsedByGrammar ==
  \A p \in Pids : At(p, "parsed") =>
    Line(proc[p].line, 1, Len(proc[p].line)) = {proc[p].tree} \ {Fail.cmd}

\* Descriptor fd of the command at `path` below the root is set by the innermost
\* redirection or pipe around it.
Prefix(path, n) == SubSeq(path, 1, n)
Sets(root, path, n, fd) ==
  LET c == Node(root, Prefix(path, n)) IN
  \/ c.type = "REDIR" /\ c.fd = fd
  \/ c.type = "PIPE" /\ path[n + 1] = IF fd = 0 THEN "right" ELSE "left"
Meant(p, fd) ==
  LET root == proc[p].tree
      path == proc[p].node
      by == {n \in 0..(Len(path) - 1) : Sets(root, path, n, fd)}
      c == Node(root, Prefix(path, Max(by)))
  IN IF by = {} THEN Console
     ELSE IF c.type = "REDIR" THEN File(c.file)
     ELSE End(fd, <<proc[p].no, Prefix(path, Max(by))>>)

\* A program starts with the standard input and output that its place in the line
\* means, with the console as its third descriptor, with no other end of a pipe,
\* and with words that end (runcmd() and nulterminate()).
Plumbing ==
  \A p \in Pids : At(p, "program") =>
    /\ proc[p].fd = [fd \in Fds |-> IF fd \in {0, 1} THEN Meant(p, fd) ELSE Std[fd]]
    /\ Range(Cmd(p).argv) \subseteq proc[p].cut
    /\ \A fd \in Fds : proc[p].fd[fd].kind = "file" => Range(proc[p].fd[fd].id) \subseteq proc[p].cut

\* p runs part of the command at `path` of line number `no`, in the foreground.
Foreground(p, no, path) ==
  /\ p # InitPid /\ proc[p].no = no /\ ~At(p, "exit")
  /\ Len(proc[p].node) >= Len(path) /\ Prefix(proc[p].node, Len(path)) = path
  /\ \A n \in Len(path)..(Len(proc[p].node) - 1) :
       Node(proc[p].tree, Prefix(proc[p].node, n)).type # "BACK"

\* A command has ended when the next of a list starts and when the shell prompts:
\* the wait(0) of the shell is never answered by another process.  (When fork1()
\* panics half-way, a pipeline is abandoned.)
InOrder ==
  failed \/
  \A p, q \in Pids :
    /\ At(p, "getcmd") => \A no \in 1..lines : ~Foreground(q, no, <<>>)
    /\ \A n \in 0..(Len(proc[p].node) - 1) :
         /\ proc[p].node[n + 1] = "right"
         /\ Node(proc[p].tree, Prefix(proc[p].node, n)).type = "LIST"
         => ~Foreground(q, proc[p].no, Append(Prefix(proc[p].node, n), "left"))

\* Whatever was typed, the shell prompts again: no end of a pipe is left open that
\* would keep a program waiting (fair scheduling; programs that read to the end).
ShellComesBack == []<>(\E p \in Pids : At(p, "getcmd") \/ At(p, "halted"))

\* Processes have living parents, and programs the descriptors that they should have.
PlumbingInv == TypeOK /\ Plumbing
=============================================================================
