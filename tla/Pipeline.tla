-------------------------------- MODULE Pipeline --------------------------------
(***************************************************************************)
(* The shell of Channels/Bash_with_pipe: it reads a line of commands       *)
(* joined by "|", makes all the pipes, forks a child for each command,     *)
(* closes its own copies of the pipes' ends and waits for as many children *)
(* as it forked.  Every child inherits every end; it lays its neighbours'  *)
(* ends over its standard input and output, closes the rest and becomes    *)
(* its command.                                                            *)
(*                                                                         *)
(* What a command does is not in the repository.  Four kinds tell apart    *)
(* what matters to the shell: "make" writes Output items, "copy" passes on *)
(* what it reads until the end of file, "first" passes on one item and     *)
(* ends, and "missing" is a command execvp() does not find.  Pipe j leads  *)
(* from command j to command j + 1 (the code counts both from 0).          *)
(***************************************************************************)
EXTENDS Integers, Sequences, SequencesExt

CONSTANTS
  Lines,     \* what the user may type: sequences of commands, or of "exit"
  PipeSize,  \* the items a pipe can hold
  Output     \* the items "make" writes

Kinds == {"make", "copy", "first", "missing", "exit"}

\* The first command's standard input is the terminal: it does not read here.  There
\* is a longest line: it fits into line[].
ASSUME LinesAssumption ==
  /\ Lines \subseteq {l \in Seq(Kinds) : l # <<>> /\ Head(l) \notin {"copy", "first"}}
  /\ \E m \in {Len(l) : l \in Lines} : \A l \in Lines : Len(l) <= m
ASSUME SizesAssumption == PipeSize \in Nat \ {0} /\ Output \in Nat

VARIABLES
  sh,        \* where the shell stands: "prompt", "fork", "close", "wait", "gone"
  line,      \* the line it is running, <<>> before the first
  n,         \* the children forked so far, then the children waited for
  at,        \* at[c]: where child c stands
  fds,       \* fds[p]: the ends <<j, "r">>, <<j, "w">> process p holds in pipes[][]
  in, out,   \* in[c], out[c]: the pipe on c's standard input, output; 0: neither
  held,      \* held[j]: the items in pipe j
  todo,      \* todo[c]: the items c still has to write
  shown      \* the items written to the terminal for this line

vars == <<sh, line, n, at, fds, in, out, held, todo, shown>>

Longest == CHOOSE m \in {Len(l) : l \in Lines} : \A l \in Lines : Len(l) <= m
Children == 1 .. Longest
Processes == 0 .. Longest   \* 0 is the shell
Pipes == 1 .. (Longest - 1)
Ends(count) == (1 .. count) \X {"r", "w"}

Init ==
  /\ sh = "prompt" /\ line = <<>> /\ n = 0
  /\ at = [c \in Children |-> "none"]
  /\ fds = [p \in Processes |-> {}]
  /\ in = [c \in Children |-> 0] /\ out = [c \in Children |-> 0]
  /\ held = [j \in Pipes |-> 0]
  /\ todo = [c \in Children |-> 0]
  /\ shown = 0

children == <<at, in, out, todo>>
pipes == <<held, shown>>

--------------------------------------------------------------------------------
(* The shell. *)

\* Split the line, leave at the word "exit", else make number_commands - 1 pipes.
Run(l) ==
  /\ sh = "prompt"
  /\ line' = l
  /\ n' = 0
  /\ sh' = IF Contains(l, "exit") THEN "gone" ELSE "fork"
  /\ fds' = [fds EXCEPT ![0] = IF Contains(l, "exit") THEN {} ELSE Ends(Len(l) - 1)]
  /\ held' = [j \in Pipes |-> 0]
  /\ shown' = 0
  /\ UNCHANGED children

Read == \E l \in Lines : Run(l)

\* fgets() fails at the end of the input, which the loop does not look at: line[]
\* is as strtok() left it, cut after its first word, and is run again.
ReadNothing == line # <<>> /\ Run(SubSeq(line, 1, 1))

Fork ==
  /\ sh = "fork"
  /\ n' = n + 1
  /\ at' = [at EXCEPT ![n'] = "redirect"]
  /\ fds' = [fds EXCEPT ![n'] = fds[0]]
  /\ sh' = IF n' = Len(line) THEN "close" ELSE "fork"
  /\ UNCHANGED <<line, in, out, todo, pipes>>

\* The shell exits, whatever children it has forked already.
ForkFails ==
  /\ sh = "fork"
  /\ sh' = "gone"
  /\ fds' = [fds EXCEPT ![0] = {}]
  /\ UNCHANGED <<line, n, children, pipes>>

\* close_Chanalles(number, pipes) on what a process holds.
Closed(number, ends) == ends \ Ends(number)

Close ==
  /\ sh = "close"
  /\ fds' = [fds EXCEPT ![0] = Closed(Len(line) - 1, @)]
  /\ n' = 0
  /\ sh' = "wait"
  /\ UNCHANGED <<line, children, pipes>>

Wait ==
  /\ sh = "wait"
  /\ \E c \in Children :
       /\ at[c] = "dead"
       /\ at' = [at EXCEPT ![c] = "none"]
  /\ n' = n + 1
  /\ sh' = IF n' = Len(line) THEN "prompt" ELSE "wait"
  /\ UNCHANGED <<line, fds, in, out, todo, pipes>>

--------------------------------------------------------------------------------
(* A child, up to execvp(). *)

\* Mistake: the last pipe counts as the last command's output.
RedirectShort(c) ==
  /\ at[c] = "redirect"
  /\ in' = [in EXCEPT ![c] = c - 1]
  /\ out' = [out EXCEPT ![c] = IF c < Len(line) - 1 THEN c ELSE 0]
  /\ at' = [at EXCEPT ![c] = "exec"]
  /\ UNCHANGED <<sh, line, n, fds, todo, pipes>>

Redirect(c) ==
  /\ at[c] = "redirect"
  /\ in' = [in EXCEPT ![c] = c - 1]
  /\ out' = [out EXCEPT ![c] = IF c < Len(line) THEN c ELSE 0]
  /\ at' = [at EXCEPT ![c] = "exec"]
  /\ UNCHANGED <<sh, line, n, fds, todo, pipes>>

Exec(c) ==
  /\ at[c] = "exec"
  /\ line[c] # "missing"
  /\ fds' = [fds EXCEPT ![c] = Closed(Len(line) - 1, @)]
  /\ at' = [at EXCEPT ![c] = "run"]
  /\ todo' = [todo EXCEPT ![c] = IF line[c] = "make" THEN Output ELSE 0]
  /\ UNCHANGED <<sh, line, n, in, out, pipes>>

\* A process that ends closes whatever it had open.
End(c) ==
  /\ at' = [at EXCEPT ![c] = "dead"]
  /\ fds' = [fds EXCEPT ![c] = {}]
  /\ in' = [in EXCEPT ![c] = 0]
  /\ out' = [out EXCEPT ![c] = 0]
  /\ todo' = [todo EXCEPT ![c] = 0]
  /\ UNCHANGED <<sh, line, n>>

ExecFails(c) ==
  /\ at[c] = "exec"
  /\ line[c] = "missing"
  /\ End(c)
  /\ UNCHANGED pipes

--------------------------------------------------------------------------------
(* The command, and the pipes of the system. *)

Readers(j) == {p \in Processes : <<j, "r">> \in fds[p]} \cup {c \in Children : in[c] = j}
Writers(j) == {p \in Processes : <<j, "w">> \in fds[p]} \cup {c \in Children : out[c] = j}

Take(c) ==
  /\ at[c] = "run" /\ line[c] \in {"copy", "first"} /\ todo[c] = 0
  /\ held[in[c]] > 0
  /\ held' = [held EXCEPT ![in[c]] = @ - 1]
  /\ todo' = [todo EXCEPT ![c] = 1]
  /\ UNCHANGED <<sh, line, n, at, fds, in, out, shown>>

\* An item is written; "first" ends with it.
Put(c) ==
  /\ at[c] = "run" /\ todo[c] > 0
  /\ IF out[c] = 0
       THEN shown' = shown + 1 /\ UNCHANGED held
       ELSE /\ Readers(out[c]) # {}
            /\ held[out[c]] < PipeSize
            /\ held' = [held EXCEPT ![out[c]] = @ + 1]
            /\ UNCHANGED shown
  /\ IF line[c] = "first"
       THEN End(c)
       ELSE todo' = [todo EXCEPT ![c] = @ - 1] /\ UNCHANGED <<sh, line, n, at, fds, in, out>>

\* SIGPIPE: nobody can read what would be written.
BrokenPipe(c) ==
  /\ at[c] = "run" /\ todo[c] > 0 /\ out[c] # 0
  /\ Readers(out[c]) = {}
  /\ End(c)
  /\ UNCHANGED pipes

\* "make" has written everything, or a reader sees the end of file: its pipe is
\* empty and no process has a writing end of it open.
Finish(c) ==
  /\ at[c] = "run" /\ todo[c] = 0
  /\ \/ line[c] = "make"
     \/ line[c] \in {"copy", "first"} /\ held[in[c]] = 0 /\ Writers(in[c]) = {}
  /\ End(c)
  /\ UNCHANGED pipes

--------------------------------------------------------------------------------
Shell == Fork \/ Close \/ Wait
Child(c) ==
  \/ Redirect(c) \/ Exec(c) \/ ExecFails(c)
  \/ Take(c) \/ Put(c) \/ BrokenPipe(c) \/ Finish(c)

Next == Read \/ ReadNothing \/ Shell \/ ForkFails \/ \E c \in Children : Child(c)

Spec == Init /\ [][Next]_vars

\* The system schedules every process; nobody is obliged to type a line.
Fairness == WF_vars(Shell) /\ \A c \in Children : WF_vars(Child(c))

LiveSpec == Spec /\ Fairness

--------------------------------------------------------------------------------
TypeOK ==
  /\ sh \in {"prompt", "fork", "close", "wait", "gone"}
  /\ line \in Lines \cup {<<>>} \cup {SubSeq(l, 1, 1) : l \in Lines}
  /\ n \in 0 .. Longest
  /\ at \in [Children -> {"none", "redirect", "exec", "run", "dead"}]
  /\ fds \in [Processes -> SUBSET Ends(Longest - 1)]
  /\ in \in [Children -> Pipes \cup {0}] /\ out \in [Children -> Pipes \cup {0}]
  /\ held \in [Pipes -> 0 .. PipeSize]
  /\ todo \in [Children -> 0 .. Output + 1]
  /\ shown \in Nat

\* What a command of the line makes of the number of items it gets.
Passes(got, kind) ==
  CASE kind = "make" -> Output
    [] kind = "copy" -> got
    [] kind = "first" -> IF got > 0 THEN 1 ELSE 0
    [] kind = "missing" -> 0

\* When the user is prompted again the terminal has had exactly what the commands of
\* the line, one after another, make of it: nothing is lost in a pipe, or cut off
\* because a neighbour had not been forked yet or an end was closed too early; and
\* no child of the line is left, dead or alive, nor any end of a pipe open (lines
\* 45-70); with the types.
LineAnswered ==
  /\ TypeOK
  /\ sh = "prompt" =>
       /\ line # <<>> => shown = FoldLeft(Passes, 0, line)
       /\ \A c \in Children : at[c] = "none" /\ in[c] = 0 /\ out[c] = 0
       /\ \A p \in Processes : fds[p] = {}

\* Every line comes to its end: no command waits for ever for the end of file on a
\* pipe whose writing end some other process forgot to close (lines 56, 66).
LineEnds == sh = "wait" ~> sh = "prompt"
================================================================================
