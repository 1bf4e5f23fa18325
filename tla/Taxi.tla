---------------------------------- MODULE Taxi ----------------------------------
(***************************************************************************)
(* Final_Task2/taxi_system.c: a command loop keeps a table of drivers,     *)
(* each a forked process.  Tasks and completions travel through one        *)
(* System V queue, a message being addressed by its type: a driver's pid   *)
(* (it carries the time) or main's (it carries the driver's pid).  The     *)
(* queue is modelled as one FIFO per type, which is what msgrcv with an    *)
(* exact type sees.  main never waits for its children, so a driver's pid  *)
(* is not given out again while main lives.                                *)
(***************************************************************************)
EXTENDS Integers, Sequences, FiniteSets

CONSTANTS
  Pids,      \* the pids fork() can return
  Mains,     \* the pids the program itself may get, one for each start
  Times,     \* the timers a send_task line can carry
  QueueCap   \* messages that fit in the queue (msg_qbytes)

ASSUME TimesAssumption == Times \subseteq Int
ASSUME PidAssumption == Pids \cap Mains = {}
ASSUME CapAssumption == QueueCap \in Nat

VARIABLES
  mpc,        \* main: "select", "execute", "sending", "poll", "exited", "down"
  main,       \* the pid of the running (or last) main
  started,    \* the pids main has had
  line,       \* the input buffer
  eof,        \* standard input has ended
  drivers,    \* the pids in drivers[]
  is_busy,    \* drivers[].is_busy
  task_timer, \* drivers[].task_timer
  tasks,      \* the messages to each driver, oldest first
  done,       \* the messages to each main, oldest first
  dpc,        \* driver process: "none", "receive", "work", "report", "dead"
  main_pid,   \* a driver's main_pid: the main that forked it
  dtimer      \* a driver's own task_timer

loop == <<mpc, main, started, line, eof>>
table == <<drivers, is_busy, task_timer>>
queue == <<tasks, done>>
driver == <<dpc, main_pid, dtimer>>
vars == <<loop, table, queue, driver>>

Lines ==
  [cmd : {"create_driver", "exit", "other"}]
    \cup [cmd : {"send_task"}, pid : Pids, time : Times]

\* What the buffer holds before anything was read is no command.
NoLine == [cmd |-> "other"]

\* The messages in the queue, each as its type and its place.
Queued ==
  (UNION {{<<p, i>> : i \in DOMAIN tasks[p]} : p \in Pids})
    \cup (UNION {{<<m, i>> : i \in DOMAIN done[m]} : m \in Mains})

Room == Cardinality(Queued) < QueueCap

Init ==
  /\ mpc = "select"
  /\ main \in Mains
  /\ started = {main}
  /\ line = NoLine
  /\ eof = FALSE
  /\ drivers = {}
  /\ is_busy = [p \in Pids |-> FALSE]
  /\ task_timer = [p \in Pids |-> 0]
  /\ tasks = [p \in Pids |-> <<>>]
  /\ done = [m \in Mains |-> <<>>]
  /\ dpc = [p \in Pids |-> "none"]
  /\ main_pid = [p \in Pids |-> main]
  /\ dtimer = [p \in Pids |-> 0]

--------------------------------------------------------------------------------
(* The command loop *)

\* select() times out: no command in this turn.
Timeout ==
  /\ mpc = "select"
  /\ ~eof
  /\ mpc' = "poll"
  /\ UNCHANGED <<main, started, line, eof, table, queue, driver>>

\* A line is read into the buffer.
Read(l) ==
  /\ mpc = "select"
  /\ ~eof
  /\ line' = l
  /\ mpc' = "execute"
  /\ UNCHANGED <<main, started, eof, table, queue, driver>>

\* At the end of input read() returns 0, not -1, and leaves the line of the
\* turn before in the buffer: it is executed again.
ReadEof ==
  /\ mpc = "select"
  /\ eof' = TRUE
  /\ mpc' = "execute"
  /\ UNCHANGED <<main, started, line, table, queue, driver>>

\* get_status, get_drivers, usage errors, unknown commands: only output.
Report ==
  /\ mpc = "execute"
  /\ line.cmd = "other"
  /\ mpc' = "poll"
  /\ UNCHANGED <<main, started, line, eof, table, queue, driver>>

\* create_driver: fork and enter the child in the table (the table's bound,
\* MAX_DRIVERS, is not tested; here the supply of pids ends first).
CreateDriver(p) ==
  /\ mpc = "execute"
  /\ line.cmd = "create_driver"
  /\ dpc[p] = "none"
  /\ dpc' = [dpc EXCEPT ![p] = "receive"]
  /\ drivers' = drivers \cup {p}
  /\ is_busy' = [is_busy EXCEPT ![p] = FALSE]
  /\ task_timer' = [task_timer EXCEPT ![p] = 0]
  /\ main_pid' = [main_pid EXCEPT ![p] = main]
  /\ mpc' = "poll"
  /\ UNCHANGED <<main, started, line, eof, queue, dtimer>>

\* fork() fails.
CreateFails ==
  /\ mpc = "execute"
  /\ line.cmd = "create_driver"
  /\ mpc' = "poll"
  /\ UNCHANGED <<main, started, line, eof, table, queue, driver>>

SendRefused ==
  /\ mpc = "execute"
  /\ line.cmd = "send_task"
  /\ line.pid \notin drivers \/ is_busy[line.pid]
  /\ mpc' = "poll"
  /\ UNCHANGED <<main, started, line, eof, table, queue, driver>>

\* Mistakes: a busy driver is given another task; the table is not marked.
SendTaskBusy ==
  /\ mpc = "execute"
  /\ line.cmd = "send_task"
  /\ line.pid \in drivers
  /\ is_busy' = [is_busy EXCEPT ![line.pid] = TRUE]
  /\ task_timer' = [task_timer EXCEPT ![line.pid] = line.time]
  /\ mpc' = "sending"
  /\ UNCHANGED <<main, started, line, eof, drivers, queue, driver>>

SendTaskUnmarked ==
  /\ mpc = "execute"
  /\ line.cmd = "send_task"
  /\ line.pid \in drivers /\ ~is_busy[line.pid]
  /\ mpc' = "sending"
  /\ UNCHANGED <<main, started, line, eof, table, queue, driver>>

\* send_task: the table is marked first, then the message is sent.
SendTask ==
  /\ mpc = "execute"
  /\ line.cmd = "send_task"
  /\ line.pid \in drivers /\ ~is_busy[line.pid]
  /\ is_busy' = [is_busy EXCEPT ![line.pid] = TRUE]
  /\ task_timer' = [task_timer EXCEPT ![line.pid] = line.time]
  /\ mpc' = "sending"
  /\ UNCHANGED <<main, started, line, eof, drivers, queue, driver>>

\* msgsnd() blocks main while the queue is full.
Msgsnd ==
  /\ mpc = "sending"
  /\ Room
  /\ tasks' = [tasks EXCEPT ![line.pid] = Append(@, line.time)]
  /\ mpc' = "poll"
  /\ UNCHANGED <<main, started, line, eof, table, done, driver>>

\* A mistake: one driver's completion frees whoever was entered with it.
UpdateStatusAll ==
  /\ mpc = "poll"
  /\ done[main] # <<>>
  /\ done' = [done EXCEPT ![main] = Tail(@)]
  /\ is_busy' = [p \in Pids |-> FALSE]
  /\ task_timer' = [p \in Pids |-> 0]
  /\ mpc' = "select"
  /\ UNCHANGED <<main, started, line, eof, drivers, tasks, driver>>

\* One completion, if there is one, ends the turn.
UpdateStatus ==
  /\ mpc = "poll"
  /\ done[main] # <<>>
  /\ LET p == Head(done[main]) IN
       IF p \in drivers
       THEN /\ is_busy' = [is_busy EXCEPT ![p] = FALSE]
            /\ task_timer' = [task_timer EXCEPT ![p] = 0]
       ELSE UNCHANGED <<is_busy, task_timer>>
  /\ done' = [done EXCEPT ![main] = Tail(@)]
  /\ mpc' = "select"
  /\ UNCHANGED <<main, started, line, eof, drivers, tasks, driver>>

NothingNew ==
  /\ mpc = "poll"
  /\ done[main] = <<>>
  /\ mpc' = "select"
  /\ UNCHANGED <<main, started, line, eof, table, queue, driver>>

\* exit: cleanup() terminates the drivers of the table and removes the queue.
Exit ==
  /\ mpc = "execute"
  /\ line.cmd = "exit"
  /\ mpc' = "exited"
  /\ dpc' = [p \in Pids |-> IF p \in drivers THEN "dead" ELSE dpc[p]]
  /\ tasks' = [p \in Pids |-> <<>>]
  /\ done' = [m \in Mains |-> <<>>]
  /\ UNCHANGED <<main, started, line, eof, table, main_pid, dtimer>>

(* main is killed: its table is gone, its drivers and the queue are not. *)
Crash ==
  /\ mpc \in {"select", "execute", "sending", "poll"}
  /\ mpc' = "down"
  /\ drivers' = {}
  /\ is_busy' = [p \in Pids |-> FALSE]
  /\ task_timer' = [p \in Pids |-> 0]
  /\ UNCHANGED <<main, started, line, eof, queue, driver>>

\* The program is started again: msgget(IPC_CREAT) opens the queue it left.
Restart(m) ==
  /\ mpc = "down"
  /\ m \notin started
  /\ main' = m
  /\ started' = started \cup {m}
  /\ mpc' = "select"
  /\ line' = NoLine
  /\ eof' = FALSE
  /\ UNCHANGED <<table, queue, driver>>

--------------------------------------------------------------------------------
(* A driver process *)

\* msgrcv(): a task that takes time is worked on, another is dropped.
Receive(p) ==
  /\ dpc[p] = "receive"
  /\ tasks[p] # <<>>
  /\ LET time == Head(tasks[p]) IN
       IF time > 0
       THEN /\ dtimer' = [dtimer EXCEPT ![p] = time]
            /\ dpc' = [dpc EXCEPT ![p] = "work"]
       ELSE UNCHANGED <<dpc, dtimer>>
  /\ tasks' = [tasks EXCEPT ![p] = Tail(@)]
  /\ UNCHANGED <<loop, table, done, main_pid>>

\* A second passes.
Tick(p) ==
  /\ dpc[p] = "work"
  /\ dtimer' = [dtimer EXCEPT ![p] = @ - 1]
  /\ dpc' = [dpc EXCEPT ![p] = IF dtimer[p] - 1 <= 0 THEN "report" ELSE "work"]
  /\ UNCHANGED <<loop, table, queue, main_pid>>

\* Mistakes: the completion is repeated; it is never sent.
CompleteAgain(p) ==
  /\ dpc[p] = "report"
  /\ Room
  /\ done' = [done EXCEPT ![main_pid[p]] = Append(@, p)]
  /\ dpc' \in {[dpc EXCEPT ![p] = s] : s \in {"receive", "report"}}
  /\ UNCHANGED <<loop, table, tasks, main_pid, dtimer>>

CompleteSilent(p) ==
  /\ dpc[p] = "report"
  /\ dpc' = [dpc EXCEPT ![p] = "receive"]
  /\ UNCHANGED <<loop, table, queue, main_pid, dtimer>>

\* The completion goes to the main that forked the driver; msgsnd() blocks
\* while the queue is full and fails once it was removed.
Complete(p) ==
  /\ dpc[p] = "report"
  /\ IF mpc = "exited"
     THEN UNCHANGED done
     ELSE Room /\ done' = [done EXCEPT ![main_pid[p]] = Append(@, p)]
  /\ dpc' = [dpc EXCEPT ![p] = "receive"]
  /\ UNCHANGED <<loop, table, tasks, main_pid, dtimer>>

(* Somebody kills a driver. *)
Die(p) ==
  /\ dpc[p] \in {"receive", "work", "report"}
  /\ dpc' = [dpc EXCEPT ![p] = "dead"]
  /\ UNCHANGED <<loop, table, queue, main_pid, dtimer>>

--------------------------------------------------------------------------------
MainStep ==
  \/ Timeout \/ ReadEof \/ (\E l \in Lines : Read(l))
  \/ Report \/ CreateFails \/ (\E p \in Pids : CreateDriver(p))
  \/ SendRefused \/ SendTask \/ Msgsnd
  \/ UpdateStatus \/ NothingNew \/ Exit

DriverStep(p) == Receive(p) \/ Tick(p) \/ Complete(p)

Next ==
  \/ MainStep
  \/ \E p \in Pids : DriverStep(p) \/ Die(p)
  \/ Crash
  \/ \E m \in Mains : Restart(m)

Spec == Init /\ [][Next]_vars

\* Processes that can run are run; nobody has to kill, type or restart.
FairSpec ==
  /\ Spec
  /\ WF_vars(MainStep)
  /\ \A p \in Pids : WF_vars(DriverStep(p))

--------------------------------------------------------------------------------
\* Every variable has its type; what main is sending is a task.
TypeOK ==
  /\ mpc \in {"select", "execute", "sending", "poll", "exited", "down"}
  /\ started \subseteq Mains /\ main \in started
  /\ line \in Lines
  /\ mpc = "sending" => line.cmd = "send_task"
  /\ eof \in BOOLEAN
  /\ drivers \subseteq Pids
  /\ is_busy \in [Pids -> BOOLEAN]
  /\ task_timer \in [Pids -> Int]
  /\ tasks \in [Pids -> Seq(Times)]
  /\ done \in [Mains -> Seq(Pids)]
  /\ dpc \in [Pids -> {"none", "receive", "work", "report", "dead"}]
  /\ main_pid \in [Pids -> Mains]
  /\ dtimer \in [Pids -> Int]

Pending(p) == mpc = "sending" /\ line.pid = p
Sent(p) == tasks[p] # <<>>
Working(p) == dpc[p] \in {"work", "report"}
Finished(p) == \E i \in DOMAIN done[main_pid[p]] : done[main_pid[p]][i] = p

(* The table and the driver processes only meet through the queue.  A driver
   has at most one task, in exactly one place on its way: about to be sent, in
   the queue, being worked on, or reported; so a driver the table shows as
   available has none, and a late or stray completion frees nobody's task. *)
OneTask ==
  \A p \in Pids :
    /\ Pending(p) => ~Sent(p) /\ ~Working(p) /\ ~Finished(p)
    /\ Sent(p) => Len(tasks[p]) = 1 /\ ~Working(p) /\ ~Finished(p)
    /\ Working(p) => ~Finished(p)
    /\ p \in drivers /\ ~is_busy[p] =>
         ~Pending(p) /\ ~Sent(p) /\ ~Working(p) /\ ~Finished(p)

(* Completions are never doubled and reach the main that knows the driver. *)
OneReport ==
  \A m \in Mains : \A i, j \in DOMAIN done[m] :
    /\ main_pid[done[m][i]] = m
    /\ done[m][i] = done[m][j] => i = j

(* get_status shows the length of the task the driver really has; with the
   types. *)
ShownTimer ==
  /\ TypeOK
  /\ \A p \in drivers : is_busy[p] =>
       /\ Sent(p) => Head(tasks[p]) = task_timer[p]
       /\ dpc[p] = "work" => dtimer[p] \in 1 .. task_timer[p]

(* The queue never holds more messages than there are drivers, whatever was
   left in it by a main that was killed: with room for as many, msgsnd() never
   blocks the command loop. *)
QueueBounded == Cardinality(Queued) <= Cardinality({p \in Pids : dpc[p] # "none"})

(* A driver given a task that takes time is shown as available again, unless
   it is killed or main is gone. *)
TaskCompletes ==
  \A p \in Pids :
    (Pending(p) /\ line.time > 0)
      ~> (~is_busy[p] \/ dpc[p] = "dead" \/ mpc \in {"exited", "down"})

--------------------------------------------------------------------------------
\* How far the task of a driver in the table is.
Job(p) ==
  IF p \notin drivers \/ mpc = "exited" THEN "none"
  ELSE IF ~is_busy[p] THEN "free"
  ELSE IF Pending(p) \/ Sent(p) THEN "assigned"
  ELSE IF Working(p) THEN "running"
  ELSE IF Finished(p) THEN "done"
  ELSE "lost"

Promise == INSTANCE Dispatch WITH Drivers <- Pids, job <- [p \in Pids |-> Job(p)]

(* Table, queue and processes implement the promise of Dispatch. *)
ImplementsDispatch == Promise!Spec
================================================================================
