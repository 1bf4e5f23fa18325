------------------------------- MODULE TaxiProofs -------------------------------
(***************************************************************************)
(* Proofs about Taxi for any set of pids, any timers and any queue size: a *)
(* driver never has two tasks, one shown as available has none and one     *)
(* shown as busy shows the time of its task; the queue holds at most one   *)
(* message for each driver; and table, queue and drivers implement the     *)
(* promise of Dispatch.                                                    *)
(***************************************************************************)
EXTENDS Taxi, SequenceTheorems, FiniteSetTheorems, TLAPS

\* Only a send_task line has a pid and a time.
LEMMA LineFields ==
  ASSUME NEW l \in Lines, l.cmd = "send_task"
  PROVE  l.pid \in Pids /\ l.time \in Times
<1>1. CASE l \in [cmd : {"create_driver", "exit", "other"}]
  <2>1. l.cmd \in {"create_driver", "exit", "other"}
    BY <1>1
  <2> QED BY <2>1
<1>2. CASE l \in [cmd : {"send_task"}, pid : Pids, time : Times]
  BY <1>2
<1> QED BY <1>1, <1>2 DEF Lines

\* The first message leaves a queue; the others move up.
LEMMA Leave ==
  ASSUME NEW S, NEW q \in Seq(S), q # <<>>
  PROVE  /\ Tail(q) \in Seq(S) /\ Head(q) \in S /\ Head(q) = q[1]
         /\ Len(q) \in Nat \ {0} /\ Len(Tail(q)) = Len(q) - 1
         /\ \A i \in 1 .. Len(q) - 1 : Tail(q)[i] = q[i + 1]
BY EmptySeq, HeadTailProperties

LEMMA NoMessages ==
  ASSUME NEW D, NEW S
  PROVE  [x \in D |-> <<>>] \in [D -> Seq(S)]
<1>1. <<>> \in Seq(S)
  BY EmptySeq
<1> QED BY <1>1

LEMMA TypeInit == Init => TypeOK
<1>1. NoLine \in Lines
  BY DEF NoLine, Lines
<1>2. Init => tasks \in [Pids -> Seq(Times)] /\ done \in [Mains -> Seq(Pids)]
  BY NoMessages DEF Init
<1>3. Init => /\ line \in Lines /\ mpc = "select" /\ eof = FALSE
              /\ started \subseteq Mains /\ main \in started
  BY <1>1 DEF Init
<1>4. Init => /\ main_pid \in [Pids -> Mains]
              /\ task_timer \in [Pids -> Int] /\ dtimer \in [Pids -> Int]
              /\ is_busy \in [Pids -> BOOLEAN] /\ drivers \subseteq Pids
              /\ dpc \in [Pids -> {"none", "receive", "work", "report", "dead"}]
  BY DEF Init
<1> QED BY <1>2, <1>3, <1>4 DEF TypeOK

LEMMA TypeStep == TypeOK /\ [Next]_vars => TypeOK'
<1> SUFFICES ASSUME TypeOK, [Next]_vars PROVE TypeOK'
  OBVIOUS
<1> USE TimesAssumption DEF TypeOK, loop, table, queue, driver
<1>1. CASE Timeout \/ ReadEof \/ Report \/ CreateFails \/ SendRefused \/ NothingNew
  BY <1>1 DEF Timeout, ReadEof, Report, CreateFails, SendRefused, NothingNew
<1>2. ASSUME NEW l \in Lines, Read(l) PROVE TypeOK'
  BY <1>2 DEF Read
<1>3. ASSUME NEW p \in Pids, CreateDriver(p) PROVE TypeOK'
  BY <1>3 DEF CreateDriver
<1>4. line.cmd = "send_task" => line.pid \in Pids /\ line.time \in Times
  BY LineFields
<1>5. CASE SendTask
  <2>1. line.pid \in Pids /\ line.time \in Int
    BY <1>4, <1>5 DEF SendTask
  <2> QED BY <1>5, <2>1 DEF SendTask
<1>6. CASE Msgsnd
  <2>1. line.pid \in Pids /\ line.time \in Times
    BY <1>4, <1>6 DEF Msgsnd
  <2>2. tasks' \in [Pids -> Seq(Times)]
    BY <1>6, <2>1 DEF Msgsnd
  <2> QED BY <1>6, <2>2 DEF Msgsnd
<1>7. CASE UpdateStatus
  <2>1. done[main] \in Seq(Pids) /\ done[main] # <<>>
    BY <1>7 DEF UpdateStatus
  <2>2. Tail(done[main]) \in Seq(Pids)
    BY <2>1, Leave
  <2>3. done' \in [Mains -> Seq(Pids)]
    BY <1>7, <2>2 DEF UpdateStatus
  <2>4. is_busy' \in [Pids -> BOOLEAN] /\ task_timer' \in [Pids -> Int]
    <3>1. ASSUME NEW p \in drivers, p = Head(done[main])
          PROVE  is_busy' \in [Pids -> BOOLEAN] /\ task_timer' \in [Pids -> Int]
      <4>1. /\ is_busy' = [is_busy EXCEPT ![p] = FALSE]
            /\ task_timer' = [task_timer EXCEPT ![p] = 0]
        BY <1>7, <3>1 DEF UpdateStatus
      <4>2. is_busy' \in [Pids -> BOOLEAN]
        BY <4>1, Zenon
      <4>3. task_timer' \in [Pids -> Int]
        BY <4>1
      <4> QED BY <4>2, <4>3
    <3>2. CASE Head(done[main]) \notin drivers
      BY <1>7, <3>2 DEF UpdateStatus
    <3> QED BY <3>1, <3>2
  <2>5. mpc' = "select" /\ UNCHANGED <<main, started, line, eof, drivers, tasks, driver>>
    BY <1>7 DEF UpdateStatus
  <2> QED BY <2>3, <2>4, <2>5
<1>8. CASE Exit
  <2>1. tasks' \in [Pids -> Seq(Times)] /\ done' \in [Mains -> Seq(Pids)]
    BY <1>8, NoMessages DEF Exit
  <2>2. dpc' \in [Pids -> {"none", "receive", "work", "report", "dead"}]
    BY <1>8 DEF Exit
  <2>3. mpc' = "exited" /\ UNCHANGED <<main, started, line, eof, table, main_pid, dtimer>>
    BY <1>8 DEF Exit
  <2> QED BY <2>1, <2>2, <2>3
<1>9. ASSUME NEW p \in Pids, Receive(p) PROVE TypeOK'
  <2>1. tasks[p] \in Seq(Times) /\ tasks[p] # <<>>
    BY <1>9 DEF Receive
  <2>2. Tail(tasks[p]) \in Seq(Times) /\ Head(tasks[p]) \in Int
    BY <2>1, Leave
  <2>3. tasks' \in [Pids -> Seq(Times)]
    BY <1>9, <2>2 DEF Receive
  <2>4. /\ dtimer' \in [Pids -> Int]
        /\ dpc' \in [Pids -> {"none", "receive", "work", "report", "dead"}]
    <3>1. CASE Head(tasks[p]) > 0
      BY <1>9, <2>2, <3>1 DEF Receive
    <3>2. CASE ~(Head(tasks[p]) > 0)
      BY <1>9, <3>2 DEF Receive
    <3> QED BY <3>1, <3>2
  <2>5. UNCHANGED <<loop, table, done, main_pid>>
    BY <1>9 DEF Receive
  <2> QED BY <2>3, <2>4, <2>5
<1>10. ASSUME NEW p \in Pids, Tick(p) PROVE TypeOK'
  BY <1>10 DEF Tick
<1>11. ASSUME NEW p \in Pids, Complete(p) PROVE TypeOK'
  <2>1. done' \in [Mains -> Seq(Pids)]
    <3>1. CASE mpc = "exited"
      BY <1>11, <3>1 DEF Complete
    <3>2. Append(done[main_pid[p]], p) \in Seq(Pids)
      OBVIOUS
    <3>3. CASE mpc # "exited"
      BY <1>11, <3>2, <3>3 DEF Complete
    <3> QED BY <3>1, <3>3
  <2>2. dpc' \in [Pids -> {"none", "receive", "work", "report", "dead"}]
    BY <1>11 DEF Complete
  <2>3. UNCHANGED <<loop, table, tasks, main_pid, dtimer>>
    BY <1>11 DEF Complete
  <2> QED BY <2>1, <2>2, <2>3
<1>12. ASSUME NEW p \in Pids, Die(p) PROVE TypeOK'
  BY <1>12 DEF Die
<1>13. CASE Crash
  BY <1>13 DEF Crash
<1>14. ASSUME NEW m \in Mains, Restart(m) PROVE TypeOK'
  BY <1>14 DEF Restart, NoLine, Lines
<1>15. CASE UNCHANGED vars
  BY <1>15 DEF vars
<1> QED
  BY <1>1, <1>2, <1>3, <1>5, <1>6, <1>7, <1>8, <1>9, <1>10, <1>11, <1>12, <1>13,
     <1>14, <1>15
  DEF Next, MainStep, DriverStep

(* Every variable has its type. *)
THEOREM TypeCorrect == Spec => []TypeOK
  BY TypeInit, TypeStep, PTL DEF Spec

--------------------------------------------------------------------------------
\* The table lists drivers of the running main only, a task is sent to a listed
\* driver marked busy, and a process not forked yet has left no trace.
Registered ==
  /\ mpc = "down" => drivers = {}
  /\ \A p \in Pids :
       /\ p \in drivers => main_pid[p] = main /\ dpc[p] # "none"
       /\ Pending(p) => p \in drivers /\ is_busy[p]
       /\ dpc[p] = "none" => ~Sent(p) /\ ~Finished(p)

IInv == TypeOK /\ OneTask /\ OneReport /\ Registered

LEMMA InvInit == Init => IInv
<1> SUFFICES ASSUME Init PROVE OneTask /\ OneReport /\ Registered
  BY TypeInit DEF IInv
<1>1. /\ mpc = "select" /\ drivers = {} /\ \A p \in Pids : dpc[p] = "none"
      /\ main_pid \in [Pids -> Mains]
  BY DEF Init
<1>2. /\ \A p \in Pids : tasks[p] = <<>>
      /\ \A m \in Mains : done[m] = <<>>
  BY DEF Init
<1>3. \A p \in Pids : ~Pending(p) /\ ~Working(p)
  BY <1>1 DEF Pending, Working
<1>4. \A p \in Pids : ~Sent(p) /\ ~Finished(p)
  BY <1>1, <1>2 DEF Sent, Finished
<1>5. OneReport
  BY <1>2 DEF OneReport
<1> QED BY <1>1, <1>3, <1>4, <1>5 DEF OneTask, Registered

\* Nothing is queued, taken out of the queue, begun or given up.
LEMMA SameStages ==
  ASSUME UNCHANGED <<tasks, done, main_pid, dpc>>
  PROVE  \A p \in Pids : /\ Sent(p)' = Sent(p)
                         /\ Working(p)' = Working(p)
                         /\ Finished(p)' = Finished(p)
BY DEF Sent, Working, Finished

\* The steps of main that only print, read or wait.
LEMMA QuietStep ==
  ASSUME IInv, UNCHANGED <<tasks, done, main_pid, dpc, main, table>>,
         mpc' \notin {"sending", "down"}
  PROVE  (OneTask /\ OneReport /\ Registered)'
<1>1. \A p \in Pids : ~Pending(p)'
  BY DEF Pending
<1>2. \A p \in Pids : tasks'[p] = tasks[p]
  OBVIOUS
<1>3. OneTask'
  BY <1>1, <1>2, SameStages DEF IInv, OneTask, table
<1>4. OneReport'
  BY DEF IInv, OneReport
<1>5. Registered'
  BY <1>1, SameStages DEF IInv, Registered, table
<1> QED BY <1>3, <1>4, <1>5

LEMMA CreateStep ==
  ASSUME IInv, NEW q \in Pids, CreateDriver(q)
  PROVE  (OneTask /\ OneReport /\ Registered)'
<1>1. TypeOK /\ OneTask /\ OneReport /\ Registered
  BY DEF IInv
<1>2. /\ dpc[q] = "none" /\ dpc'[q] = "receive" /\ main_pid'[q] = main
      /\ drivers' = drivers \cup {q} /\ is_busy'[q] = FALSE
      /\ \A p \in Pids : p # q => /\ dpc'[p] = dpc[p] /\ main_pid'[p] = main_pid[p]
                                  /\ is_busy'[p] = is_busy[p]
      /\ mpc' = "poll" /\ UNCHANGED <<main, tasks, done>>
  BY <1>1 DEF CreateDriver, queue, TypeOK
<1>3. \A p \in Pids : ~Pending(p)'
  BY <1>2 DEF Pending
<1>4. \A p \in Pids : Sent(p)' = Sent(p) /\ tasks'[p] = tasks[p]
  BY <1>2 DEF Sent
<1>5. \A p \in Pids : p # q => Working(p)' = Working(p) /\ Finished(p)' = Finished(p)
  BY <1>2 DEF Working, Finished
<1>6. ~Sent(q) /\ ~Finished(q) /\ ~Working(q)'
  BY <1>1, <1>2 DEF Registered, Working
<1>7. \A m \in Mains : \A i \in DOMAIN done[m] : done[m][i] \in Pids /\ done[m][i] # q
  <2>1. TAKE m \in Mains
  <2>2. TAKE i \in DOMAIN done[m]
  <2>3. done[m] \in Seq(Pids)
    BY <1>1 DEF TypeOK
  <2>4. done[m][i] \in Pids
    BY <2>2, <2>3, LenProperties
  <2>5. main_pid[done[m][i]] = m
    BY <1>1, <2>1, <2>2 DEF OneReport
  <2> QED BY <1>6, <2>4, <2>5 DEF Finished
<1>8. ~Finished(q)'
  BY <1>1, <1>2, <1>7 DEF Finished, TypeOK
<1>9. OneTask'
  BY <1>1, <1>2, <1>3, <1>4, <1>5, <1>6, <1>8 DEF OneTask
<1>10. OneReport'
  BY <1>1, <1>2, <1>7 DEF OneReport
<1>11. Registered'
  BY <1>1, <1>2, <1>3, <1>4, <1>5, <1>6, <1>8 DEF Registered
<1> QED BY <1>9, <1>10, <1>11

LEMMA SendStep ==
  ASSUME IInv, SendTask
  PROVE  (OneTask /\ OneReport /\ Registered)'
<1> DEFINE q == line.pid
<1>1. TypeOK /\ OneTask /\ OneReport /\ Registered
  BY DEF IInv
<1>2. q \in drivers /\ q \in Pids /\ ~is_busy[q]
  BY <1>1 DEF SendTask, TypeOK
<1>3. /\ is_busy'[q] = TRUE /\ \A p \in Pids : p # q => is_busy'[p] = is_busy[p]
      /\ mpc = "execute" /\ mpc' = "sending"
      /\ UNCHANGED <<main, line, drivers, tasks, done, main_pid, dpc>>
  BY <1>1, <1>2 DEF SendTask, queue, driver, TypeOK
<1>4. \A p \in Pids : Pending(p)' <=> p = q
  BY <1>3 DEF Pending
<1> HIDE DEF q
<1>5. \A p \in Pids : tasks'[p] = tasks[p]
  BY <1>3
<1>6. ~Sent(q) /\ ~Working(q) /\ ~Finished(q)
  BY <1>1, <1>2 DEF OneTask
<1>7. OneTask'
  BY <1>1, <1>2, <1>3, <1>4, <1>5, <1>6, SameStages DEF OneTask
<1>8. OneReport'
  BY <1>1, <1>3 DEF OneReport
<1>9. Registered'
  BY <1>1, <1>2, <1>3, <1>4, SameStages DEF Registered
<1> QED BY <1>7, <1>8, <1>9

LEMMA MsgsndStep ==
  ASSUME IInv, Msgsnd
  PROVE  (OneTask /\ OneReport /\ Registered)'
<1>1. TypeOK /\ OneTask /\ OneReport /\ Registered
  BY DEF IInv
<1>2. mpc = "sending" /\ line.cmd = "send_task" /\ line \in Lines
  BY <1>1 DEF Msgsnd, TypeOK
<1>3. PICK q \in Pids : q = line.pid /\ line.time \in Times
  BY <1>2, LineFields
<1>4. Pending(q) /\ \A p \in Pids : Pending(p) => p = q
  BY <1>2, <1>3 DEF Pending
<1>5. /\ tasks' = [tasks EXCEPT ![q] = Append(@, line.time)] /\ mpc' = "poll"
      /\ UNCHANGED <<main, drivers, is_busy, done, main_pid, dpc>>
  BY <1>3 DEF Msgsnd, driver, table
<1>6. q \in drivers /\ is_busy[q] /\ ~Sent(q) /\ ~Working(q) /\ ~Finished(q)
  BY <1>1, <1>3, <1>4 DEF OneTask, Registered
<1>7. \A p \in Pids : p # q => tasks'[p] = tasks[p]
  BY <1>1, <1>5 DEF TypeOK
<1>8. tasks'[q] = Append(<<>>, line.time)
  BY <1>1, <1>3, <1>5, <1>6 DEF Sent, TypeOK
<1>9. Len(tasks'[q]) = 1 /\ tasks'[q] # <<>>
  BY <1>8
<1>10. \A p \in Pids : ~Pending(p)' /\ Working(p)' = Working(p) /\ Finished(p)' = Finished(p)
  BY <1>5 DEF Pending, Working, Finished
<1>11. Sent(q)' /\ \A p \in Pids : p # q => Sent(p)' = Sent(p)
  BY <1>7, <1>9 DEF Sent
<1>12. OneTask'
  BY <1>1, <1>5, <1>6, <1>7, <1>9, <1>10, <1>11 DEF OneTask
<1>13. OneReport'
  BY <1>1, <1>5 DEF OneReport
<1>14. Registered'
  BY <1>1, <1>5, <1>6, <1>10, <1>11 DEF Registered
<1> QED BY <1>12, <1>13, <1>14

LEMMA UpdateStep ==
  ASSUME IInv, UpdateStatus
  PROVE  (OneTask /\ OneReport /\ Registered)'
<1>1. TypeOK /\ OneTask /\ OneReport /\ Registered
  BY DEF IInv
<1>2. main \in Mains /\ done[main] \in Seq(Pids) /\ done[main] # <<>>
  BY <1>1 DEF UpdateStatus, TypeOK
<1>0. PICK q \in Pids : q = Head(done[main])
  BY <1>2, Leave
<1>3. /\ q = done[main][1] /\ Len(done[main]) \in Nat \ {0}
      /\ Len(Tail(done[main])) = Len(done[main]) - 1
      /\ Tail(done[main]) \in Seq(Pids)
      /\ \A i \in 1 .. Len(done[main]) - 1 : Tail(done[main])[i] = done[main][i + 1]
  BY <1>0, <1>2, Leave
<1>4. /\ DOMAIN done[main] = 1 .. Len(done[main])
      /\ DOMAIN Tail(done[main]) = 1 .. Len(done[main]) - 1
  BY <1>2, <1>3, LenProperties
<1>5. /\ mpc' = "select" /\ UNCHANGED <<main, drivers, tasks, main_pid, dpc>>
      /\ done' = [done EXCEPT ![main] = Tail(@)]
  BY DEF UpdateStatus, driver
<1>6. \A p \in Pids : p # q => is_busy'[p] = is_busy[p]
  BY <1>0, <1>1, <1>3 DEF UpdateStatus, TypeOK
<1>7. done'[main] = Tail(done[main]) /\ \A m \in Mains : m # main => done'[m] = done[m]
  BY <1>1, <1>2, <1>5 DEF TypeOK
<1>8. main_pid[q] = main /\ Finished(q)
  <2>1. 1 \in DOMAIN done[main]
    BY <1>3, <1>4
  <2> QED BY <1>1, <1>2, <1>3, <2>1 DEF OneReport, Finished
<1>9. ~Pending(q) /\ ~Sent(q) /\ ~Working(q)
  BY <1>1, <1>3, <1>8 DEF OneTask
<1>10. \A i \in DOMAIN done'[main] :
         /\ i + 1 \in DOMAIN done[main] /\ i + 1 # 1
         /\ done'[main][i] = done[main][i + 1]
  BY <1>3, <1>4, <1>7
<1>11. \A i \in DOMAIN done'[main] : done'[main][i] # q
  <2>1. 1 \in DOMAIN done[main]
    BY <1>3, <1>4
  <2> QED BY <1>1, <1>2, <1>3, <1>10, <2>1 DEF OneReport
<1>12. ~Finished(q)'
  BY <1>5, <1>8, <1>11 DEF Finished
<1>13. \A p \in Pids : Finished(p)' => Finished(p)
  <2>1. SUFFICES ASSUME NEW p \in Pids, Finished(p)' PROVE Finished(p)
    OBVIOUS
  <2>2. PICK i \in DOMAIN done'[main_pid[p]] : done'[main_pid[p]][i] = p
    BY <1>5, <2>1 DEF Finished
  <2>3. CASE main_pid[p] = main
    BY <1>10, <2>2, <2>3 DEF Finished
  <2>4. CASE main_pid[p] # main
    <3>1. main_pid[p] \in Mains
      BY <1>1 DEF TypeOK
    <3> QED BY <1>7, <2>2, <2>4, <3>1 DEF Finished
  <2> QED BY <2>3, <2>4
<1>14. \A p \in Pids : ~Pending(p)' /\ Sent(p)' = Sent(p) /\ Working(p)' = Working(p)
                       /\ tasks'[p] = tasks[p]
  BY <1>5 DEF Pending, Sent, Working
<1>15. OneTask'
  BY <1>1, <1>5, <1>6, <1>9, <1>12, <1>13, <1>14 DEF OneTask
<1>16. OneReport'
  <2>1. ASSUME NEW m \in Mains, NEW i \in DOMAIN done'[m], NEW j \in DOMAIN done'[m]
        PROVE  /\ main_pid'[done'[m][i]] = m
               /\ done'[m][i] = done'[m][j] => i = j
    <3>1. CASE m = main
      <4>1. /\ i + 1 \in DOMAIN done[main] /\ done'[m][i] = done[main][i + 1]
            /\ j + 1 \in DOMAIN done[main] /\ done'[m][j] = done[main][j + 1]
        BY <1>10, <2>1, <3>1
      <4>2. i \in Int /\ j \in Int
        BY <1>4, <1>7, <2>1, <3>1
      <4>3. main_pid'[done'[m][i]] = m
        BY <1>1, <1>2, <1>5, <3>1, <4>1 DEF OneReport
      <4>4. done[main][i + 1] = done[main][j + 1] => i + 1 = j + 1
        BY <1>1, <1>2, <4>1 DEF OneReport
      <4> QED BY <4>1, <4>2, <4>3, <4>4
    <3>2. CASE m # main
      BY <1>1, <1>5, <1>7, <3>2 DEF OneReport
    <3> QED BY <3>1, <3>2
  <2> QED BY <2>1 DEF OneReport
<1>17. Registered'
  BY <1>1, <1>5, <1>12, <1>13, <1>14 DEF Registered
<1> QED BY <1>15, <1>16, <1>17

\* The queue goes, and every listed driver with it.
LEMMA ExitStep ==
  ASSUME IInv, Exit
  PROVE  (OneTask /\ OneReport /\ Registered)'
<1>1. TypeOK /\ OneTask /\ OneReport /\ Registered
  BY DEF IInv
<1>2. /\ mpc' = "exited" /\ UNCHANGED <<main, table, main_pid>>
      /\ \A p \in Pids : dpc'[p] = IF p \in drivers THEN "dead" ELSE dpc[p]
  BY DEF Exit
<1>3. (\A p \in Pids : tasks'[p] = <<>>) /\ (\A m \in Mains : done'[m] = <<>>)
  BY DEF Exit
<1>4. \A p \in Pids : ~Pending(p)' /\ ~Sent(p)'
  BY <1>2, <1>3 DEF Pending, Sent
<1>5. \A p \in Pids : ~Finished(p)'
  <2>1. TAKE p \in Pids
  <2>2. main_pid'[p] \in Mains
    BY <1>1, <1>2 DEF TypeOK
  <2> QED BY <1>3, <2>2 DEF Finished
<1>6. \A p \in drivers : ~Working(p)'
  BY <1>1, <1>2 DEF Working, TypeOK
<1>7. OneTask'
  BY <1>2, <1>4, <1>5, <1>6 DEF OneTask, table
<1>8. OneReport'
  BY <1>3 DEF OneReport
<1>9. Registered'
  BY <1>1, <1>2, <1>4, <1>5 DEF Registered, table
<1> QED BY <1>7, <1>8, <1>9

\* The table goes; what is under way stays under way.
LEMMA CrashStep ==
  ASSUME IInv, Crash
  PROVE  (OneTask /\ OneReport /\ Registered)'
<1>1. TypeOK /\ OneTask /\ OneReport /\ Registered
  BY DEF IInv
<1>2. /\ mpc' = "down" /\ drivers' = {}
      /\ UNCHANGED <<main, tasks, done, main_pid, dpc>>
  BY DEF Crash, queue, driver
<1>3. \A p \in Pids : ~Pending(p)' /\ tasks'[p] = tasks[p]
  BY <1>2 DEF Pending
<1>4. OneTask' /\ OneReport'
  BY <1>1, <1>2, <1>3, SameStages DEF OneTask, OneReport
<1>5. Registered'
  BY <1>1, <1>2, <1>3, SameStages DEF Registered
<1> QED BY <1>4, <1>5

LEMMA RestartStep ==
  ASSUME IInv, NEW m \in Mains, Restart(m)
  PROVE  (OneTask /\ OneReport /\ Registered)'
<1>1. TypeOK /\ OneTask /\ OneReport /\ Registered
  BY DEF IInv
<1>2. /\ mpc' = "select" /\ drivers' = {}
      /\ UNCHANGED <<tasks, done, main_pid, dpc>>
  BY <1>1 DEF Restart, queue, driver, table, Registered
<1>3. \A p \in Pids : ~Pending(p)' /\ tasks'[p] = tasks[p]
  BY <1>2 DEF Pending
<1>4. OneTask' /\ OneReport'
  BY <1>1, <1>2, <1>3, SameStages DEF OneTask, OneReport
<1>5. Registered'
  BY <1>1, <1>2, <1>3, SameStages DEF Registered
<1> QED BY <1>4, <1>5

\* The task leaves the queue and is worked on, or dropped.
LEMMA ReceiveStep ==
  ASSUME IInv, NEW q \in Pids, Receive(q)
  PROVE  (OneTask /\ OneReport /\ Registered)'
<1>1. TypeOK /\ OneTask /\ OneReport /\ Registered
  BY DEF IInv
<1>2. /\ UNCHANGED <<mpc, line, main, drivers, is_busy, done, main_pid>>
      /\ tasks' = [tasks EXCEPT ![q] = Tail(@)] /\ dpc[q] = "receive" /\ Sent(q)
  BY DEF Receive, loop, table, Sent
<1>3. \A p \in Pids : p # q => dpc'[p] = dpc[p] /\ tasks'[p] = tasks[p]
  BY <1>1 DEF Receive, TypeOK
<1>4. dpc'[q] # "none"
  BY <1>1 DEF Receive, TypeOK
<1>5. ~Pending(q) /\ ~Finished(q) /\ Len(tasks[q]) = 1
  BY <1>1, <1>2 DEF OneTask
<1>6. tasks[q] \in Seq(Times) /\ tasks[q] # <<>>
  BY <1>1, <1>2 DEF TypeOK, Sent
<1>7. tasks'[q] = <<>>
  <2>1. tasks'[q] = Tail(tasks[q])
    BY <1>1, <1>2 DEF TypeOK
  <2>2. Tail(tasks[q]) \in Seq(Times) /\ Len(Tail(tasks[q])) = 0
    BY <1>5, <1>6, Leave
  <2>3. Tail(tasks[q]) = <<>>
    BY <2>2, EmptySeq
  <2> QED BY <2>1, <2>3
<1>8. \A p \in Pids : Pending(p)' = Pending(p) /\ Finished(p)' = Finished(p)
  BY <1>2 DEF Pending, Finished
<1>9. /\ ~Sent(q)'
      /\ \A p \in Pids : p # q => Sent(p)' = Sent(p) /\ Working(p)' = Working(p)
  BY <1>3, <1>7 DEF Sent, Working
<1>10. ~(q \in drivers /\ ~is_busy[q])
  BY <1>1, <1>2 DEF OneTask
<1>11. OneTask'
  BY <1>1, <1>2, <1>3, <1>5, <1>8, <1>9, <1>10 DEF OneTask
<1>12. OneReport'
  BY <1>1, <1>2 DEF OneReport
<1>13. Registered'
  BY <1>1, <1>2, <1>3, <1>4, <1>8, <1>9 DEF Registered
<1> QED BY <1>11, <1>12, <1>13

\* A driver goes on working, or is killed.
LEMMA TickDieStep ==
  ASSUME IInv, NEW q \in Pids, Tick(q) \/ Die(q)
  PROVE  (OneTask /\ OneReport /\ Registered)'
<1>1. TypeOK /\ OneTask /\ OneReport /\ Registered
  BY DEF IInv
<1>2. UNCHANGED <<mpc, line, main, drivers, is_busy, tasks, done, main_pid>>
  BY DEF Tick, Die, loop, table, queue
<1>3. /\ dpc'[q] # "none" /\ dpc[q] # "none" /\ (Working(q)' => Working(q))
      /\ \A p \in Pids : p # q => dpc'[p] = dpc[p]
  BY <1>1 DEF Tick, Die, TypeOK, Working
<1>4. \A p \in Pids : /\ Pending(p)' = Pending(p) /\ Sent(p)' = Sent(p)
                      /\ Finished(p)' = Finished(p) /\ tasks'[p] = tasks[p]
  BY <1>2 DEF Pending, Sent, Finished
<1>5. \A p \in Pids : p # q => Working(p)' = Working(p)
  BY <1>3 DEF Working
<1>6. OneTask'
  BY <1>1, <1>2, <1>3, <1>4, <1>5 DEF OneTask
<1>7. OneReport'
  BY <1>1, <1>2 DEF OneReport
<1>8. Registered'
  BY <1>1, <1>2, <1>3, <1>4 DEF Registered
<1> QED BY <1>6, <1>7, <1>8

\* The work of a driver becomes a completion in the queue of its main.
LEMMA CompleteStep ==
  ASSUME IInv, NEW q \in Pids, Complete(q)
  PROVE  (OneTask /\ OneReport /\ Registered)'
<1>1. TypeOK /\ OneTask /\ OneReport /\ Registered
  BY DEF IInv
<1>2. /\ UNCHANGED <<mpc, line, main, drivers, is_busy, tasks, main_pid>>
      /\ dpc[q] = "report" /\ dpc'[q] = "receive"
      /\ \A p \in Pids : p # q => dpc'[p] = dpc[p]
  BY <1>1 DEF Complete, loop, table, TypeOK
<1>3. PICK b \in Mains : b = main_pid[q]
  BY <1>1 DEF TypeOK
<1>4. Working(q) /\ ~Working(q)' /\ ~Pending(q) /\ ~Sent(q) /\ ~Finished(q)
  BY <1>1, <1>2 DEF Working, OneTask
<1>5. done[b] \in Seq(Pids) /\ \A m \in Mains : m # b => done'[m] = done[m]
  BY <1>1, <1>3 DEF Complete, TypeOK
<1>6. done'[b] = done[b] \/ done'[b] = Append(done[b], q)
  BY <1>1, <1>3 DEF Complete, TypeOK
<1>7. \A i \in DOMAIN done'[b] :
        \/ i \in DOMAIN done[b] /\ done'[b][i] = done[b][i]
        \/ i = Len(done[b]) + 1 /\ done'[b][i] = q
  <2>1. CASE done'[b] = done[b]
    BY <2>1
  <2>2. CASE done'[b] = Append(done[b], q)
    <3>1. /\ DOMAIN done[b] = 1 .. Len(done[b]) /\ Len(done[b]) \in Nat
          /\ DOMAIN done'[b] = 1 .. Len(done[b]) + 1
      BY <1>5, <2>2, LenProperties, AppendProperties
    <3>2. /\ done'[b][Len(done[b]) + 1] = q
          /\ \A i \in 1 .. Len(done[b]) : done'[b][i] = done[b][i]
      BY <1>5, <2>2, AppendProperties
    <3> QED BY <3>1, <3>2
  <2> QED BY <1>6, <2>1, <2>2
<1>8. \A i \in DOMAIN done[b] : done[b][i] # q
  BY <1>3, <1>4 DEF Finished
<1>9. \A p \in Pids : p # q => (Finished(p)' => Finished(p))
  <2>1. SUFFICES ASSUME NEW p \in Pids, p # q, Finished(p)' PROVE Finished(p)
    OBVIOUS
  <2>2. PICK i \in DOMAIN done'[main_pid[p]] : done'[main_pid[p]][i] = p
    BY <1>2, <2>1 DEF Finished
  <2>3. main_pid[p] \in Mains
    BY <1>1 DEF TypeOK
  <2>4. CASE main_pid[p] = b
    BY <1>7, <2>1, <2>2, <2>4 DEF Finished
  <2>5. CASE main_pid[p] # b
    BY <1>5, <2>2, <2>3, <2>5 DEF Finished
  <2> QED BY <2>4, <2>5
<1>10. \A p \in Pids : /\ Pending(p)' = Pending(p) /\ Sent(p)' = Sent(p)
                       /\ tasks'[p] = tasks[p]
  BY <1>2 DEF Pending, Sent
<1>11. \A p \in Pids : p # q => Working(p)' = Working(p)
  BY <1>2 DEF Working
<1>12. ~(q \in drivers /\ ~is_busy[q])
  BY <1>1, <1>4 DEF OneTask
<1>13. OneTask'
  BY <1>1, <1>2, <1>4, <1>9, <1>10, <1>11, <1>12 DEF OneTask
<1>14. OneReport'
  <2>1. ASSUME NEW m \in Mains, NEW i \in DOMAIN done'[m], NEW j \in DOMAIN done'[m]
        PROVE  /\ main_pid'[done'[m][i]] = m
               /\ done'[m][i] = done'[m][j] => i = j
    <3>1. CASE m = b
      BY <1>1, <1>2, <1>3, <1>7, <1>8, <2>1, <3>1 DEF OneReport
    <3>2. CASE m # b
      BY <1>1, <1>2, <1>5, <3>2 DEF OneReport
    <3> QED BY <3>1, <3>2
  <2> QED BY <2>1 DEF OneReport
<1>15. Registered'
  BY <1>1, <1>2, <1>4, <1>9, <1>10 DEF Registered
<1> QED BY <1>13, <1>14, <1>15

LEMMA InvStep == IInv /\ [Next]_vars => IInv'
<1> SUFFICES ASSUME IInv, [Next]_vars PROVE (OneTask /\ OneReport /\ Registered)'
  BY TypeStep DEF IInv
<1>1. CASE Timeout \/ ReadEof \/ Report \/ CreateFails \/ SendRefused \/ NothingNew
  BY <1>1, QuietStep
  DEF Timeout, ReadEof, Report, CreateFails, SendRefused, NothingNew, queue, driver
<1>2. ASSUME NEW l \in Lines, Read(l) PROVE (OneTask /\ OneReport /\ Registered)'
  BY <1>2, QuietStep DEF Read, queue, driver
<1>3. CASE UNCHANGED vars
  <2>1. UNCHANGED <<tasks, done, main_pid, dpc, main, table, mpc, line>>
    BY <1>3 DEF vars, loop, queue, driver
  <2>2. \A p \in Pids : Pending(p)' = Pending(p) /\ tasks'[p] = tasks[p]
    BY <2>1 DEF Pending
  <2> QED BY <2>1, <2>2, SameStages DEF IInv, OneTask, OneReport, Registered, table
<1>4. ASSUME NEW p \in Pids, CreateDriver(p) \/ DriverStep(p) \/ Die(p)
      PROVE  (OneTask /\ OneReport /\ Registered)'
  BY <1>4, CreateStep, ReceiveStep, TickDieStep, CompleteStep DEF DriverStep
<1>5. CASE SendTask \/ Msgsnd \/ UpdateStatus \/ Exit \/ Crash
  BY <1>5, SendStep, MsgsndStep, UpdateStep, ExitStep, CrashStep
<1>6. ASSUME NEW m \in Mains, Restart(m) PROVE (OneTask /\ OneReport /\ Registered)'
  BY <1>6, RestartStep
<1> QED BY <1>1, <1>2, <1>3, <1>4, <1>5, <1>6 DEF Next, MainStep

(* A driver has at most one task, in one place, and none while the table shows
   it as available. *)
THEOREM OneTaskCorrect == Spec => []OneTask
<1>1. IInv => OneTask
  BY DEF IInv
<1> QED BY <1>1, InvInit, InvStep, PTL DEF Spec

(* A completion is in the queue once, addressed to the main that forked the
   driver. *)
THEOREM OneReportCorrect == Spec => []OneReport
<1>1. IInv => OneReport
  BY DEF IInv
<1> QED BY <1>1, InvInit, InvStep, PTL DEF Spec

--------------------------------------------------------------------------------
\* The time entered in the table is the one about to be sent, then the one in the
\* queue, and bounds what the driver has left.
Timed(p) ==
  /\ Pending(p) => line.time = task_timer[p]
  /\ Sent(p) => Head(tasks[p]) = task_timer[p]
  /\ dpc[p] = "work" => dtimer[p] \in 1 .. task_timer[p]

Timers == \A p \in drivers : is_busy[p] => Timed(p)

\* Nothing Timed looks at changes, but for a message that is no longer pending.
LEMMA SameTimed ==
  ASSUME NEW p \in Pids, Timed(p), tasks'[p] = tasks[p], task_timer'[p] = task_timer[p],
         dpc'[p] = "work" => dpc[p] = "work" /\ dtimer'[p] = dtimer[p],
         ~Pending(p)' \/ (UNCHANGED line /\ Pending(p))
  PROVE  Timed(p)'
BY DEF Timed, Sent

LEMMA TimersInit == Init => Timers
BY DEF Init, Timers

LEMMA QuietTimers ==
  ASSUME IInv, Timers, UNCHANGED <<table, queue, driver>>, mpc' # "sending"
  PROVE  Timers'
<1>1. UNCHANGED <<drivers, is_busy, task_timer, tasks, dpc, dtimer>>
  BY DEF table, queue, driver
<1>2. \A p \in Pids : ~Pending(p)' BY DEF Pending
<1>q. QED BY <1>1, <1>2, SameTimed DEF Timers, IInv, TypeOK

LEMMA CreateTimers ==
  ASSUME IInv, Timers, NEW q \in Pids, CreateDriver(q) PROVE Timers'
<1>1. /\ drivers' = drivers \cup {q} /\ is_busy'[q] = FALSE
      /\ \A p \in Pids : p # q => /\ is_busy'[p] = is_busy[p] /\ dpc'[p] = dpc[p]
                                  /\ task_timer'[p] = task_timer[p]
      /\ mpc' = "poll" /\ UNCHANGED <<tasks, dtimer>>
  BY DEF CreateDriver, queue, IInv, TypeOK
<1>2. ASSUME NEW p \in drivers', is_busy'[p] PROVE Timed(p)'
  <2>1. p \in drivers /\ p \in Pids /\ p # q /\ is_busy[p] BY <1>1, <1>2 DEF IInv, TypeOK
  <2>2. Timed(p) /\ ~Pending(p)' BY <1>1, <2>1 DEF Timers, Pending
  <2>q. QED BY <1>1, <2>1, <2>2, SameTimed
<1>q. QED BY <1>2 DEF Timers

\* The driver was free, so it has nothing in the queue and works on nothing.
LEMMA SendTimers == ASSUME IInv, Timers, SendTask PROVE Timers'
<1>1. PICK q \in Pids : q = line.pid /\ q \in drivers /\ ~is_busy[q]
  BY DEF SendTask, IInv, TypeOK
<1>2. /\ task_timer'[q] = line.time
      /\ \A p \in Pids : p # q => is_busy'[p] = is_busy[p] /\ task_timer'[p] = task_timer[p]
      /\ UNCHANGED <<line, drivers, tasks, dpc, dtimer>>
  BY <1>1 DEF SendTask, queue, driver, IInv, TypeOK
<1>3. ~Sent(q) /\ dpc[q] # "work" BY <1>1 DEF IInv, OneTask, Working
<1>4. Timed(q)' BY <1>2, <1>3 DEF Timed, Sent
<1>5. ASSUME NEW p \in drivers', is_busy'[p], p # q PROVE Timed(p)'
  <2>1. p \in Pids /\ p \in drivers /\ Timed(p) BY <1>2, <1>5 DEF IInv, TypeOK, Timers
  <2>2. ~Pending(p)' BY <1>1, <1>2, <1>5 DEF Pending
  <2>q. QED BY <1>2, <1>5, <2>1, <2>2, SameTimed
<1>q. QED BY <1>4, <1>5 DEF Timers

LEMMA MsgsndTimers == ASSUME IInv, Timers, Msgsnd PROVE Timers'
<1>1. mpc = "sending" /\ line.cmd = "send_task" /\ line \in Lines
  BY DEF Msgsnd, IInv, TypeOK
<1>2. PICK q \in Pids : q = line.pid /\ line.time \in Times BY <1>1, LineFields
<1>3. Pending(q) /\ q \in drivers /\ is_busy[q] /\ ~Sent(q) /\ dpc[q] # "work"
  BY <1>1, <1>2 DEF Pending, IInv, OneTask, Registered, Working
<1>4. /\ tasks'[q] = Append(<<>>, line.time)
      /\ \A p \in Pids : p # q => tasks'[p] = tasks[p]
      /\ mpc' = "poll" /\ UNCHANGED <<drivers, is_busy, task_timer, dpc, dtimer>>
  BY <1>2, <1>3 DEF Msgsnd, Sent, driver, table, IInv, TypeOK
<1>5. \A p \in Pids : ~Pending(p)' BY <1>4 DEF Pending
<1>6. Head(tasks'[q]) = line.time BY <1>4
<1>7. Timed(q)
  BY <1>3 DEF Timers
<1>8. Timed(q)' BY <1>3, <1>4, <1>5, <1>6, <1>7 DEF Timed
<1>9. ASSUME NEW p \in drivers', is_busy'[p], p # q PROVE Timed(p)'
  <2>1. p \in Pids /\ Timed(p) BY <1>4, <1>9 DEF IInv, TypeOK, Timers
  <2>q. QED BY <1>4, <1>5, <1>9, <2>1, SameTimed
<1>q. QED BY <1>8, <1>9 DEF Timers

LEMMA UpdateTimers == ASSUME IInv, Timers, UpdateStatus PROVE Timers'
<1>1. mpc' = "select" /\ UNCHANGED <<drivers, tasks, dpc, dtimer>>
  BY DEF UpdateStatus, driver
<1>2. ASSUME NEW p \in drivers, is_busy'[p]
      PROVE  is_busy[p] /\ task_timer'[p] = task_timer[p]
  BY <1>2 DEF UpdateStatus, IInv, TypeOK
<1>3. ASSUME NEW p \in drivers', is_busy'[p] PROVE Timed(p)'
  <2>1. p \in Pids /\ p \in drivers BY <1>1, <1>3 DEF IInv, TypeOK
  <2>2. Timed(p) /\ ~Pending(p)' BY <1>1, <1>2, <1>3, <2>1 DEF Timers, Pending
  <2>q. QED BY <1>1, <1>2, <1>3, <2>1, <2>2, SameTimed
<1>q. QED BY <1>3 DEF Timers

LEMMA ExitTimers == ASSUME IInv, Timers, Exit PROVE Timers'
<1>1. ASSUME NEW p \in drivers' PROVE Timed(p)'
  <2>1. p \in Pids /\ p \in drivers BY <1>1 DEF Exit, table, IInv, TypeOK
  <2>2. tasks'[p] = <<>> /\ dpc'[p] = "dead" /\ mpc' = "exited" BY <2>1 DEF Exit
  <2>q. QED BY <2>2 DEF Timed, Sent, Pending
<1>q. QED BY <1>1 DEF Timers

\* The task a driver takes is the one that was entered.
LEMMA ReceiveTimers ==
  ASSUME IInv, Timers, NEW q \in Pids, Receive(q) PROVE Timers'
<1>1. /\ UNCHANGED <<mpc, line, drivers, is_busy, task_timer>> /\ Sent(q) /\ ~Pending(q)
      /\ Len(tasks[q]) = 1 /\ tasks[q] \in Seq(Times)
  BY DEF Receive, loop, table, Sent, IInv, OneTask, TypeOK
<1>2. \A p \in Pids : p # q =>
        dpc'[p] = dpc[p] /\ tasks'[p] = tasks[p] /\ dtimer'[p] = dtimer[p]
  BY DEF Receive, IInv, TypeOK
<1>3. tasks'[q] = <<>>
  <2>1. tasks'[q] = Tail(tasks[q]) BY DEF Receive, IInv, TypeOK
  <2>2. Tail(tasks[q]) \in Seq(Times) /\ Len(Tail(tasks[q])) = 0
    BY <1>1, Leave DEF Sent
  <2>3. Tail(tasks[q]) = <<>> BY <2>2, EmptySeq
  <2>q. QED BY <2>1, <2>3
<1>4. ASSUME q \in drivers, is_busy[q] PROVE Timed(q)'
  <2>1. Head(tasks[q]) = task_timer[q] /\ task_timer[q] \in Int
    BY <1>1, <1>4 DEF Timers, Timed, IInv, TypeOK
  <2>2. dpc'[q] = "work" => dtimer'[q] = Head(tasks[q]) /\ Head(tasks[q]) > 0
    BY DEF Receive, IInv, TypeOK
  <2>3. ~Sent(q)' /\ ~Pending(q)' BY <1>1, <1>3 DEF Sent, Pending
  <2>q. QED BY <1>1, <2>1, <2>2, <2>3 DEF Timed
<1>5. ASSUME NEW p \in drivers', is_busy'[p], p # q PROVE Timed(p)'
  <2>1. p \in Pids /\ Timed(p) BY <1>1, <1>5 DEF IInv, TypeOK, Timers
  <2>2. ~Pending(p)' \/ (UNCHANGED line /\ Pending(p)) BY <1>1 DEF Pending
  <2>q. QED BY <1>1, <1>2, <1>5, <2>1, <2>2, SameTimed
<1>q. QED BY <1>1, <1>4, <1>5 DEF Timers

\* A second passes; or the driver stops working.
LEMMA DriverTimers ==
  ASSUME IInv, Timers, NEW q \in Pids, Tick(q) \/ Complete(q) \/ Die(q) PROVE Timers'
<1>1. UNCHANGED <<mpc, line, drivers, is_busy, task_timer, tasks>>
  BY DEF Tick, Complete, Die, loop, table, queue
<1>2. \A p \in Pids : p # q => dpc'[p] = dpc[p] /\ dtimer'[p] = dtimer[p]
  BY DEF Tick, Complete, Die, IInv, TypeOK
<1>3. dpc'[q] = "work" => dpc[q] = "work" /\ dtimer'[q] = dtimer[q] - 1 /\ dtimer'[q] > 0
  BY DEF Tick, Complete, Die, IInv, TypeOK
<1>4. \A p \in Pids : ~Pending(p)' \/ (UNCHANGED line /\ Pending(p)) BY <1>1 DEF Pending
<1>5. ASSUME q \in drivers, is_busy[q] PROVE Timed(q)'
  <2>1. Timed(q) /\ task_timer[q] \in Int /\ dtimer[q] \in Int
    BY <1>5 DEF Timers, IInv, TypeOK
  <2>2. dpc'[q] = "work" => dtimer'[q] \in 1 .. task_timer'[q]
    BY <1>1, <1>3, <2>1 DEF Timed
  <2>3. Pending(q)' => line'.time = task_timer'[q] BY <1>1, <1>4, <2>1 DEF Timed
  <2>4. Sent(q)' => Head(tasks'[q]) = task_timer'[q] BY <1>1, <2>1 DEF Timed, Sent
  <2>q. QED BY <2>2, <2>3, <2>4 DEF Timed
<1>6. ASSUME NEW p \in drivers', is_busy'[p], p # q PROVE Timed(p)'
  <2>1. p \in Pids /\ Timed(p) BY <1>1, <1>6 DEF IInv, TypeOK, Timers
  <2>q. QED BY <1>1, <1>2, <1>4, <1>6, <2>1, SameTimed
<1>q. QED BY <1>1, <1>5, <1>6 DEF Timers

LEMMA TimersStep == ASSUME IInv, Timers, [Next]_vars PROVE Timers'
<1>1. CASE Timeout \/ ReadEof \/ Report \/ CreateFails \/ SendRefused \/ NothingNew
  BY <1>1, QuietTimers
  DEF Timeout, ReadEof, Report, CreateFails, SendRefused, NothingNew
<1>2. ASSUME NEW l \in Lines, Read(l) PROVE Timers'
  BY <1>2, QuietTimers DEF Read
<1>3. ASSUME NEW p \in Pids, CreateDriver(p) \/ DriverStep(p) \/ Die(p) PROVE Timers'
  BY <1>3, CreateTimers, ReceiveTimers, DriverTimers DEF DriverStep
<1>4. CASE SendTask \/ Msgsnd \/ UpdateStatus \/ Exit
  BY <1>4, SendTimers, MsgsndTimers, UpdateTimers, ExitTimers
<1>5. CASE Crash
  BY <1>5 DEF Crash, Timers
<1>6. ASSUME NEW m \in Mains, Restart(m) PROVE Timers'
  <2>1. drivers' = {} BY <1>6 DEF Restart, table, IInv, Registered
  <2>q. QED BY <2>1 DEF Timers
<1>7. CASE UNCHANGED vars
  <2>1. UNCHANGED <<mpc, line, drivers, is_busy, task_timer, tasks, dpc, dtimer>>
    BY <1>7 DEF vars, loop, table, queue, driver
  <2>q. QED BY <2>1 DEF Timers, Timed, Pending, Sent
<1>q. QED BY <1>1, <1>2, <1>3, <1>4, <1>5, <1>6, <1>7 DEF Next, MainStep

(* get_status shows the length of the task the driver really has, wherever that
   task is on its way (taxi_system.c:104-106, 54-62). *)
THEOREM ShownTimerCorrect == Spec => []ShownTimer
<1>1. Init => IInv /\ Timers BY InvInit, TimersInit
<1>2. IInv /\ Timers /\ [Next]_vars => (IInv /\ Timers)' BY InvStep, TimersStep
<1>3. IInv /\ Timers => ShownTimer BY DEF IInv, Timers, Timed, ShownTimer
<1>q. QED BY <1>1, <1>2, <1>3, PTL DEF Spec

--------------------------------------------------------------------------------
\* The drivers that were ever forked are finitely many, so they can be counted.
Forked == {p \in Pids : dpc[p] # "none"}

LEMMA ForkedInit == Init => IsFiniteSet(Forked)
<1>1. Init => Forked = {} BY DEF Init, Forked
<1>q. QED BY <1>1, FS_EmptySet

LEMMA ForkedStep ==
  ASSUME IInv, [Next]_vars, IsFiniteSet(Forked) PROVE IsFiniteSet(Forked')
<1>1. CASE UNCHANGED dpc
  BY <1>1 DEF Forked
<1>2. ASSUME NEW q \in Pids, CreateDriver(q) PROVE IsFiniteSet(Forked')
  <2>1. Forked' = Forked \cup {q} BY <1>2 DEF CreateDriver, Forked, IInv, TypeOK
  <2>q. QED BY <2>1, FS_AddElement
<1>3. CASE Exit
  <2>1. Forked' = Forked BY <1>3 DEF Exit, Forked, IInv, Registered
  <2>q. QED BY <2>1
<1>4. ASSUME NEW q \in Pids, DriverStep(q) \/ Die(q) PROVE IsFiniteSet(Forked')
  <2>1. /\ dpc[q] # "none" /\ dpc'[q] # "none"
        /\ \A p \in Pids : p # q => dpc'[p] = dpc[p]
    BY <1>4 DEF DriverStep, Receive, Tick, Complete, Die, IInv, TypeOK
  <2>2. Forked' = Forked BY <2>1 DEF Forked
  <2>q. QED BY <2>2
<1>q. QED
  BY <1>1, <1>2, <1>3, <1>4
  DEF Next, MainStep, Timeout, ReadEof, Read, Report, CreateFails, SendRefused, SendTask,
      Msgsnd, UpdateStatus, NothingNew, Crash, Restart, driver, vars

\* A message waits for its driver or comes from it: the driver it is about.
About(x) == IF x[1] \in Pids THEN x[1] ELSE done[x[1]][x[2]]

LEMMA OneMessageEach ==
  ASSUME IInv
  PROVE  /\ \A x \in Queued : About(x) \in Forked
         /\ \A x, y \in Queued : About(x) = About(y) => x = y
<1>1. \A x \in Queued :
        \/ \E p \in Pids : x = <<p, 1>> /\ About(x) = p /\ Sent(p)
        \/ \E m \in Mains : \E i \in DOMAIN done[m] :
             /\ x = <<m, i>> /\ About(x) = done[m][i]
             /\ About(x) \in Pids /\ main_pid[About(x)] = m /\ Finished(About(x))
  <2>1. ASSUME NEW p \in Pids, NEW i \in DOMAIN tasks[p]
        PROVE  i = 1 /\ About(<<p, i>>) = p /\ Sent(p)
    <3>1. tasks[p] \in Seq(Times) BY DEF IInv, TypeOK
    <3>2. DOMAIN tasks[p] = 1 .. Len(tasks[p]) BY <3>1, LenProperties
    <3>3. tasks[p] # <<>> BY <2>1
    <3>4. Len(tasks[p]) = 1 BY <3>3 DEF IInv, OneTask, Sent
    <3>q. QED BY <3>2, <3>3, <3>4 DEF About, Sent
  <2>2. ASSUME NEW m \in Mains, NEW i \in DOMAIN done[m]
        PROVE  /\ About(<<m, i>>) = done[m][i] /\ done[m][i] \in Pids
               /\ main_pid[done[m][i]] = m /\ Finished(done[m][i])
    <3>1. done[m] \in Seq(Pids) BY DEF IInv, TypeOK
    <3>2. done[m][i] \in Pids BY <3>1, LenProperties
    <3>3. m \notin Pids BY PidAssumption
    <3>4. main_pid[done[m][i]] = m BY DEF IInv, OneReport
    <3>q. QED BY <3>2, <3>3, <3>4 DEF About, Finished
  <2>3. ASSUME NEW x \in Queued
        PROVE  \/ \E p \in Pids : \E i \in DOMAIN tasks[p] : x = <<p, i>>
               \/ \E m \in Mains : \E i \in DOMAIN done[m] : x = <<m, i>>
    BY <2>3 DEF Queued
  <2>q. QED BY <2>1, <2>2, <2>3
<1>2. \A x \in Queued : About(x) \in Forked
  BY <1>1 DEF Forked, IInv, Registered
<1>3. ASSUME NEW x \in Queued, NEW y \in Queued, About(x) = About(y) PROVE x = y
  BY <1>1, <1>3 DEF IInv, OneTask, OneReport
<1>q. QED BY <1>2, <1>3

LEMMA MessagesBounded ==
  ASSUME IInv, IsFiniteSet(Forked) PROVE QueueBounded
<1> DEFINE f == [x \in Queued |-> About(x)]
<1>1. f \in Injection(Queued, Forked)
  BY OneMessageEach DEF Injection, IsInjective
<1>q. QED BY <1>1, FS_Injection DEF QueueBounded, Forked

(* The queue never holds more messages than drivers were forked, over all lives of
   main: so with room for as many, msgsnd() never blocks the command loop
   (taxi_system.c:54-62, 104-116). *)
THEOREM QueueBoundedCorrect == Spec => []QueueBounded
<1>1. Init => IInv /\ IsFiniteSet(Forked) BY InvInit, ForkedInit
<1>2. IInv /\ IsFiniteSet(Forked) /\ [Next]_vars => (IInv /\ IsFiniteSet(Forked))'
  BY InvStep, ForkedStep
<1>3. IInv /\ IsFiniteSet(Forked) => QueueBounded BY MessagesBounded
<1>q. QED BY <1>1, <1>2, <1>3, PTL DEF Spec

--------------------------------------------------------------------------------
\* A driver goes from one place of Dispatch to another, or all stay where they are.
Advances(q, from, to) ==
  /\ Job(q) = from /\ Job(q)' = to
  /\ \A p \in Pids : p # q => Job(p)' = Job(p)

Jobs == [p \in Pids |-> Job(p)]

LEMMA MoveJob ==
  ASSUME NEW q \in Pids, NEW from, NEW to, Advances(q, from, to)
  PROVE  Promise!Move(q, from, to)
<1>1. Jobs' = [Jobs EXCEPT ![q] = to] BY DEF Advances, Jobs
<1>2. Jobs[q] = from BY DEF Advances, Jobs
<1>q. QED BY <1>1, <1>2 DEF Promise!Move, Jobs

LEMMA NoneLeft ==
  ASSUME \A p \in Pids : Job(p)' = "none" PROVE Promise!Stop
BY DEF Promise!Stop

\* What Job(p) looks at.
LEMMA SameJob ==
  ASSUME NEW p \in Pids, p \in drivers' <=> p \in drivers,
         mpc' = "exited" <=> mpc = "exited", is_busy'[p] = is_busy[p],
         (Pending(p) \/ Sent(p))' <=> (Pending(p) \/ Sent(p)),
         Working(p)' <=> Working(p), Finished(p)' <=> Finished(p)
  PROVE  Job(p)' = Job(p)
BY DEF Job

LEMMA QuietJobs ==
  ASSUME IInv, UNCHANGED <<table, queue, driver>>, mpc \notin {"sending", "exited"},
         mpc' \notin {"sending", "exited"}
  PROVE  \A p \in Pids : Job(p)' = Job(p)
<1>1. UNCHANGED <<drivers, is_busy, tasks, done, dpc, main_pid>>
  BY DEF table, queue, driver
<1>2. \A p \in Pids : ~Pending(p) /\ ~Pending(p)' BY DEF Pending
<1>q. QED BY <1>1, <1>2, SameStages, SameJob

LEMMA HireJob ==
  ASSUME IInv, NEW q \in Pids, CreateDriver(q) PROVE Advances(q, "none", "free")
<1>1. /\ dpc[q] = "none" /\ drivers' = drivers \cup {q} /\ is_busy'[q] = FALSE
      /\ \A p \in Pids : p # q => /\ dpc'[p] = dpc[p] /\ main_pid'[p] = main_pid[p]
                                  /\ is_busy'[p] = is_busy[p]
      /\ mpc = "execute" /\ mpc' = "poll" /\ UNCHANGED <<tasks, done>>
  BY DEF CreateDriver, queue, IInv, TypeOK
<1>2. \A p \in Pids : ~Pending(p) /\ ~Pending(p)' BY <1>1 DEF Pending
<1>3. Job(q) = "none" /\ Job(q)' = "free" BY <1>1 DEF Job, IInv, Registered
<1>4. ASSUME NEW p \in Pids, p # q PROVE Job(p)' = Job(p)
  BY <1>1, <1>2, <1>4, SameJob DEF Sent, Working, Finished
<1>q. QED BY <1>3, <1>4 DEF Advances

LEMMA AssignJob ==
  ASSUME IInv, SendTask PROVE \E q \in Pids : Advances(q, "free", "assigned")
<1>1. PICK q \in Pids : q = line.pid /\ q \in drivers /\ ~is_busy[q]
  BY DEF SendTask, IInv, TypeOK
<1>2. /\ is_busy'[q] = TRUE /\ \A p \in Pids : p # q => is_busy'[p] = is_busy[p]
      /\ mpc = "execute" /\ mpc' = "sending"
      /\ UNCHANGED <<line, drivers, tasks, done, main_pid, dpc>>
  BY <1>1 DEF SendTask, queue, driver, IInv, TypeOK
<1>3. \A p \in Pids : ~Pending(p) /\ (Pending(p)' <=> p = q) BY <1>1, <1>2 DEF Pending
<1>4. Job(q) = "free" /\ Job(q)' = "assigned" BY <1>1, <1>2, <1>3 DEF Job
<1>5. ASSUME NEW p \in Pids, p # q PROVE Job(p)' = Job(p)
  BY <1>2, <1>3, <1>5, SameStages, SameJob
<1>q. QED BY <1>4, <1>5 DEF Advances

\* The task goes from main's hands into the queue: assigned all the time.
LEMMA MsgsndJobs == ASSUME IInv, Msgsnd PROVE \A p \in Pids : Job(p)' = Job(p)
<1>1. mpc = "sending" /\ line.cmd = "send_task" /\ line \in Lines
  BY DEF Msgsnd, IInv, TypeOK
<1>2. PICK q \in Pids : q = line.pid /\ line.time \in Times BY <1>1, LineFields
<1>3. /\ tasks'[q] = Append(tasks[q], line.time) /\ mpc' = "poll"
      /\ \A p \in Pids : p # q => tasks'[p] = tasks[p]
      /\ UNCHANGED <<drivers, is_busy, done, main_pid, dpc>>
  BY <1>2 DEF Msgsnd, driver, table, IInv, TypeOK
<1>4. \A p \in Pids : ~Pending(p)' /\ (Pending(p) <=> p = q)
  BY <1>1, <1>2, <1>3 DEF Pending
<1>5. Sent(q)'
  <2>1. tasks[q] \in Seq(Times) BY DEF IInv, TypeOK
  <2>q. QED BY <1>2, <1>3, <2>1, SMTT(30) DEF Sent
<1>6. ASSUME NEW p \in Pids PROVE Job(p)' = Job(p)
  BY <1>1, <1>3, <1>4, <1>5, SameJob DEF Sent, Working, Finished
<1>q. QED BY <1>6

\* The head of main's completions is of a busy driver that has finished.
LEMMA ReleaseJob ==
  ASSUME IInv, UpdateStatus
  PROVE  \/ \E q \in Pids : Advances(q, "done", "free")
         \/ \A p \in Pids : Job(p)' = Job(p)
<1>1. main \in Mains /\ done[main] \in Seq(Pids) /\ done[main] # <<>> /\ mpc = "poll"
  BY DEF UpdateStatus, IInv, TypeOK
<1>2. PICK q \in Pids : q = Head(done[main]) BY <1>1, Leave
<1>3. /\ q = done[main][1] /\ 1 \in DOMAIN done[main]
      /\ \A i \in DOMAIN done[main] :
           i # 1 => /\ i - 1 \in DOMAIN Tail(done[main])
                    /\ Tail(done[main])[i - 1] = done[main][i]
      /\ \A i \in DOMAIN Tail(done[main]) :
           i + 1 \in DOMAIN done[main] /\ Tail(done[main])[i] = done[main][i + 1]
  <2>1. /\ q = done[main][1] /\ Len(done[main]) \in Nat \ {0}
        /\ Len(Tail(done[main])) = Len(done[main]) - 1
        /\ Tail(done[main]) \in Seq(Pids)
        /\ \A i \in 1 .. Len(done[main]) - 1 : Tail(done[main])[i] = done[main][i + 1]
    BY <1>1, <1>2, Leave
  <2>2. /\ DOMAIN done[main] = 1 .. Len(done[main])
        /\ DOMAIN Tail(done[main]) = 1 .. Len(done[main]) - 1
    BY <1>1, <2>1, LenProperties
  <2>q. QED BY <2>1, <2>2
<1>4. /\ mpc' = "select" /\ UNCHANGED <<drivers, tasks, main_pid, dpc>>
      /\ done'[main] = Tail(done[main]) /\ \A m \in Mains : m # main => done'[m] = done[m]
      /\ \A p \in Pids : p # q => is_busy'[p] = is_busy[p]
      /\ q \in drivers => is_busy'[q] = FALSE
  BY <1>1, <1>2 DEF UpdateStatus, driver, IInv, TypeOK
<1>5. \A p \in Pids : /\ ~Pending(p) /\ ~Pending(p)' /\ Sent(p)' = Sent(p)
                      /\ Working(p)' = Working(p)
  BY <1>1, <1>4 DEF Pending, Sent, Working
<1>6. main_pid[q] = main /\ Finished(q)
  BY <1>1, <1>3 DEF IInv, OneReport, Finished
<1>7. ASSUME NEW p \in Pids, p # q PROVE Job(p)' = Job(p)
  <2>1. Finished(p)' <=> Finished(p)
    <3>1. CASE main_pid[p] = main
      <4>1. main_pid'[p] = main /\ main' = main BY <1>4, <3>1 DEF UpdateStatus
      <4>2. (\E i \in DOMAIN done'[main] : done'[main][i] = p)
              <=> \E i \in DOMAIN done[main] : done[main][i] = p
        <5>1. ASSUME NEW i \in DOMAIN done[main], done[main][i] = p
              PROVE  \E j \in DOMAIN done'[main] : done'[main][j] = p
          <6>1. i # 1 BY <1>3, <1>7, <5>1
          <6>q. QED BY <1>3, <1>4, <5>1, <6>1, SMTT(30)
        <5>2. ASSUME NEW i \in DOMAIN done'[main], done'[main][i] = p
              PROVE  \E j \in DOMAIN done[main] : done[main][j] = p
          BY <1>3, <1>4, <5>2
        <5>q. QED BY <5>1, <5>2
      <4>q. QED BY <3>1, <4>1, <4>2 DEF Finished
    <3>2. CASE main_pid[p] # main
      <4>1. main_pid[p] \in Mains BY DEF IInv, TypeOK
      <4>q. QED BY <1>4, <3>2, <4>1 DEF Finished
    <3>q. QED BY <3>1, <3>2
  <2>q. QED BY <1>1, <1>4, <1>5, <1>7, <2>1, SameJob
<1>8. CASE q \in drivers
  <2>1. is_busy[q] /\ ~Sent(q) /\ ~Working(q) BY <1>6, <1>8 DEF IInv, OneTask
  <2>2. Job(q) = "done" /\ Job(q)' = "free" BY <1>1, <1>4, <1>5, <1>6, <1>8, <2>1 DEF Job
  <2>q. QED BY <1>7, <2>2 DEF Advances
<1>9. CASE q \notin drivers
  <2>1. Job(q)' = Job(q) BY <1>4, <1>9 DEF Job
  <2>q. QED BY <1>7, <2>1
<1>q. QED BY <1>8, <1>9

\* A task that takes time is begun; another is lost.
LEMMA StartJob ==
  ASSUME IInv, NEW q \in Pids, Receive(q)
  PROVE  \/ Advances(q, "assigned", "running") \/ Advances(q, "assigned", "lost")
         \/ \A p \in Pids : Job(p)' = Job(p)
<1>1. /\ UNCHANGED <<mpc, line, drivers, is_busy, done, main_pid>>
      /\ tasks'[q] = Tail(tasks[q]) /\ dpc[q] = "receive" /\ Sent(q)
      /\ \A p \in Pids : p # q => dpc'[p] = dpc[p] /\ tasks'[p] = tasks[p]
  BY DEF Receive, loop, table, Sent, IInv, TypeOK
<1>2. ~Pending(q) /\ ~Finished(q) /\ Len(tasks[q]) = 1 /\ ~(q \in drivers /\ ~is_busy[q])
  BY <1>1 DEF IInv, OneTask
<1>3. ~Sent(q)'
  <2>1. tasks[q] \in Seq(Times) /\ tasks[q] # <<>> BY <1>1 DEF IInv, TypeOK, Sent
  <2>2. Tail(tasks[q]) \in Seq(Times) /\ Len(Tail(tasks[q])) = 0 BY <1>2, <2>1, Leave
  <2>q. QED BY <1>1, <2>2, EmptySeq DEF Sent
<1>4. \A p \in Pids : Pending(p)' = Pending(p) /\ Finished(p)' = Finished(p)
  BY <1>1 DEF Pending, Finished
<1>5. ASSUME NEW p \in Pids, p # q PROVE Job(p)' = Job(p)
  BY <1>1, <1>4, <1>5, SameJob DEF Sent, Working
<1>6. CASE q \in drivers /\ mpc # "exited"
  <2>1. Job(q) = "assigned" BY <1>1, <1>2, <1>6 DEF Job
  <2>2. Job(q)' \in {"running", "lost"} BY <1>1, <1>2, <1>3, <1>4, <1>6 DEF Job
  <2>q. QED BY <1>5, <2>1, <2>2 DEF Advances
<1>7. CASE ~(q \in drivers /\ mpc # "exited")
  <2>1. Job(q)' = Job(q) BY <1>1, <1>7 DEF Job
  <2>q. QED BY <1>5, <2>1
<1>q. QED BY <1>6, <1>7

\* A driver works on, ends its work, or is killed with it.
LEMMA WorkJob ==
  ASSUME IInv, NEW q \in Pids, Tick(q) \/ Die(q)
  PROVE  Advances(q, "running", "lost") \/ \A p \in Pids : Job(p)' = Job(p)
<1>1. /\ UNCHANGED <<mpc, line, drivers, is_busy, tasks, done, main_pid>>
      /\ \A p \in Pids : p # q => dpc'[p] = dpc[p]
  BY DEF Tick, Die, loop, table, queue, IInv, TypeOK
<1>2. \A p \in Pids : /\ Pending(p)' = Pending(p) /\ Sent(p)' = Sent(p)
                      /\ Finished(p)' = Finished(p)
  BY <1>1 DEF Pending, Sent, Finished
<1>3. ASSUME NEW p \in Pids, p # q PROVE Job(p)' = Job(p)
  BY <1>1, <1>2, <1>3, SameJob DEF Working
<1>4. CASE Working(q)' <=> Working(q)
  BY <1>1, <1>2, <1>3, <1>4, SameJob
<1>5. CASE ~(Working(q)' <=> Working(q))
  <2>1. Working(q) /\ ~Working(q)' BY <1>5 DEF Tick, Die, Working, IInv, TypeOK
  <2>2. ~Pending(q) /\ ~Sent(q) /\ ~Finished(q) BY <2>1 DEF IInv, OneTask
  <2>3. CASE q \in drivers /\ mpc # "exited"
    <3>1. is_busy[q] BY <2>1, <2>3 DEF IInv, OneTask
    <3>2. Job(q) = "running" /\ Job(q)' = "lost" BY <1>1, <1>2, <2>1, <2>2, <2>3, <3>1 DEF Job
    <3>q. QED BY <1>3, <3>2 DEF Advances
  <2>4. CASE ~(q \in drivers /\ mpc # "exited")
    <3>1. Job(q)' = Job(q) BY <1>1, <2>4 DEF Job
    <3>q. QED BY <1>3, <3>1
  <2>q. QED BY <2>3, <2>4
<1>q. QED BY <1>4, <1>5

LEMMA FinishJob ==
  ASSUME IInv, NEW q \in Pids, Complete(q)
  PROVE  Advances(q, "running", "done") \/ \A p \in Pids : Job(p)' = Job(p)
<1>1. /\ UNCHANGED <<mpc, line, drivers, is_busy, tasks, main_pid>>
      /\ dpc[q] = "report" /\ dpc'[q] = "receive"
      /\ \A p \in Pids : p # q => dpc'[p] = dpc[p]
  BY DEF Complete, loop, table, IInv, TypeOK
<1>2. PICK b \in Mains : b = main_pid[q] BY DEF IInv, TypeOK
<1>3. /\ done[b] \in Seq(Pids) /\ \A m \in Mains : m # b => done'[m] = done[m]
      /\ done'[b] = IF mpc = "exited" THEN done[b] ELSE Append(done[b], q)
  BY <1>2 DEF Complete, IInv, TypeOK
<1>4. /\ Working(q) /\ ~Working(q)' /\ ~Pending(q) /\ ~Sent(q) /\ ~Finished(q)
      /\ ~(q \in drivers /\ ~is_busy[q])
  BY <1>1 DEF Working, IInv, OneTask
<1>5. \A p \in Pids : Pending(p)' = Pending(p) /\ Sent(p)' = Sent(p)
  BY <1>1 DEF Pending, Sent
<1>6. /\ DOMAIN done[b] = 1 .. Len(done[b]) /\ Len(done[b]) \in Nat
      /\ mpc # "exited" =>
           /\ DOMAIN done'[b] = 1 .. Len(done[b]) + 1
           /\ done'[b][Len(done[b]) + 1] = q
           /\ \A i \in 1 .. Len(done[b]) : done'[b][i] = done[b][i]
  BY <1>3, LenProperties, AppendProperties
<1>7. ASSUME NEW p \in Pids, p # q PROVE Job(p)' = Job(p)
  <2>1. Finished(p)' <=> Finished(p)
    <3>1. CASE main_pid[p] = b
      <4>1. main_pid'[p] = b BY <1>1, <3>1
      <4>2. (\E i \in DOMAIN done'[b] : done'[b][i] = p) <=> \E i \in DOMAIN done[b] : done[b][i] = p
        BY <1>3, <1>6, <1>7
      <4>q. QED BY <3>1, <4>1, <4>2 DEF Finished
    <3>2. CASE main_pid[p] # b
      <4>1. main_pid[p] \in Mains BY DEF IInv, TypeOK
      <4>q. QED BY <1>1, <1>3, <3>2, <4>1 DEF Finished
    <3>q. QED BY <3>1, <3>2
  <2>q. QED BY <1>1, <1>5, <1>7, <2>1, SameJob DEF Working
<1>8. CASE q \in drivers /\ mpc # "exited"
  <2>1. Finished(q)' BY <1>1, <1>2, <1>6, <1>8 DEF Finished
  <2>2. Job(q) = "running" /\ Job(q)' = "done" BY <1>1, <1>4, <1>5, <1>8, <2>1 DEF Job
  <2>q. QED BY <1>7, <2>2 DEF Advances
<1>9. CASE ~(q \in drivers /\ mpc # "exited")
  <2>1. Job(q)' = Job(q) BY <1>1, <1>9 DEF Job
  <2>q. QED BY <1>7, <2>1
<1>q. QED BY <1>8, <1>9

LEMMA DispatchStep == ASSUME IInv, [Next]_vars PROVE [Promise!Next]_Jobs
<1> DEFINE Stays == \A p \in Pids : Job(p)' = Job(p)
<1>0. Stays => UNCHANGED Jobs BY DEF Jobs
<1>1. CASE Timeout \/ ReadEof \/ Report \/ CreateFails \/ SendRefused \/ NothingNew
  <2>1. Stays
    BY <1>1, QuietJobs DEF Timeout, ReadEof, Report, CreateFails, SendRefused, NothingNew
  <2>q. QED BY <1>0, <2>1
<1>2. ASSUME NEW l \in Lines, Read(l) PROVE [Promise!Next]_Jobs
  <2>1. Stays BY <1>2, QuietJobs DEF Read
  <2>q. QED BY <1>0, <2>1
<1>3. ASSUME NEW q \in Pids, CreateDriver(q) PROVE [Promise!Next]_Jobs
  BY <1>3, HireJob, MoveJob DEF Promise!Next, Promise!Hire
<1>4. CASE SendTask
  BY <1>4, AssignJob, MoveJob DEF Promise!Next, Promise!Assign
<1>5. CASE Msgsnd
  BY <1>0, <1>5, MsgsndJobs
<1>6. CASE UpdateStatus
  BY <1>0, <1>6, ReleaseJob, MoveJob DEF Promise!Next, Promise!Release
<1>7. ASSUME NEW q \in Pids, Receive(q) PROVE [Promise!Next]_Jobs
  BY <1>0, <1>7, StartJob, MoveJob DEF Promise!Next, Promise!Start, Promise!Lose
<1>8. ASSUME NEW q \in Pids, Tick(q) \/ Die(q) PROVE [Promise!Next]_Jobs
  BY <1>0, <1>8, WorkJob, MoveJob DEF Promise!Next, Promise!Lose
<1>9. ASSUME NEW q \in Pids, Complete(q) PROVE [Promise!Next]_Jobs
  BY <1>0, <1>9, FinishJob, MoveJob DEF Promise!Next, Promise!Finish
<1>10. CASE Exit \/ Crash
  <2>1. \A p \in Pids : Job(p)' = "none" BY <1>10 DEF Exit, Crash, Job
  <2>q. QED BY <2>1, NoneLeft DEF Promise!Next
<1>11. ASSUME NEW m \in Mains, Restart(m) PROVE [Promise!Next]_Jobs
  <2>1. drivers = {} /\ drivers' = {} BY <1>11 DEF Restart, table, IInv, Registered
  <2>2. Stays BY <2>1 DEF Job
  <2>q. QED BY <1>0, <2>2
<1>12. CASE UNCHANGED vars
  <2>1. Stays
    BY <1>12 DEF vars, loop, table, queue, driver, Job, Pending, Sent, Working, Finished
  <2>q. QED BY <1>0, <2>1
<1>q. QED
  BY <1>1, <1>2, <1>3, <1>4, <1>5, <1>6, <1>7, <1>8, <1>9, <1>10, <1>11, <1>12
  DEF Next, MainStep, DriverStep

(* What main's table says of a driver and where its task is keeps the promise of
   Dispatch: tasks go to free drivers only, and a driver is free again only after its
   task has come back done (taxi_system.c:95-117, 138-150). *)
THEOREM ImplementsDispatchCorrect == Spec => ImplementsDispatch
<1>1. Init => Promise!Init BY DEF Init, Promise!Init, Job
<1>2. IInv /\ [Next]_vars => [Promise!Next]_Jobs BY DispatchStep
<1>q. QED BY <1>1, <1>2, InvInit, InvStep, PTL DEF Spec, ImplementsDispatch, Promise!Spec, Jobs
================================================================================
