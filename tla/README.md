# Verification of the course programs

The repository is a collection of programs written for a course on C for
embedded Linux: servers on sockets, chats on message queues and shared memory,
process managers, shells, a file manager, directories of subscribers and small
algorithms. There is no common library: every directory is a system of its own.
This project models the ones in which several threads, processes or machines
share state, and the data structures that live through many calls.

Everything is translated from the C source named in the `map` of `PROJECT.json`.
Printing, prompts, the set-up of sockets and the characters of texts are left
out unless a property is about them.

## 1. The parts of the repository

### Modelled

**Producer_Consumer time server** (`Sockets/Task_2/Producer_Consumer/server.c`).
State: the ring `queue/front/back/count`, one mutex, one condition variable, and
in the kernel the descriptors and the connections behind them. `main` accepts
and enqueues, or closes a connection that finds the ring full; ten workers
dequeue, send the time, close. SIGINT ends the process. *Hard:* a worker woken
for a descriptor that another one took, one signal per put, spurious wakeups, a
descriptor number that `accept()` gives out again as soon as it is closed.
*Correct when:* an open connection is held in exactly one place, none waits
while every worker sleeps, each client is answered or refused once and in order.

**Pull_Threads time server** (`Sockets/Task_2/Pull_Threads/server.c`). State:
`idx_threads` (idle marks), `count`, the single `fd_socket`, a condition variable
per worker. `main` marks the first idle worker, leaves the descriptor in
`fd_socket` and signals. *Hard:* whoever finds `count` above zero takes what is
in `fd_socket`, announced for it or not. *Correct when:* clients that come one at
a time are all served and the marks balance; a client is refused only when all
are busy, which does not hold (section 5).

**Taxi manager** (`Final_Task2/taxi_system.c`). A command loop (`select`, a line,
one look at the queue), a table `drivers[]`, forked driver processes, one System V
queue for both directions: a task's type is the pid of the driver, a
completion's the pid of `main`. *Hard:* the queue that a killed `main` leaves is
opened by the next; `msgsnd()` blocks on a full queue; completions are read one
per turn; at end of input the last line is executed again. *Correct when:* a
driver has at most one task, in one place, and is free in the table only when it
has none.

**Queue_message/Message chat** (`server.c`, `client.c`, `library.c`). Two System V
queues; the server keeps a list of clients and a store of lines, and answers
each request with a burst; every client keeps a copy of the list. *Hard:* the old
lines come to a newcomer by replay and the new ones by broadcast; the copies are
edited by messages far behind the server; messages for clients that are gone
fill the queue. *Correct when:* each window shows the store's lines from the
first on, each copy becomes the server's list.

**Shared_Memory/Message chat** (`server.c`, `client.c`, `library.c`). One segment with
a slot for requests (`mutex1`, announced by `sem_server`) and one for what the
server says (`mutex2`); the server posts `sem_client` once per listed client and
collects as many posts of `sem_server2` before it writes again. *Hard:* tokens are
anonymous, so a fast reader takes a slow one's; a request overwrites one that is
unread and is then served twice; a `return` keeps `mutex1`; a cancelled reader
keeps its token, or `mutex2`. *Correct when:* tokens are conserved, nothing asked
for is missed unless it was overwritten, the server is never ahead of its readers
while only listed clients have brought tokens.

**Raw UDP echo** (`Final_Task1`). The server numbers the messages of each
address; CLOSE removes an address from the table. *Hard:* lost datagrams (a CLOSE
among them), two clients on one port, a restarted server, entries that move up.
*Correct when:* the table is one counter per address.

**Subscriber directory**, as an array (`Subscriber_directory`) and as a doubly
linked list (`Subscriber_directory_v.2.0`). *Hard:* closing the holes of any
pattern of deletions with two indices, entries with blank fields, names of ten
characters; the four cases of unlinking inside one walk. *Correct when:* both are
the same list of people.

**The shell with pipes** (`Channels/Bash_with_pipe/main.c`). It makes all the pipes of
a line, forks a child per command, closes its own ends, waits as often as it has
forked. *Hard:* every process holds every end for a while, and a reader sees the end
of file only when the last copy of the writing end is closed; children run in any
order; `fork()` fails half way; at the end of the input the loop runs the first word
of the last line again, for ever. *Correct when:* each line ends, with all its output
shown and every end closed.

**Listening_Server** (`Sockets/Task_2/Listening_Server/server.c`). A thread per
connection, which gets the descriptor in a `calloc`ed cell. *Hard:* the thread starts
any time later; descriptors or threads run out and a failed `accept()` is not noticed.
*Correct when:* each open descriptor has one owner and each connection is answered
once or closed.

**Multiplexing_IN_OUT** (`server.c`, `client_udp.c`). One `select()` loop for
connections and datagrams. *Hard:* one thread must neither block on one socket nor
starve the other. *Correct when:* whoever waits in a queue is served.

**Shops** (`Threads/main.c`). Customers empty shops, a supplier fills them, a mutex per
shop. *Hard:* purchases and deliveries are several steps. *Correct when:* goods are
neither sold twice nor lost.

**Two programs over one queue** (`Queue_message/Posix`, `System_V`). A server sends a
line and receives one, a client receives one and sends one, through one queue with one
priority or type. *Hard:* the server may receive the line it has just sent; what a killed
program leaves in a Posix queue is there for the next; the System V server removes the
queue under a waiting client. *Correct when:* every line is accounted for and nobody
waits for one that will not come.

**Two programs over one segment** (`Shared_Memory/Home_Work_1`, Posix and System V). Two
semaphores, a text, no result looked at. *Hard:* semaphores a killed server has left, with
their values; a client that comes before the segment. *Correct when:* a server reads the
client's answer and not its own text.

**One-shot exchanges** (`Sockets/Task_1`, four kinds of sockets; `Sockets/Task_4`, a client
that builds its packets; `Sockets/Task_3`, broadcast and multicast). *Hard:* names that
stay behind, a `bind()` nobody looks at, a raw socket that sees everybody's packets, lost
packets, a receiver that comes in the middle. *Correct when:* a client prints the
server's answer or learns of its end, and a receiver that enough is sent to ends.

**Families of processes** (`Processes/First_Task`, `Second_Task`, `Bash`; `Channels/First_Task`,
`Second_Task`). Scripts of `fork`, `wait`, `waitpid`, `open`, `write`, `read`. *Hard:*
children end in any order, a `wait()` for any child may take the end a `waitpid()` is
for; a reader or writer that is gone. *Correct when:* each child is waited for and each
program ends.

**Midnight_Commander** (`header.c`, `tui/*.c`). Two panels: a path with its buffer, the
sorted entries, a cursor. *Hard:* a bubble sort whose comparison skips entries `stat()`
fails on; entry 0 taken for `.`; an entry of unknown status looks like a directory; a
path that grows for ever. *Correct when:* both panels are in order, the first row is the
way up, cursor and path stay in their arrays.

**Calculator_v3** (`main.c`, `header.c`). A list of loaded plugins. *Hard:* one that does
not load, or lacks its function, leaves a slot half filled. *Correct when:* what is
counted can be called.

**Algorithms** (`Home_Work_1`, `2`, `3`, the checksum of `Sockets/Task_4`). Pure functions.
*Hard:* wrapping arithmetic, off-by-ones, a carry of a carry.

### Not modelled

| part | why |
|---|---|
| socket clients of `Sockets/Task_2` | `connect`, one `recv`, a line printed: they are the environment of the server modules |
| `Signals` | loops around one call of the kernel, without state of their own |
| `Calculator_v1`, `Calculator_v2` | a menu over four functions of one line |
| `Home_Work_9`, `Vzlom_program` | a file written and read back; a password prompt |
| screens (`ncurses`), printing, dates and sizes of files | no property is about them |
| the interrupted servers of the two chats | their clients go on with a queue or segment that is gone and repeat the last message for ever; nothing in the code or its texts says what they should show |

## 2. The modules

| module | kind | models |
|---|---|---|
| `TimeService` | abstract | a bounded line of clients served in order |
| `ProducerConsumer` | detailed, implements `TimeService` | the ring, the mutex, the workers |
| `ProducerConsumerProofs` | proofs | about `ProducerConsumer` |
| `PullThreads` | detailed | the hand-over through `fd_socket` |
| `Dispatch` | abstract | one driver is free or has one task |
| `Taxi` | detailed, implements `Dispatch` | the manager, its drivers and their queue |
| `TaxiProofs` | proofs | about `Taxi` |
| `ChatRoom` | abstract | one order of lines for everybody |
| `ChatQueue` | detailed, implements `ChatRoom` | the server, its queues, the clients' two threads |
| `ChatQueueProofs` | proofs | about `ChatQueue` |
| `ChatShm` | detailed | the two slots, the semaphores, the server, the clients' two threads |
| `ChatShmProofs` | proofs | about `ChatShm` |
| `EchoCounters` | abstract | one counter per address |
| `RawEcho` | detailed, implements `EchoCounters` | the table, the sockets, the clients |
| `Directory` | abstract | a list of people |
| `DirectoryArray`, `DirectoryList` | detailed, implement `Directory` | the two versions |
| `Directories` | composition | the user's choice of one of the two programs |
| `DirectoriesProofs` | proofs | about both versions |
| `Filters` | operator | the members of a sequence that are in a set |
| `DataLemmas` | lemmas | about filtered sequences, and sums over finite sets |
| `QueueTurns`, `SegmentTurns` | detailed | two programs over a queue, over a segment |
| `Exchanges`, `Casting` | detailed | one request and its answer over sockets; one sender to many |
| `Family` | detailed | scripts of processes that fork and wait |
| `Commander` | detailed | the two panels of the file manager |
| `Plugins` | detailed | the list of loaded plugins |
| `Algorithms` | operators, and a step per call | the small computations |
| `Tables` | composition | one of: `RawEcho`, `PullThreads`, `Commander`, `Plugins`, `Shops`, `Algorithms` |
| `TablesProofs` | proofs | about `RawEcho`, `PullThreads`, `Commander`, `Plugins`, `Shops` and `Algorithms` |
| `Pipeline` | detailed | the shell, its children, their descriptors and the pipes |
| `ListeningServer`, `Multiplexing` | detailed | a thread per connection; `select()` over two sockets |
| `Shops` | detailed | customers, supplier, mutexes |
| `SmallPrograms` | composition | one of: `Pipeline`, `ListeningServer`, `Multiplexing`, `QueueTurns`, `SegmentTurns`, `Exchanges`, `Casting`, `Family` |
| `SmallProgramsProofs` | proofs | about `Pipeline`, `ListeningServer`, `Multiplexing`, `QueueTurns`, `SegmentTurns`, `Exchanges`, `Family` |
| `MC...` | | small sets and symmetries for TLC |

The programs that `Tables` and `SmallPrograms` put together have nothing to do with one
another. The first step picks one, and the rest of the behaviour is its own: a state of
the composition is a state of one program, and no interleaving between programs is
explored.

### How state and actions correspond to the code

*ProducerConsumer.* `pc[t]` is the next thing thread `t` does. Locking and
unlocking are steps of their own, and so are the test of the ring and the change
it leads to (`EnqueueFull`/`EnqueueRoom`, then `EnqueuePut`; `Test`, then
`Dequeue`), so that what was tested can go stale if the mutex does not protect it.
`pthread_cond_wait` releases the mutex and sleeps in one step (`Wait`); a sleeper
comes back by a signal or spuriously, takes the mutex again and repeats the test.
`conn` maps a descriptor to its connection; `Close` frees the number and `Accept`
may take it at once.

*PullThreads.* Nothing blocks inside a critical section there, so each is one step:
`Mark` or `Refuse`, `Wait` or `Take`, `Done`. The signal is sent after the unlock
and is its own step. `count` is followed below zero, where the code lets it go,
down to `MaxBelow`.

*Taxi.* `mpc` is where the loop is: `select`, `execute` (a line read), `sending`
(the table marked, `msgsnd` not done), `poll` (one `msgrcv` without waiting). A
driver receives, counts its seconds (`Tick`), reports. `Crash` kills `main`: the
table goes, drivers and queue stay; `Restart` is the next `main` on that queue.

*ChatQueue.* One request taken from the first queue (`Taken`) yields the whole
burst `out`; each `msgsnd` of it is a step (`ServerSend`) that waits for room. The
client's two threads are `Join/Say/Leave/Cancel` and `Read...`. A client that is
announced beyond the `SIZE_CLIENTS` entries of another's array writes past it:
that client goes on or dies (`ReadNewOverrun`).

*ChatShm.* A client's request is three steps (`Join`, `Token`, `Post`) or two, the
server's turn is `TakeRequest`, `Copy`, a handler, and for each message of `out`
the tokens one by one (`Gather`) and the slot (`Put`, which posts as many). A reader
takes a token, reads under `mutex2`, unlocks, shows. `muddled` records that a request
was written over an unread one; `size` is kept apart from the list because a doubled
leave makes it negative.

*RawEcho.* Taking a datagram, finding or adding the address and answering is one
step of the single-threaded server. A datagram that finds a socket full is lost.

*Pipeline.* `fds[p]` are the ends a process holds in its copy of `pipes[][]`, `in` and `out`
what `dup2` laid over its input and output; an end is open while anybody holds it in
either way. `Run` reads and splits a line and makes the pipes, which nobody else sees
yet; then each fork, the shell's `Close`, each `Wait`, each child's `Redirect` and
`Exec` are steps. What a command does with its input is one of four kinds.

*ListeningServer.* `cell[t]` is the int main hands to a thread, `client_fd[t]` the
thread's copy. `AcceptFails` is the descriptor -1, which the thread sends to and closes
without effect. *Multiplexing.* One step per `select()` and per client served.
*Shops.* Choosing, locking, the two halves of a purchase and of a delivery, and
unlocking are steps.

*DirectoryArray, DirectoryList.* Calls are sequential; insertions are one step,
and a deletion is one step per turn of its loop, so that the properties are
checked in the middle of it too.

*QueueTurns.* `at[p]` is the call a program makes next, `open[p]` whether its identifier
still leads to a queue: `Remove` closes it under everybody, after which `Fail` is what
`msgrcv` and `msgsnd` do. A program may be killed and started again; `spare` counts what
that leaves in the queue or takes along. `Typed` is the call that follows a prompt, `Step` what a program
does by itself. *SegmentTurns.* Segments and pairs of semaphores
are numbered objects behind a name, so that who has opened an old one keeps it; each call
is a step. `trusted` says that nothing a killed process left, and no client that came too
early, disturbs the running server.

*Exchanges.* `kind` picks the sockets. The server's steps are `StartServer` (with its
`bind`), `Take`, `AnswerRequest`, `CloseServer`, `Unlink`; a client's are `StartClient`,
`Send` (with the `connect` before it), `Receive`, `CloseClient`. A local stream server whose client
was killed is ended by SIGPIPE at its `write` (`AnswerBroken`), before it unlinks its name. `Put` says whom a packet
reaches: for the raw pair every raw socket of the host, the sender's own included, and
`Wanted` is the test of the port. *Casting.* One step per datagram sent or taken.
*Family.* Each program is a script of calls per process; `parent` and `state` are the
kernel's table of processes, in which an ended child is a zombie until it is waited for.

*Commander.* `Scan` reads one panel: the entries in any order, then `sortList`, which is
the code's two loops as two folds, one inside the other (`Turn` is the inner loop). An entry is its name, the place
of the name in the alphabet, its length and kind. `Enter` is the whole handler: the path
grown, both lists freed, both panels read again. *Plugins.* `LoadNext` is one turn of the
loop over the directory, `Put` the slot it writes. *Algorithms.* A step is one call on one
input, each loop a fold with a named step (`Shifted`, `Exchanged`, `SnailStep`, `CarryAdded`,
`Added`); `ComputedRight` compares the result with a definition of what the function is for.

## 3. What is checked

A module's type invariant is the first conjunct of one of its safety properties
(`RingSound`, `ShownTimer`, `CountedAreMarked`, `ChatIsStore`, `LinesBalance`, ...): types alone would
say little.

| run | shows | bounds |
|---|---|---|
| `pc_all` | `CheckedHolds`: what a thread tested still holds when it acts; `RingSound`: indices, count and contents agree; `HeldOnce`: no descriptor leaked, closed twice, or used after reuse; `NoLostWakeup`; `AnsweredOnce`; implements `TimeService`; `EveryoneAnswered` | 2 workers, ring of 2, 3 clients, 3 descriptors, 1 spurious wakeup |
| `tables_all` | `RawEcho`: `AnswersInOrder`, implements `EchoCounters`; `PullThreads`: `CountedAreMarked` whoever comes when, `RestIsClean` while clients come one at a time; `Commander`: `PanelsSound`; `Plugins`: `SlotsAreGood`; `Shops`: `Conserved`; `Algorithms`: `ComputedRight` | echo: 3 clients on 2 ports, 3 lines, 1 restart, sockets of 2; pool: 2 workers, 3 clients, 3 descriptors, 1 spurious wakeup; panels: 3 small file trees, 2 directories entered, a buffer of 6; 5 plugins, 2 slots at first; 2 customers, 2 shops, 3 loads; words of 3 bits, arrays of 3, strings of 3, snails up to 6 by 6 |
| `pull_refused` | a violation, section 5 | 2 workers, 4 clients, 3 descriptors, no spurious wakeup |
| `taxi_all` | `OneTask`, `OneReport`, `ShownTimer`, `QueueBounded`; implements `Dispatch`; `TaskCompletes` | 2 drivers, 2 lives of main, tasks of 0 and 2 seconds, queue of 3 |
| `chat_full` | `ChatIsStore`; `RosterAgrees`; implements `ChatRoom` | 3 clients for 2 entries, queue of 2, 2 lines |
| `chat_shown` | `EverythingShown` | 3 clients, queue of 1, 2 lines |
| `shm_all` | `TokensConserved`, `OneByOne`, `ServerCanGather`, `NeverBackwards`, `ReadBeforeOverwritten` | 2 clients, list of 2, 2 lines |
| `directories_all` | `LeftIsHole`, `ListWellLinked`; both versions implement `Directory` | array of 5 entries, list of a limit of 4, 3 names |
| `array_full`, `array_found` | violations, section 5 | the same |
| `small_all` | `LineAnswered`: a shell line's output is all shown; `ServersHold`: a descriptor has one owner, `select()` blocks on neither socket; `ClosedAnswered`; `TurnsTaken`: queue, segment and sockets are accounted for through kills and restarts; `ChildrenReaped`; `WaitsEnd`: every wait the other side could end ends | lines of up to 4 commands, pipes of 1 item, 3 items of output; 3 clients for 2 descriptors and 2 threads; 2 clients of each kind for `select()`, who come again and again; each program of a pair started twice, 1 killed, 1 packet lost; 2 askers; 2 receivers of 2 datagrams; 5 forks, 1 process killed |
| `substring_found` | a violation, section 5 | strings of 3 |

Why the bounds are enough to be interesting: with two workers one can take what
the other was woken for; a ring of two wraps, fills, and refuses a client that
comes while two wait, and descriptors are reused; two drivers with a queue of
three leave it room to hold a message too many; a list of two entries with three clients
turns one away; a chat queue of one or two messages blocks the server in the
middle of every burst; over the segment two readers are enough to take each
other's tokens, and a doubled request to fill a list of two; five entries give
every pattern of holes that two indices treat differently (before, between, after,
adjacent); four commands put two filters between a producer that fills its pipe and a
reader that may end first; two descriptors for three clients make `accept()` fail. Two
starts and one kill let a program find what its predecessor left (a line, a semaphore's
value, a name); two clients of one name, or with raw sockets on one port, meet each
other's packets; two datagrams let a receiver come between them. Five forks make the whole
tree of `Processes/Second_Task`. The file trees hold a broken link, a name that sorts before
`.` and a name that is longer than the others, and a buffer of six is outgrown by two directories; five
plugins pass two slots twice, with a bad one at every place. Words of three bits wrap, and
the sum of four of them needs its carries folded twice.

`CHECK_DEADLOCK FALSE` is set where the system stops by itself: after SIGINT, or
when the bounded supply of clients, lines or commands is used up, or, in the
chat, when the queue is full of messages for clients that are gone. The
directories are checked for deadlock.

### Fairness

`WF` of each thread's or process's own steps: the scheduler runs whatever can
run. Clients, users, kills, crashes and signals are never required to happen.

- *ProducerConsumer*: weak fairness per thread is enough because the supply of
  clients is finite; with clients for ever, a worker that competes for the mutex
  would need the mutex to be fair, which pthreads do not promise.
- *PullThreads* has no liveness property: in the unrestricted system clients do
  get lost. `disturbed` records that a client came before the server was at rest,
  or that a worker woke spuriously; until then `RestIsClean` says that whenever
  everything sleeps everybody was served.
- *Taxi*: a task completes provided neither its driver nor `main` is killed.
- *Pipeline, ListeningServer, Multiplexing*: each process or thread. The clients of the
  two servers come again for ever; each wait queue is first in, first out, so weak
  fairness is enough. Nobody has to type a line. *Shops* has no liveness property: which
  shop a customer enters is `rand()`'s choice, and no fairness of it is assumed.
- *QueueTurns, SegmentTurns, Exchanges, Casting, Family*: each process, with its blocking
  calls enabled only when they can return. Starts, kills, losses of packets and what is
  typed at a prompt are never required: in *QueueTurns* the sends, which follow a prompt
  (`Typed`), are not among the fair steps. What `WaitsEnd` says of them is only what the
  other side can bring about: a datagram client has to have been heard, and a client of a
  queue may count on the server only once the server's user has typed the line, or when
  the queue is gone.
- The parts of `Tables` have no liveness property: they are sequential, or nothing in the
  code brings about what a caller waits for (a lost datagram is not sent again).
- *ChatQueue*: `StaySpec` leaves out clients that leave or die: one unread message
  of theirs can keep a full queue full.

### Environment assumptions

- SIGINT's handler runs to the end of the process in one step.
- Pids are not used again while the manager lives: it never waits for its
  children, so their entries remain. A new `main` is started only after the old
  one is gone.
- The taxi queue has room for more messages than there are drivers (`QueueCap`), as
  under the default System V limit; `QueueBounded` shows that `msgsnd()` then never
  blocks the command loop.
- A chat client that was turned away may type lines but not `exit`; names fit
  their 20 bytes and lines the 256 of a message.
- Chat clients over the segment are not killed, and the server is not interrupted.
- In a line of the shell each `|` stands alone between two commands: the code counts
  the signs one way and splits the words another, and with `a|b` or a last `|` the two
  disagree. The first command does not read the terminal; a first line was read before
  the input ends.
- `select()` reports a datagram only when `recvfrom()` will return one, as Linux does
  for blocking sockets (it checks the checksum first).
- The two semaphores of `Shared_Memory/Home_Work_1` are created and unlinked together; a
  `connect()` and the `send()` after it are one step, and so are the reading and the sorting
  of one panel. The bodies of `Send` and `Receive` in `Casting` and `Exchanges` are one
  packet each.
- The file manager starts in the root of its file trees, whose `..` leads to itself.
- Where only the width of a word matters it is scaled down to `Width` bits; strings and
  arrays are as long as the configuration says.
- Echo addresses are fewer than `MAX_CLIENTS`, drivers fewer than `MAX_DRIVERS`.
- The directory's user keeps to the ten characters the prompts ask for.

## 4. What is proved

With TLAPS, for every value of the constants (any number of workers, clients,
descriptors, drivers; any ring or queue size):

| theorem | says |
|---|---|
| `ProducerConsumerProofs!TypeCorrect` | types, ring indices in range, and `CheckedHolds` |
| `ProducerConsumerProofs!HeldOnceCorrect` | each open connection is held in exactly one place |
| `ProducerConsumerProofs!NoLostWakeupCorrect` | no descriptor waits while every worker sleeps |
| `ProducerConsumerProofs!RingSoundCorrect` | the ring's indices, count and contents agree, with all types |
| `ProducerConsumerProofs!AnsweredOnceCorrect` | an answer never changes and no undecided client is hung up on |
| `ProducerConsumerProofs!ImplementsServiceCorrect` | ring, mutex and workers implement `TimeService` |
| `TaxiProofs!TypeCorrect` | types |
| `TaxiProofs!OneTaskCorrect` | a driver has at most one task, in one place, and none when shown free |
| `TaxiProofs!OneReportCorrect` | a completion is in the queue once, for the main that forked the driver |
| `TaxiProofs!ShownTimerCorrect` | the time shown for a busy driver is that of the task it has |
| `TaxiProofs!QueueBoundedCorrect` | the queue never holds more than one message per driver, so `msgsnd()` does not block the command loop |
| `TaxiProofs!ImplementsDispatchCorrect` | table, queue and drivers implement `Dispatch` |
| `ChatQueueProofs!ChatIsStoreCorrect` | a listed client's window, with the lines on their way to it, is the server's store, whoever joins, leaves or is killed |
| `ChatQueueProofs!RosterAgreesCorrect` | as long as nobody was turned away, what is on its way to a listed client makes its own list the server's |
| `ChatQueueProofs!NoOverrunCorrect` | and no listed client writes past the end of that list |
| `ChatQueueProofs!ImplementsRoomCorrect` | the two queues, the bursts and the replay implement `ChatRoom` |
| `ChatShmProofs!TokensConservedCorrect` | tokens are conserved, but for those lost with a cancelled reader |
| `ChatShmProofs!OneByOneCorrect` | until a request is overwritten or `mutex1` is kept, nothing asked for is missed or done twice, and lines are stored in the order they were typed |
| `ChatShmProofs!ServerCanGatherCorrect` | then the server waits for no more tokens than there are, but for lost ones |
| `ChatShmProofs!NeverBackwardsCorrect` | no window shows a line after a later one, whoever takes whose token |
| `ChatShmProofs!ReadBeforeOverwrittenCorrect` | while only listed clients have brought tokens the server does not overtake its readers |
| `DirectoriesProofs!LeftIsHoleCorrect` | the entry that the array's compaction fills next is blank |
| `DirectoriesProofs!ImplementsDirectoryCorrect` | the array implements `Directory` |
| `DirectoriesProofs!ListWellLinkedCorrect` | the linked list is well formed at every step of a deletion |
| `DirectoriesProofs!ListImplementsDirectoryCorrect` | the linked list implements `Directory` |
| `TablesProofs!AnswersInOrderCorrect` | an echo client alone on its port reads its answers in the order of its lines, and never a number larger than that of the line |
| `TablesProofs!ImplementsCountersCorrect` | the echo server's table implements `EchoCounters` |
| `TablesProofs!CountedAreMarkedCorrect` | the pool's `count` never exceeds the workers marked busy, whoever comes when |
| `TablesProofs!RestIsCleanCorrect` | while clients come one at a time, a pool at rest has answered everybody and cleared every mark |
| `TablesProofs!PanelsSoundCorrect` | whatever order the directories are read in, the panels are sorted, the cursor is on a row and the paths in their buffers |
| `TablesProofs!SlotsAreGoodCorrect` | the calculator counts the plugins that loaded and no other, and its list has room for the next |
| `TablesProofs!ConservedCorrect` | the shops sell nothing twice and lose nothing |
| `TablesProofs!ComputedRightCorrect` | for words of any width, and any numbers, arrays, strings, headers and sizes, each computation returns what it is for |
| `SmallProgramsProofs!TurnsTakenCorrect` | queue, segment and sockets are accounted for through kills and restarts: the queue's lines balance, a trusted server of the segment reads the answer and not its own text, a socket's client prints the server's answer and learns of an end only when the server ended unheard |
| `SmallProgramsProofs!ServersHoldCorrect` | an open descriptor has one owner, and the `select()` server goes to a socket only when somebody waits there |
| `SmallProgramsProofs!ClosedAnsweredCorrect` | no step closes an unanswered connection, but for one that got no thread |
| `SmallProgramsProofs!LineAnsweredCorrect` | at the prompt, the last command of a shell line has shown what the whole line makes of its input, no child is left and no end of a pipe is open |
| `SmallProgramsProofs!ChildrenReapedCorrect` | a process that has ended left no child unwaited for, but for failed forks and signals |

*ProducerConsumer.* `TypeOK /\ CheckedHolds` is inductive: `TypeOK` alone is not,
since that `count` stays within the ring rests on the test made under the mutex
still holding at the put or take. `HeldOnce` follows on top of it: every place
that can hold a descriptor (ring slot, worker, main) holds an open connection,
two different places hold different descriptors and nothing is open that no place
holds; the slots between `front` and `back` are followed round the wrap by the
lemma `Advance`, and `RingSound` comes with it. `NoLostWakeup` needs the count of workers that are awake and
will test the ring again; `AnsweredOnce` is an action property from `HeldOnce`.

*Taxi.* `IInv` adds `Registered` to `OneTask` and `OneReport`: the table lists only
drivers of the running `main`, a pending `msgsnd` is for a listed, busy driver,
and a pid that was not forked has left no trace in the queue. Without the last,
a fork after a crash could find an old message; without the first, a completion
could free the driver of another `main`. There is a lemma per action.

`ShownTimer` rests on `Timers`, which follows the time from the command line over the pending
`msgsnd`, the queue and the driver's own counter; that an entry of the table and the message
belong to the same task is `OneTask`, so `Timers` is proved relative to `IInv`.

`QueueBounded` maps every message in the queue to the driver it is for or from (`About`):
`OneTask` and `OneReport` make that an injection into the drivers ever forked, which are
finitely many. `Dispatch` sees of a driver only the place its task is in; each action moves one
driver from one place to another or none, which is one lemma per action.

*TimeService.* Place `i` of the line is slot `(front + i - 1) % MaxQueue` of the ring: a put adds the place after
the last, a take makes every place the one before. A client leaves the service only
when it is decided, and no connection is hung up on before (`Account`, `Settled`); these are proved along with the mapping.

*ChatQueue.* `ChatIsStore` is about the clients listed, and is not inductive: a client becomes
listed, and then has to have been told nothing. `IInv` adds `Newcomers` (a client whose request the
server has not read has shown nothing, has nothing on its way, is not listed, and has asked once),
that no client is listed twice, and `Windows`, which says of every client that its window is a
prefix of the store. Each request has a lemma that says what part of the server's burst goes to
whom, since a message overtakes another only if they are for different clients. `RosterAgrees`
follows a client's list through the messages on their way: `Leads(l, q, m)` says that `q` takes the
list `l` to `m` and that no list between the two is too long. Routes can be joined, and every burst
leads from the server's old list to its new one; a client that is turned away stays so, which
is why the premise of `RosterAgrees` holds of every earlier state too.

*ChatShm.* `IInv` counts: every token on its way round was brought by a client (`Balance`), and what
is announced and what is stored was asked for (`Announced`); when one thread moves, one entry of a
program counter changes and one count with it. `NeverBackwards` rests on `Recent`: a window is behind
what its reader holds, that is behind the slot, and that is behind the store. `OneByOne` and
`ServerCanGather` rest on `Ordered`: until the first overwrite there is one request at most, in the slot or with the server, and
list and store are what the requests handled so far make them.

*Directories.* In the array nothing behind the first free entry is taken, nor behind the end a
running deletion had found (`NoneBehind`), so the list of people is what `Keep` keeps of the whole
array and the compaction does not change it. For the linked list there are a sequence of nodes and one
of names (`Chain`) that the heap spells; each of the four cases of `delete_node` cuts one place
out of both (`Unlinked`).

*The programs of `Tables` and of `SmallPrograms`.* A composition has one inductive invariant, the
conjunction of those of its programs (`TablesInv`, `AllInv`). A step is a step of one program and
a stutter of the others, so each program has its own lemmas for its own actions, one for the
stutter, and nothing is proved about two at a time.

*RawEcho.* The invariant looks at a client alone on its port along the whole way of its lines.
`TableOK`: no port has two entries, so that the entry found first is the only one, which a CLOSE
that moves the entries behind it keeps. `Ahead`: the lines still in the server's socket have
larger numbers than the table has counted, in the order they were typed, and only a client that is
gone has a CLOSE there. `InOrder`: what a client has shown followed by what is in its socket is
one sequence, in order within each life of the server, and reading only moves the boundary. `Taken`:
what was answered in this life was counted and is behind every line still on its way. A lost datagram
takes a line away and nothing else; a restart makes every answer one of an earlier life. For
`EchoCounters` the counter of a port is that of its entry, or 0: a datagram taken is `Take`, a
restart is `Restart`, and a sent one is `Come` or, when it is lost, a stutter.

*PullThreads.* `count <= Cardinality(Marked)` (`PoolBounded`) is inductive with the types: `main` raises
`count` in the critical section in which it marks one more worker, and a worker lowers it by
one in the section in which it clears at most one mark. The converse does not hold, which is
the disagreement `pull_refused` shows. `RestIsClean` says something only of states in which
everything sleeps and is far from inductive. Until the pool is `disturbed` it is in one of
six stages (`Resting`, `Arrived`, `Accepted`, `Announced`, `Serving`, `Served`), each of which
fixes where `main` and every worker are; a lemma per stage says which steps are possible in it and to which stage
they lead.

*Commander.* The sort exchanges an entry with each one behind it that belongs in front. One comparison keeps
an order of the directory's entries and what is settled in front (`ComparedKeeps`), one turn
of the inner loop settles one place more (`TurnSettles`), and after all turns every place is
settled (`SortSettles`): nobody behind it belongs in front of it. Neighbours are then in order though
`stat()` may have failed on some, for what cannot be compared is never out of order; and without
failures the order is total, so directories come first and `.` and `..` before them. `FilesInv`
says that a panel is empty or shows such an order, that the cursor is on one of its
rows, and that each path is within its buffer, which a name and its slash may exceed at most once before the buffer doubles.

*Algorithms.* The invariant is `ComputedRight` itself: a call is one step. What is behind it is one lemma
per computation (`OnesRight`, `BitRight`, `SwapRight`, `SnailRight`, `LengthRight`, `FindRight`,
`ChecksumRight`), each with an invariant of the loop, carried from step to step of the fold. The
checksum: adding the carries in leaves the sum the same modulo the largest word and never zero,
and brings it below twice that word at first and below the word then (`FoldedTo`), so that with the
complement in it only the largest word itself is left. The snail: `Comes(n, i, j, r, num, d)` says
that cell `<<i, j>>` of ring `r` has number `num` in the closed form and is entered going to `d`;
no two cells have one number (`OneCell`), and from each but the last the next is straight ahead, or ahead after one turn
and what was ahead is the border or a smaller number (`SpiralNext`), which is what the code asks.

*Plugins.* `PluginsCounted`: the counted slots are the plugins among the entries read so far, at most
one slot behind them was written in vain, and the list is longer than both. The room is needed
before an entry is looked at, so it has to be kept after the last one too.

*Shops.* `ShopBalance` is the equation of `Conserved` with the charge of a customer who has paid and
not yet emptied the shop; it needs `ShopHeld`, that whoever is in a shop holds its mutex, since
otherwise a charge would change under the customer. When one shop or customer
changes, the sum over all changes by as much: `SumChanges`, for which the sum, chosen as it is by
`CHOOSE`, must be shown not to depend on the order of addition.

*ListeningServer.* `ListenOwned`: a descriptor is open exactly when somebody holds it, and then one
holder does, be it main, the cell handed to a thread or the thread. `ListenWaiting` gives each client
one place, the backlog or one connection, and `ListenAnswered` ties the answer to the thread
about to close; `ClosedAnswered` is an action property from the three. *Multiplexing.* `SelectReady`:
what `select()` reported is still there when the loop comes to it, for nobody else takes from the
queues.

*QueueTurns.* `QueueBalance` is the equation of `LinesBalance`; it is inductive with `QueueReaches`, which
ties identifiers to the queue: a running server's leads to it, what somebody's leads to
exists, what does not exist is empty and has nothing spare. A removed queue takes both sides
of the equation to zero only because of that. That nobody waits for room without kills is
then arithmetic: nothing is spare, so the queue holds one line at most, and none when
somebody is about to send.

*SegmentTurns.* The two semaphores pass one token (`SegmentToken`): it is down in both, up in one, or
with the client, and up only while the server waits. `SegmentTrust` says what the text is
wherever the token may be, and that no other client is going to write into that segment. Both
speak of the objects that have the names now; that those made later are other objects than those a
program may have kept is `SegmentNumbered`.

*Exchanges.* `ExchangeAsked` (a client is in the queue once, and not when it was heard), `ExchangeAnswers`
(who has an answer was heard), `ExchangeStreams` (over a connection, without kills, the answer
comes before the end) and `ExchangeNames` (who has a name runs) are inductive together. That an
answer is written to nobody (`AnswerBroken`) only after a kill is `ExchangeStreams` again.

*Pipeline.* `PipeTotal`: what has been shown and what the last command is still going to write are
together what the line makes of its input. What a command still writes is said by `Flows`, from
the first command to the last: its own remaining output, and what it will make of what is in the
pipe in front of it and of what its neighbour still writes. `PipeShape` says who holds which ends: the
shell all of them until everybody is forked, a child its copies until it becomes its
command, a command only those of its neighbours' pipes; so a reader that finds no writer left, and a writer that
finds no reader, are right to stop (`EndsHeld`). What a line makes is a fold over it, which
`LineMakes` follows command by command.

*Family.* `FamilyKin` says who can have forked whom at which call of the scripts, and `Unwaited(p)` whom
`p` may not have waited for at the call it is at; at an `end` that is nobody. A process for
which `fork()` failed, or that a signal ended, stops at any call, so the invariant leaves out those whose parent
is one of them. `wait()` for any child takes the right one because at that call every child left is
still to be waited for by a `wait()`.

Only model-checked:

- all liveness (`EveryoneAnswered`, `TaskCompletes`, `EverythingShown`, `WaitsEnd`): the provers
  treat neither fairness nor `ENABLED`.

Every other property of a passing run, invariant, action property or refinement, is a theorem.

What a recursive definition computes cannot be proved by the library's induction theorems, whose
parameter is an operator. Two lemmas of `DataLemmas` replace them: a set of numbers has a least
member (`Least`, from the well-foundedness of `<`), and what holds at 0 and is passed on holds
everywhere (`UpTo`, for a set instead of an operator). A fold of the community modules is a recursive function chosen
by `CHOOSE`: `FoldExists` shows that there is one, after which the fold is a run of its step
(`ShiftedRuns`, `SnailStepRuns`, ...), and what the steps keep holds at the end. `SelectSeq` of the standard modules is
opaque to the provers; `Filters!Keep` is the same thing as a recursive function, and the
models filter with it.

The assumptions of the proofs are the `ASSUME`s of the modules; those of the programs of `Tables` and
`SmallPrograms` are `ASSUME`d by the composing module, so that its theorems name none. Sizes are
natural numbers (those of arrays and queues not zero); the clients of the segment, the shops
and the customers are finitely many; the supplier is no customer; `Main` is no worker; there is a longest
shell line (it fits into `line[]`); `None` and `Nobody` are neither client nor descriptor, actor nor shop; `NULL` is no name.

In `Commander` the directories are finite; a name with its slash and final zero fits into a panel's path
buffer as it is at first, which is also the length of a row's `name[]` (so nothing is claimed of names of
255 characters, the longest a file system allows: they would not fit); no other entry has the place of
`.` and `..` in the alphabet; "d" and ".." are directories. In `Algorithms` a word has at least three bits (bit 2
is what `ReplaceBit` changes), a header has fewer words than a word counts (so that the sum of two
words' width does not wrap; the program's header has ten), and no size of a snail is zero.

## 5. Where the code and its texts disagree

- `pull_refused`: `Pull_Threads/server.c` refuses a client because all threads are busy (lines
  100-111) though all of them sleep at that moment. Nothing takes a connection out of the list
  (`count == 0` at line 41 is the only test), so a worker that has just finished serves the last
  one again, and each time lowers `count`. In the run two workers serve the first connection three times,
  which leaves `count` at -2; the next two clients each have a worker marked and signalled,
  but bring `count` to 0 only, so both workers go back to sleep, marked for ever, and the fourth client is
  told that all are busy. The property is read at the decision, under the mutex, so
  that workers that finish after it do not count.
- `array_full`: `Subscriber_directory/lib/lib.c:14` never refuses; the 101st person
  is written past the array, against the message "Макс 100 абонентов".
- `array_found`: a name of ten characters, which the prompt allows, is stored
  without an end mark and is never found or deleted.
- `substring_found`: `Home_Work_3/lib/lib.c:39` takes the end of the string for the end of the
  substring, so `find_substring` finds "ba" at the end of "ab"; `tests/test.c:44-46` expects
  NULL for what is not there.
- Without a run of its own: in the test for multiple occurrences the comment of
  `Home_Work_3/tests/test.c:71` says that `find_substring` returns the last one ("последнее
  вхождение"). The loop of `lib/lib.c:24-43` ends at the first ("a" in "aa" is found at the front), and
  that is what `ComputedRight` says and `tables_all` and `ComputedRightCorrect` show of every line. The
  test passes because what it looks for, "aba" in "acaqabab", occurs only once.

The list version has the first mistake of the array too (`v.2.0/lib/lib.c:20` lets 101
people in): the types in `ListWellLinked` follow `size` to `MAX_LEN + 1`, and the nodes of the run are
as many.

Three more, which no text contradicts, are in the models as they are in the code. A server of
`Queue_message/Posix` may receive its own line, and its client then waits for one that does
not come: `WaitsEnd` promises the client only that the server ends. An entry `stat()` fails on
keeps status 0, which `Midnight_Commander/lib.h` calls a directory; its name stays empty, so that Enter on it
only makes the path longer. A path that just fills its buffer has its final zero
one past the end: `PanelsSound` bounds the length without it.

## 6. Plan

What would come next: the interrupted servers of the two chats and killed clients over the segment (the
server's SIGINT does not unlink `sem_server2`), once it is settled what their clients
ought to show; `Multiplexing` against `TimeService`, a second implementation.
