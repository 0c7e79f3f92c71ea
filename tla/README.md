# A TLA+ model of the AESD assignments

This directory holds the specification of the programs in this repository: the
`/dev/aesdchar` character driver, the circular buffer inside it, the socket
server that uses it, and the smaller exercises. TLC checks the models on small
instances; TLAPS proves theorems about them for every value of the constants.

## 1. Inventory

### Circular buffer (`aesd-char-driver/aesd-circular-buffer.c`, `.h`)

*State*: a table of 10 entries (pointer and size), `in_offs`, `out_offs`,
`full`, and `total_size` (a `uint8_t`).
*Operations*: `init`, `add_entry`, `find_entry_offset_for_fpos`, and the macro
`AESD_CIRCULAR_BUFFER_FOREACH`.
*Used by*: the driver, which does the locking and owns the memory.
*Hard*: two wrap-arounds written without a modulus; a search whose index is
reset inside the `for`; `total_size`, which only grows.
*Correct when*: it always holds the newest commands in order; a lookup gives the
byte that concatenating them would give; no index leaves the table.

### Character driver (`aesd-char-driver/main.c`, `aesdchar.h`, `aesd_ioctl.h`)

*State*: one `struct aesd_dev` (the buffer, the pending `entry` shared by all
writers, a mutex), one position per open file, and kernel memory.
*Operations*: module init and cleanup, `open`, `release`, `read`, `write`,
`llseek`, `unlocked_ioctl` (`AESDCHAR_IOCSEEKTO`).
*Interaction*: processes call it concurrently through the VFS, which copies the
position before `read`/`write` and stores it back afterwards.
*Hard*: calls that sleep between a check and its use (`krealloc`,
`copy_from_user`, `copy_to_user`); partial copies; commands put together from
several writers; positions that count from the oldest command while old commands
are evicted; seeks computed in table order.
*Correct when*: writes and reads behave as if atomic, no byte is lost or doubled,
no copy overruns its block, no pointer outlives its block, every call returns.

### Socket server (`server/aesdsocket.c`)

*State*: the listening socket, an SLIST of connections (socket, thread,
`thread_complete`), a mutex, and the data file or the device.
*Operations*: a start-up from `getaddrinfo` to `listen`, main's
accept/insert/create/reap loop, one thread per connection, a timer thread (file
mode only), a signal handler that joins all threads and exits.
*Interaction*: clients by TCP; the driver through stdio (`fopen "a+"`,
`fputs`, `fseek`, `getline`, `ioctl`), each thread with its own open file.
*Hard*: the handler runs in the middle of main, of its start-up, its list operations
and its `syslog`; threads spin on a closed connection; reaping waits for the next
client; in device mode no mutex spans the append and the reply, nor the pieces in
which stdio writes a long command; many paths end the whole process.
*Correct when*: each client gets back the content including its own command,
each socket is closed once and after its thread is done, each thread is joined
once, and shutdown ends.

### SLIST (`server/queue.h`)

The BSD singly-linked list macros; the server uses `INIT`, `INSERT_HEAD`,
`FOREACH_SAFE`, `REMOVE` (with `REMOVE_HEAD` and `REMOVE_AFTER`), `EMPTY`, `FIRST`.
*State*: a head pointer and a next pointer per node, in memory that is reused.
*Hard*: the handler works on the list between any two assignments of main; the
loop frees the node it stands on; `REMOVE` walks without looking for the end.
*Correct when*: the pointers spell a list at every step, and no pointer into freed
memory is followed.

### System calls (`examples/systemcalls`)

`do_system`, `do_exec`, `do_exec_redirect`: run a command in a child and report whether
it exited with 0. *State*: the children and open files of the process, which all
calls share. *Hard*: `wait` takes any child; a child inherits what is open; a `fork`
that fails is not noticed by `do_exec`. *Correct when*: a call reports its own
command, leaves no child and no file behind, and returns.

### Threads (`examples/threading`)

`start_thread_obtaining_mutex` starts a thread that waits, takes a mutex, waits,
releases it and reports success in memory the joiner frees. *Correct when*:
the success can be relied on, and threads return.

### Left aside

`finder-app` (`writer.c`, `writer.sh`, `finder.sh`: write a file, count files
and matching lines), `examples/autotest-validate`, load/unload and start/stop scripts,
QEMU and kernel build scripts, CMake, CI configuration, the assignment result files:
straight-line code of one actor, or no state of their own to check.

## 2. Modules

| Module | Models | Kind |
|---|---|---|
| `AesdCircularBuffer` | the buffer record and its operations as operators | operators |
| `CommandLog` | the buffer's promise: the MaxOps newest commands | abstract |
| `RingLog` | the buffer in use | state machine, implements `CommandLog` |
| `FindEntryLoop` | the search loop, one iteration a step, on a buffer in use | extends `RingLog` |
| `CharDevice` | the device's promise: atomic reads and writes | abstract |
| `AesdChar` | the driver, processes, kernel position and memory | state machine, implements `CharDevice` |
| `ReceiveData` | the server's connection threads and timer | state machine, uses `CharDevice` |
| `AesdSocket` | main loop and signal handler around those threads | extends `ReceiveData` |
| `NodeList` | the promise of the server's list: whole insertions and removals | abstract |
| `SList` | the list macros assignment by assignment, in main and in the handler | state machine, implements `NodeList` |
| `SystemCalls` | `do_system`, `do_exec`, `do_exec_redirect`, their children | state machine |
| `Threading` | the mutex-holding threads and their caller | state machine |
| `DataInduction` | induction over numbers and sequences, running sums, `FlattenSeq` | lemmas |
| `AesdCircularBufferProofs` | lemmas on the buffer operators | lemmas |
| `FindEntryLoopProofs`, `AesdCharProofs`, `AesdSocketProofs`, `SListProofs`, `SystemCallsProofs`, `ThreadingProofs` | theorems | proofs |
| `MCRing`, `MCAesdChar`, `MCReceiveData`, `MCAesdSocket`, `MCSList`, `MCSystemCalls`, `MCThreading` | instances for TLC | |

The composition follows the programs: the driver uses the buffer's operators
under its mutex; the server uses the device only as far as `CharDevice`
promises it, which is what the driver is shown to implement. In the same way
`AesdSocket` takes its list of connections as a sequence, changed by whole
insertions and removals, which is what `SList` is shown to implement. Both sides
of these interfaces are theorems: `DriverUsesRing`, `ServerListIsPromised` and, for
what the server writes, `ServerUsesDevice` show that the users keep to them (section 7).

### How the modules read against the code

*Buffer.* The record has the struct's fields. An entry is the byte sequence it
points to, its size the length; ten slots become `MaxOps`, `uint8_t` becomes
`% SizeMod`. `AddEntry` is `aesd_circular_buffer_add_entry` with its two
wrap-arounds as written. `FindEntry` defines the lookup; `FindEntryLoop` runs the
C loop (`Start`, `Miss`, `Hit`, `Fail`) and is compared with it.

*Driver.* A system call is `Call`, `Lock` (or `Interrupted`), the handler's
steps, `Unlock`, `Return`. A handler is split at each call that may sleep:
`WriteRealloc` and `WriteCopy`, `ReadFind` and `ReadCopy`. `copy_from_user` and
`copy_to_user` may copy any part, down to nothing. `room` is the size of the block at
`entry.buffptr` and `live` counts blocks, so that overruns, dropped pointers and
leaks are visible without modelling addresses. `pos` is the kernel's copy of
`f_pos`; `Return` stores it back. `accepted` and `last` are history only.

*Threads of the server.* `wpc[c]` walks `receive_data`: `Recv` until a newline, `Lock` in
file mode, `Open`, `WritePiece` while stdio's buffer overflows, `AppendLine`, or `SeekDevice`,
`ReadLine` until `ReadEnd`, `Finish` (`thread_complete = true`), `End`. `strcat` of a NUL byte
appends nothing (`Text`). `unwritten` is what `fputs` has not written yet; a piece goes to the
file, or to the driver's pending entry (`pending`), where a newline of whichever thread
completes it (`Entry`). `mixed` is history: another wrote between two pieces of the command.
A `getline` that meets the end of the file before a newline ends the reply, as it does when a
client of the file reads while another is half way through a long command. The timer opens
its file (`TimerOpen`) and writes to it (`TimerAppend`) in two steps.
`stores` holds the device (0) and the data file (0, and 1 once the handler has removed
the first). Exits of the whole process are values of `status`: a failed `realloc`
(`OutOfMemory`), `fopen` or write, a broken pipe, and a crash when a seek command
comes without its numbers (`SeekWithoutArguments`).

*Main and handler.* `mpc` walks the start-up (`Resolve`, `Socket`, `Bind`, `CreateTimer`,
`Listen`) and `while(1)`: `Accept`, `Logged`, `Insert`, `Create`, then the
`SLIST_FOREACH_SAFE` loop (`First`, `Test`, `Close`, `Logged`, `Join`, `Joined`, `Reap`) with
both its variables. `Signal` is enabled wherever main is; from then on only the
handler (`hpc`) moves in that thread. Where main is inside `syslog` (`Logging`) it may hold
the lock the handler's own `syslog` waits for: `hpc = "blocked"`, for ever.

*List.* `first` and `next` are the pointers; each step of main or of the handler is one
assignment, or one test, of a macro. `Alloc` may return any node that is free, with any
link in it. `list` is a history of what the list should be, and `Reached` follows the
pointers: the refinement maps `NodeList`'s list to the latter. The order of the
assignments is that of the source because the server's Makefile does not turn on
optimisation.

*System calls.* `pc[c]` walks one call; `child[c]` is its child, from `fork` to its exit
status. `wait` of `do_exec` takes any child that has ended, the `waitpid` inside
`system` only its own. If there is none to wait for, `status` is never set and the
result is any Boolean (`WaitFails`). `holds` is what a child inherited, and `heirs`
remembers which calls forked while an output file was open. What a command does is only
how it ends.

*Threading.* One action per line of `threadfunc`; sleeps take any time. A thread that
cannot be created is "refused". The caller also locks the mutexes, as the
tests of the example do.

## 3. Runs

| Run | Instance | What it shows |
|---|---|---|
| `ring` | 4 slots, commands of 1 to 3 bytes, positions 0 to 13 | every content the ring can have: offsets, lookup, loop, and refinement of `CommandLog` |
| `ring_total_size` | 3 slots | **violated**: `total_size` is not the size of what is held |
| `char_reader` | a writer, a process that reads and seeks | reads go forward and are those of an atomic device; seeks land on a byte |
| `char_writers` | two writers | no overrun, lost byte, incomplete command or dead pointer |
| `char_live` | two processes, one file, every call | every call returns |
| `char_seek_wrapped` | one process | **violated**: `AESDCHAR_IOCSEEKTO` after a wrap |
| `threads_device` | three connections, device of two commands, commands longer than a stdio buffer | framing, complete replies, and the own command in the reply unless another wrote between its pieces |
| `threads_file` | two connections, the timer, commands longer than a stdio buffer | own command in the reply, and every complete command is served |
| `server` | two connections with different commands, start-up, file mode, signal anywhere | joins, sockets, reaping, exit, own replies; after a signal the server ends unless a client withholds its newline |
| `slist` | four nodes, symmetric, signal anywhere | the pointers are a list at every assignment; nothing freed is followed, nothing lost |
| `systemcalls` | three calls, two threads, every function, every failure | own results, children, files (also of calls that overlap), and every call returns |
| `threading` | three threads, two mutexes, a caller | reliable success, threads return |

### Bounds, and why they are enough

* `MaxOps` is 1 to 4 instead of 10. Wrap-around and eviction depend only on whether
  an index is at the end of the table and whether the table is full; four slots
  give an `out_offs` at the start, inside and at the end. The theorems on the
  ring hold for every `MaxOps`.
* `ring` fixes `SizeMod` at 1, because `total_size` only grows and is not read by
  what that run checks; everywhere else it is 256, the `uint8_t`. No
  driver run accepts more than `MaxAccepted` = 4 bytes, so `total_size` does
  not wrap there.
* `MaxAccepted` bounds the bytes all writes of a behaviour are given. Four fill a
  table of two, evict, and leave a pending part. `MaxLive` bounds the memory blocks
  that exist when a write is called: unload leaks, and would otherwise make the
  state space infinite.
* `Chunk`: empty, without newline, with one at the end, with one in the middle.
  `Count` 1 and 2, `Offset` -1, 0 and 1: partial reads, refused and accepted seeks.
* Two connections in `server`: with them a thread fails, a client closes, the mutex is
  waited for and a complete node is first or last in the list when the next one is
  accepted. That nothing depends on their number is what the theorems on
  `JoinsDefined`, `SocketOutlivesThread`, `ReapsAll` and `ExitsAfterThreads` show, for any
  number of connections; removal from the middle of a list is in `slist`, whose four nodes
  allow lists of three with a fourth in hand.
* Three calls in `systemcalls`: two at the same time, and one after a call that lost its
  child or took another's. Three threads in `threading`: two share a mutex, one does not.
* The device of `threads_device` already holds one command (`Before`) of two, so
  that the second append evicts. `MaxStamps` is one: the timer takes the mutex
  once among two clients. `BufSize` 2 lets bytes behind a newline arrive with it.
* `Block`, the size of a stdio buffer, is 1 in the two thread runs, so that a command of two
  bytes is written in pieces, and 2 in `server`, where it is not.
* The clients of a run send different commands, and none is in the file or the device
  before its thread has appended it: a reply that holds a client's command holds the one that
  client sent. `server` leaves out bytes behind the newline, NUL bytes and timestamps, which
  are in the thread runs, and starts with an empty data file. Node symmetry in `slist` is
  sound, no temporal property but a refinement of safety is checked there.
* Server, list and example runs do not check for deadlock: the processes are meant to
  end, and a thread whose client has left spins without a change of state.

## 4. Fairness

* `SearchEnds`: the loop goes on (it is sequential code).
* `CallsReturn`: a process inside a call is scheduled (weak fairness of its own
  steps); the kernel mutex is handed to a waiter that has been passed over, hence
  strong fairness of `Lock`. A wait may also be interrupted, but need not be.
* `Served`, `ShutdownEnds`: threads, main and the handler are scheduled; a
  thread waiting for `mutex` gets it while it is given back again and again
  (strong fairness of `Lock`; the timer's turn is optional, but once it has the mutex
  it goes on). Nothing is assumed of clients, of `accept`, or of the signal.
  `ShutdownEnds` therefore has two ways out, both of which the code takes: a client that
  never sends a newline keeps the handler's `pthread_join` waiting, and a signal
  that finds main in `syslog` may block the handler at its first line.
* `CallsReturn` of `SystemCalls`: the threads and the children up to `execv` are scheduled;
  a command need not end, and as long as one runs a call may wait.
* `ThreadsReturn`: as for `Served`, with a caller that need not give a mutex back.

## 5. What is assumed of the surroundings

Kernel: `read` and `write` get a copy of `f_pos`, stored back when the handler
returned no error, without a lock for character devices; a negative position is
refused before the handler runs; `krealloc` to size 0 frees; a module with open
files is not unloaded; `fixed_size_llseek` as in the kernel. A small `GFP_KERNEL`
allocation does not fail.

C library: `fputs` writes a command that fits its buffer at once, at the latest in `fseek`,
and a longer one in pieces, which `WritePiece` cuts anywhere; reading an `"a+"` stream starts
at 0. A line that `getline` returns is read in one step: between the reads of a longer one
another thread could write, which is not modelled. `send` does not block
for ever. The first signal is delivered to the main thread, which sits in
`accept` nearly always; a signal taken by a connection's thread would have it join
itself, and a second signal would start the handler again in another thread.
Neither is modelled. Of the C library's state when the handler interrupts it only
`syslog`'s lock is modelled, not that of `printf`, `malloc` and `exit`. `malloc` of a node or
of the first buffers does not fail. `pthread_join` of a thread that does not exist may
return or crash.

Processes: a child that another call waited for is not reported again; the caller of
`start_thread_obtaining_mutex` unlocks only what it has locked and joins each thread once.

## 6. What disagrees with its documentation

Two runs end in a counterexample on purpose (see `findings` in `PROJECT.json`).

* `total_size` "Total size of all entries in the buffer"
  (`aesd-circular-buffer.h:53`) is the size of everything ever written, modulo 256.
* `AESDCHAR_IOCSEEKTO`: "between the output pointer and write_cmd"
  (`main.c:144-146`) is computed from slot 0; right until the ring wraps, wrong
  after. `SeekLands` states what does hold.

Met while modelling, without a run of their own:

* Unload: "allocate memory == free memory" (`main.c:476-478`); the pending command and
  every evicted command are not freed (`live` is not 0 after `Unload`).
* `do_exec` returns "false if an error occurred, either in invocation of the fork, waitpid,
  or execv() command" (`systemcalls.c:40-42`). After a failed `fork` it returns what it makes
  of an uninitialised `status`, or the result of another thread's command (`WaitFails`, `Wait`).
* `do_exec_redirect` says "The rest of the behaviour is same as do_exec()"
  (`systemcalls.c:110`); it aborts the process where `do_exec` goes on.
* `main.c:201-206` says that a read moves `*f_pos` on by the bytes read and a write
  by the bytes written. A write leaves it alone; a read that finds nothing sets
  it to 0, so that the next one starts over.
* `aesdsocket.c:287-288` promises to return -1 "if any of the socket connection steps
  fail"; after a failed `getaddrinfo` a null pointer is read (`ResolveFails`).
* The server drops what a packet holds behind its first newline
  (`aesdsocket.c:234`); `CommandsFramed` describes what is kept.
* In device mode no lock covers append and reply. The exceptions in
  `OwnCommandReplied` and `ReplyComplete` are needed. Without "no eviction during the reply"
  TLC finds a client whose own command is skipped, because another client's append moved
  all positions while it was being answered; without `mixed` it finds one whose command,
  longer than a stdio buffer, has another's in the middle.

## 7. Proofs

Proved with TLAPS, for every value of the constants that satisfies the named
assumptions (`MaxOpsAssumption`, `SizeModAssumption`, `CommandAssumption`,
`LoopAssumption`, `CharAssumption`, `ReceiveAssumption`, `NodeAssumption`,
`NullAssumption`, `MemoryAssumption`, `CallAssumption`, `ThreadingAssumption`). They
say that tables have at least one slot, commands are not empty and made of
bytes, special values are not processes or nodes, `malloc` has finitely many
nodes to give, and the calls of `SystemCalls` are finitely many. Every safety
property and every refinement of the passing runs is the statement of a theorem.

* `DataInduction`: what holds of every number or sequence by induction. The
  hypothesis is a set: a set with 0 and with `n + 1` for each of its `n` holds every
  number, because `<` on `Nat` is well founded. From it come the running sums (sizes
  added up slot by slot) and the facts on `FlattenSeq` (its length is the sum of the
  lengths; where each of its bytes comes from) that a walk through the table needs.
* `AesdCircularBufferProofs`: lemmas on `EmptyBuffer` and `AddEntry`: types, offsets,
  and that adding a command to a full table drops the oldest. The last one is
  where the two wrap-arounds are unrolled. Then `FindEntry`: the slot and the offset
  it returns are those of the byte in the concatenation.
* `FindEntryLoopProofs`, first the ring: `TypeCorrect`, `OffsetsCorrect`,
  `RingImplementsLog`, `FindIsConcatenation`. `OffsetsOK` is the inductive invariant:
  without "in_offs = out_offs when full" the next write could land anywhere. Then the
  loop: `LoopTypes`, `LoopVisitsOnce`, `LoopIsFindEntry`. The invariant (`Progress`)
  says which slots are behind the index: those from `out_offs` up, or, once the
  index was reset, also those from 0. For the last theorem `Walked` adds that the loop's
  running sum is that of the slots passed and has not passed the position. `LoopKeepsRing` carries the ring's
  theorems over to a buffer that is searched. `SearchIsFinite`: each iteration ends the
  search or lowers the number of slots not yet passed.
* `AesdCharProofs`: `HandlersExclude`, `CopiesFit`, `CommandsAreComplete`,
  `FoundEntryStays`, `PointersAreLive`. `IInv` adds to `WriteFits` and `CommandsComplete`
  the types of the device's fields (`DeviceTypes`), that exactly the holder of the mutex
  is in a handler's body (`Exclusive`), and that a call goes through an open file of a
  loaded module (`InUse`). `Exclusive` is what makes the sleeping copies safe;
  `InUse` keeps load and unload away from them. On top of it:
  `NewestAreHeld`, by `NewestInv`: the end of `accepted` is the held commands and the
  pending one end to end, and an eviction takes a whole command from the front;
  `TypeCorrect` and `SeekLandsOnByte`, by `CallTypes`: what each handler has in its
  locals at each step, and that what a read found is a byte of the content;
  `ReadsGoForward`, by `ForwardInv`: no read, and no position a read is about to store,
  is behind the end of the last one. Its hypothesis `FilesNotShared` is needed: with a
  file shared by two processes the kernel's late write-back of `f_pos` moves reads back.
  `DriverImplementsDevice` maps every step: `WriteCopy` and `ReadCopy` to the atomic write and
  read of `CharDevice`, `Load` to its reset, seeks, releases and the end of a file to
  its seek, all others to a stutter. `DriverUsesRing` shows the driver to be the user
  `RingLog` assumes: between two loads of the module it only adds complete commands.
* `AesdSocketProofs`, the threads: `CommandsAreFramed`, `RepliesAreComplete`,
  `OwnCommandIsReplied`. `DataInv` (with `BegunInv`, `ReplyInv` and `FileMutex`: `ThreadInv`) says that what a thread keeps is the text of what it
  received, that a newline ends it at once, and that in device mode every file is the one
  device, which holds at most `MaxOps` commands. `BegunInv` says that what a thread has written of its
  command (`Part`) is the last thing in its file, or in the pending entry, unless another wrote
  since, which the file's mutex excludes (`MutexMixed`). `ReplyInv` says that what was sent back is the content
  from its start to the position, and that the own command stays where it was appended;
  both hold because content only grows behind what is there, until the device evicts.
  `ServerSteps` shows that the steps of main and of the handler leave that data alone but
  for the removal of the file, which gives `ServerCommandsAreFramed`,
  `ServerRepliesOwnCommand` and `ServerTypes` for the whole server.
  `ServerRepliesAreComplete` is `RepliesAreComplete` there.
  `FileMutexHeld` and `ServerFileMutexHeld`: who has the data file's mutex is the one
  thread, or the timer, that is between its lock and its unlock; no command of the data file
  has another's bytes in it.
  `ServerUsesDevice`: in device mode a change to the device is a write of `CharDevice` that
  hands it the next bytes of one client's command. `LinesLeft` is the invariant behind it: the
  only newline is the last byte left to write, so that a piece completes nothing and the rest
  completes what is pending, whoever wrote that. `NothingLeftPending`: bytes are pending only
  while some thread is between the pieces of its command.
* `AesdSocketProofs`, the list: `JoinsAreDefined`, `SocketsStayOpen`, `NoThreadCutOff`,
  `RoundsReapAll`. The invariant ties four things together: what main knows of its node at
  each place (`MainPlace`, `MainList`), that nodes on the list were not joined but for the
  one being removed (`ListUnjoined`), that they have a thread (`ListStarted`), and that
  every running thread is on the list (`RunningListed`). It holds across the signal because
  main stops there and the handler works on the list as it finds it. `RoundsReapAll`
  needs the order of the list: `Round` says that a node due in this round is not behind
  main's place (`Behind`), and that `np_temp` is the node after it.
  `ServerListIsPromised`: every change of the list is an insertion of a node that is not on
  it or the removal of one element. `ShutdownIsFinite`: from the handler's first step on,
  twice the length of the list, plus or minus one by where the handler is, is a natural
  number which each of its steps lowers; main, threads and clients leave it alone.
* `SListProofs`: `PointersSpellList`, `PointersAreLive`, `NodesKept`, `PointersImplementList`. The
  invariant has a conjunct for every pair of assignments the handler can fall between:
  what `datap`, `np_temp`, `curelm` and `hdatap` point to at each place, and that the cursor of
  `SLIST_REMOVE` is before the node it looks for, which is why the walk ends.
  `PointersImplementList` is about the pointers themselves, not the history `list`: by induction
  along the list they lead through its nodes in order and then to NULL, so `Reached` is the
  list. A walk of as many nodes as there are reaches its end because no node is on it
  twice.
* `SystemCallsProofs`: `TypesKept`, `ReportsOwnCommand`, `OutputClosed`, `NoneLeftBehind`,
  `SuccessesCounted`. A call that is alone finds no other child, so that "any" child is its
  own. `OutputClosed` needs no call to be alone: a child has a file open only if its call is
  among the file's `heirs`, and a call that returned while its own child goes on has taken
  another's (`Exchanged`). `NoneLeftBehind` counts: unreaped children are at most the calls in progress with a
  child to wait for and the calls of `system` that lost theirs. `SuccessesCounted` counts the
  results against the children (`Reports`): a call takes at most one child and reports how
  that one ended. Calls exchange children, but each exit with 0 is reported once.
* `ThreadingProofs`: `TypesKept`, `SuccessHolds`: who is at "hold", and only that thread, is the
  holder of its mutex.

Model-checked only: liveness under fairness (`SearchEnds`, `CallsReturn` of the driver and of
`SystemCalls`, `Served`, `ShutdownEnds`, `ThreadsReturn`), which is out of the prover's reach,
and the two counterexamples. For `SearchEnds` and `ShutdownEnds` the half that needs no fairness
is proved (`SearchIsFinite`, `ShutdownIsFinite`): the loops are finite. What only TLC shows
is that their steps are taken, for the handler that the threads it joins return.

## 8. Not modelled

A `krealloc` that returns NULL (after it the kernel's behaviour is not this code's) and a
`malloc` that does; a second signal, or one taken by another thread; the state of the C
library but for `syslog`'s lock; `openFile` and `send_all`, which nothing calls; the
`SLIST` macros the server does not use; the contents of log messages; the `finder-app` programs,
scripts and build files, which have no interleaving or state to explore.

## 9. What is left

* The hazards without a property, each with its reason in `PROJECT.json`: a file shared by
  two processes, positions after a refused `llseek`, and the paths that end the process or
  leak descriptors, for which the repository states nothing that could be checked; and those
  the code is caught by, which the properties name as exceptions: a client that withholds
  its newline, a thread that could not be created, a handler that interrupts `syslog`.
* That the reads inside `ReceiveData` (`ReadLine`) are reads of `CharDevice`, as
  `ServerUsesDevice` has it of the writes; now the two share the abstract module's operators.
* Numbers that only decrease for the other liveness properties, whose processes wait for
  each other.
