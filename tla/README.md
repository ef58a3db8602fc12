# CS5600 course projects: a TLA+ verification project

The repository holds four C projects. This directory models three of them in
TLA+ - the key-value server of `project2` with its load tester, the file system
of `project3`, and the shell, loader and task switcher of `project1` - checks
the models with TLC, and proves with TLAPS, for every size of everything, what
the runs show on small instances: all invariants of the models and the
refinements of all abstract specifications. What is left to TLC is liveness.

## 1. Inventory

| Part | Source | State | Operations | Modelled in |
| --- | --- | --- | --- | --- |
| Work queue | `project2/queue.c` | linked list, counter, shutdown flag, one mutex, one condition variable | `queue_init`, `enqueue_work`, `dequeue_work`, `queue_length`, `queue_shutdown`, `queue_cleanup` | `WorkQueue`, abstract `FifoQueue`, `WorkQueueProofs` |
| Database | `project2/database.c` | `db_table[200]` (status, name), one file per slot | `db_write`, `db_read`, `db_delete`, `count_valid_objects`, `db_cleanup` | `Database`, abstract `KVStore`, `DatabaseProofs` |
| Server | `project2/dbserver.c` | shutdown flag, listening socket, counters, one connection per worker | `listener_thread`, `worker_thread`, `handle_work`, `main`, `print_stats` | `DbServer` (composes `FifoQueue`), `DbServerProofs` |
| Load tester | `project2/dbtest.c`, `testing.sh` | `table[150]` with busy flags, `n_objects` | `get_op`, `pick_random`, `get_free`, `thread` | `DbTest` (composes `KVStore`), `DbTestProofs` |
| File system | `project3/homework.c` | the disk image, the bitmap in memory | the 14 entries of `fs_ops`, path translation, block allocation | `Fs5600`, `FsErrors`, abstract `FsTree`, `Fs5600Proofs`, `FsTreeProofs` |
| Block device | `project3/misc.c` | the descriptor of the image | `block_read`, `block_write`, `block_init` | part of `Fs5600` and `Fs5600Proofs` |
| FUSE front end | `project3/hw3fuse.c` | none | `main` | as the caller of `Fs5600` |
| Image tools, unit tests | `project3/*.py`, `unittest-*.c` | none | | read, not modelled |
| System call shell | `project1/part-1.c` | one line buffer | `readline`, `print`, echo loop | `Shell`, `ShellProofs` |
| Program loader | `project1/part-2.c`, `ugrep.c`, `hello.c` | mapped segments, `argc`/`argv`, the position in the input | `do_readline`, `split`, `do_getarg`, `exec_file` | `Loader`, `Shell`, `ShellProofs` |
| Task switcher | `project1/part-3.c`, `stack.c`, `switch.S`, `process1.c`, `process2.c` | three stacks, three saved stack pointers, the registers | `switch_to`, `setup_stack2`, `do_yield12`, `do_yield21`, `do_uexit` | `TaskSwitch`, abstract `Coroutines`, `TaskSwitchProofs` |
| System call stubs | `project1/*.S`, `sysdefs.h` | none | | `ROUND_UP`, `ROUND_DOWN`, the jumps of `call-vector.S` |
| Cipher, sequential queue | `project0` | one list | `encode`, `decode`, `enqueue`, `dequeue` | no |

How they interact. In the server, `listener_thread` accepts connections and
hands each descriptor to `enqueue_work`; four workers take descriptors from
`dequeue_work`, read a request, call the database and answer; `main` reads
commands from the terminal. `quit` in `main` and a `Q` request in a worker both
end the server, by way of `queue_shutdown` and `queue_cleanup`, and may do so at
the same time. The queue is guarded by a mutex, the counters by another; the
record table, the files and the descriptor table by nothing. `shutdown_flag`
exists twice: the server's, polled without a lock, and the queue's own.

The load tester's threads share a table of what each record should hold, and a
count of records; both are guarded by a mutex that is released between any two
accesses, and a busy flag in each entry is what keeps threads off each other's
records while they talk to the server.

In `project1` everything is one thread. The shell and the program it runs take
turns reading one input through one function; programs are mapped to fixed
addresses, unmapped, and mapped again. The task switcher's processes hand the
processor to each other by pushing their registers on their own stack and
popping the other's.

In the file system FUSE (or a unit test) calls one operation at a time. An
operation reads blocks, decides, and writes blocks one after the other; the
bitmap is kept in memory and written through. There is no journal: what the
process leaves when it dies between two writes is what the next mount reads.

What is hard, and the properties that answer it:

* Work queue - threads sleep and are woken, two threads may end the server:
  no lost wakeup (`NoLostWakeup`), memory safety of the cells
  (`CellsOwnedOnce`), an owner for each connection, and one only until a
  descriptor is closed twice (`ConnectionOwnedOnce`), the
  list as such (`ListWellFormed`), FIFO order (`ImplementsFifo`), progress
  (`LinkedIsTaken`, `ShutdownStopsWorkers`).
* Database - steps of unlocked calls interleave, opens and writes fail:
  acknowledged data stays readable and whole (`StoreAgrees`,
  `StoreAgreesUntilRace`), each call looks atomic (`ImplementsKVStore`), slots
  are neither shared (`SlotExclusive`) nor lost (`BusyHasWriter`). Which of them
  hold depends on what the callers keep apart.
* Server - descriptor numbers are closed, sometimes twice, and handed out again
  while other threads hold them: `ConnectionOwnedOnce`, `AnswerToRequester`,
  `AnsweredBeforeClose` (and `RequestsAnswered`, which fails), `ClientsAnswered`,
  `ConnectionsClosed`, `QuitRequestExits`.
* Load tester - threads decide on a count that is out of date, and share
  entries: the table is never overrun (`TableNotOverrun`), the server sees one
  call of a record at a time (`OneCallPerKey`), a correct server is never
  accused (`NoFalseAlarm`), the test ends clean (`FinishesClean`).
* Shell and loader - long lines, failing reads, full argument vectors, any
  alignment of segments, one program after another: `LineAtATime`,
  `ArgsAreWords`, `ImageLoaded`, `NothingMappedAtPrompt`.
* Task switcher - three pieces of code must agree on the layout of a suspended
  stack: `ImplementsCoroutines`, `MainFinishes`.
* File system - death or a failed write between two block writes, a disk that
  fills up: the disk stays a tree (`BlocksOwnedOnce`), used blocks are marked
  (`InUseMarked`), nothing leaks while nothing fails (`MarkedInUse`), and each
  call happens at once or not at all (`ImplementsFsTree`).

`PROJECT.json` lists each hazard at its line.

## 2. Modules

### WorkQueue, FifoQueue

The variables are those of `queue.c` (`queue_head`, `queue_tail`,
`queued_requests`, `shutdown_flag`), the fields `next` and `sock_fd` of every
heap cell, the set of `allocated` cells, and for each thread its position and
local variables. `order` is a history variable: the cells linked and not yet
unlinked. A worker's service is `handle_work`, which closes the connection itself
when it cannot read a request (`ReadFails`), and the close of its own loop
(`CloseConnection`), which then closes the same number a second time; `misclosed`
is the history of whether that has hit a connection accepted in between. Every
critical section is one action, because nothing in it is visible
before the mutex is released, with one exception: `queue_cleanup` is an action
per iteration, and `MutexFree` keeps the others out meanwhile. What a thread
does outside the mutex - `malloc`, filling the cell, testing the flag, `accept`,
serving - are actions of their own. `pthread_cond_signal` wakes any one waiter,
a woken thread competes for the mutex with every other, and a wait may end
without a signal. `malloc` may fail and may return a cell just freed.

`FifoQueue` is what callers are promised: a sequence of descriptors, a flag, and
what each consumer last got. `WorkQueue` implements it with the descriptors of
the list as the sequence.

### Database, KVStore

Every load and store of `db_table` and every system call is an action, so calls
interleave as they do in the workers; `strncpy` into `record_name` is two steps,
between which the name matches no key. Files are inodes: unlinking a file leaves
it to those who have it open, `O_TRUNC` truncates it under them, and a short
value over a long one leaves the rest in place. `Discipline` says what the
callers guarantee: nothing (`"none"`), at most one call per key at a time
(`"one_call_per_key"`, what dbtest's busy flags achieve), or that and at most one
write of a new key at a time (`"one_new_key"`). Between finding a slot
(`find_key`, `free_index`) and marking it, `db_write` holds nothing; the history
`raced` says whether some write has marked a slot that was no longer as it had
found it (`StillFound`). Keys, values and file contents are over an alphabet
`Bytes`.

`KVStore` is a map with calls that take effect at one instant between call and
return; it is the definition of linearizability for this interface. `kv` in
`Database` is the history of those instants.

### DbServer

The listener, the workers and `main` with one descriptor table `fds`. A
descriptor is a number; `Listen` is the listening socket's, which may be handed
out again once closed. The queue is `FifoQueue` - the level `WorkQueue` is
proved to implement - and a database call answers `K` or `X`. Clients connect
once and send one request of their `kind`, or disconnect (`"hangup"`):
then `handle_work` closes the descriptor, and the worker's loop closes the number
again, whatever it stands for by then (`HasClosed`). `misclosed` is the history of
whether that has ended another client's connection. `accept`
returns the lowest free number, fails when there is none, and is not woken by a
`close` of its socket in another thread, as on Linux.

### DbTest

`dbtest.c`'s random test: `table` as three functions (name; length and checksum
as one value; busy), `n_objects`, and for each thread its position and locals.
Sections under the mutex `m` are one action; the copy of a new name into the
table, which the code makes without the mutex, is one of its own. `get_op` reads
the count in one step and the thread acts on it in a later one. Random choices
are nondeterministic, except that `randstr` never makes a name twice. The server
is `KVStore` itself, instantiated with the threads and `main` as its clients, so
that calls overlap and may be refused. `Entries` has one index more than the
table: `get_free` returns it when the table is full.

### Loader, Shell

`Loader` holds the arithmetic of `exec_file` as operators: where a segment is
asked for, where the kernel puts it (`mmap` takes the address as a hint), how
far `read` gets, what `munmap` removes. `InPlace` says that the file's part of
each segment is where the header says, `MemoryIs` that the rest of its pages is
zero and no other page is mapped, `Loadable` for which images the code's
arithmetic is right. `Shell` is the control: `do_readline`
one character per step, `split` as the code's two inner loops (a recursive
function, whose rounds the proof follows), `exec_file` one segment per step, and the program it runs, which
reads lines (`ugrep`) or does not (`hello`). `part-1.c`'s loop is the same with
another body. A session fixes the input, the files and whether reads may fail.

### TaskSwitch, Coroutines

Memory is words, a stack pointer the number of words on a stack. `SwitchTo`
pushes what `switch.S` pushes, in its order, saves the pointer, and pops the
other stack in the order of `switch.S`; `NewStack` is what `setup_stack2` writes
before there was anything to push. The return address of a yield is the
process's, as the stubs of `call-vector.S` jump. A process is any short sequence
of printing (which leaves other values in all registers and overwrites what lies
above the stack pointer), calls and returns of its own, and yields;
`TaskAssumption` says that the returns answer the calls and that the deepest
call and a switch from there fit the stack.
`Coroutines` knows no stacks: a process has a position, registers and frames
that only it changes. The refinement reads them from the processor for the
running process and from memory, at the offsets of `switch.S`, for the other.

### FsErrors, Fs5600, FsTree

`Fs5600` keeps the disk (`disk`, a function from block numbers to contents) and
the copy of the bitmap in memory. A handler is an action that computes, from the
disk it reads, the sequence `writes` of block writes it will make and what it
will return; `DiskWrite` performs them one by one, `DiskWriteFails` ends the
call as the code does (or, for `free_block`, whose result nobody looks at, goes
on), and `Crash` drops the rest and reads the bitmap back. The order within
`writes` is the order of the code: `allocate_block` writes the bitmap once per
block, then data, then the inode, then the directory entry; `fs_unlink` and
`fs_rmdir` write the entry first. Names are model values with a function `Clip`
for the cut at 27 characters, so that two names may become one.

`FsTree` is what the caller sees: a set of paths with types and bytes. A call
takes effect at one moment, or fails, and then changes nothing; only bytes that
`fs_write` overwrites in place may be seen half written. Errors are checked
exactly, not just "some error": in every state a call that cannot succeed has one
error it may answer with, and a call that could only ENOSPC or EIO. They are the
errors the code gives, which are those the comments of `homework.c` list with two
exceptions: the root as the path of create, mkdir, unlink or rmdir is EINVAL, and a
removal or a rename below a file is ENOENT (section 3). A call that was
interrupted by the death of the process has happened or has not.

## 3. Runs

| Run | Shows | Bounds, and why they are enough |
| --- | --- | --- |
| `WorkQueue` | safety, the FIFO refinement and progress of the queue | one listener, two workers, one controller, two cells, two descriptors. Two workers are needed for one to overtake the other, and for one to hold the number another closes twice; malloc may fail at any time; cells and descriptors are reused. One controller, so that liveness stays within reach; that `quit` and a `Q` worker may be in `queue_shutdown` and `queue_cleanup` at once is in `DbServer` and in the proofs. The safety results are proved for all sizes. |
| `Database` | which discipline makes the unlocked table a linearizable map | two workers, three keys on two slots (the table fills and slots change owner), a short and a long value, faults. All of it is proved for all sizes. |
| `DatabaseDbtest` | violated: one call per key is not enough | the same with two keys |
| `DbServer` | ownership and delivery until a shutdown or a second close of a reused number; clients are answered, descriptors closed, `Q` ends the process | two clients that write, send an invalid request, quit or hang up, one free descriptor for both, and `quit`: the number is handed out again while a worker may still hold it, `accept` fails until the first connection is closed, and once the listening socket is closed there is a second number. The safety results are proved for all sizes. |
| `DbServerHangup` | violated: a hang-up may cost another client its answer | two clients, one free descriptor, which the second gets between the two closes |
| `DbServerQuit` | violated: `quit` hangs | one client |
| `FsNames` | trees, atomicity, marking, for every operation on names | paths of two components over two names, and in the root a third name and one that is cut to the first; directories of two entries, three free blocks; every operation may fail or die at each write. A directory takes two blocks and a file one, so the disk fills in the middle of mkdir; the third name finds the root full after its blocks were taken and written; rename meets source and destination that are one name after the cut; a path of two reaches every case of path translation. The four invariants and the refinement are proved for all sizes. |
| `FsFiles` | the same for bytes and data blocks | two files, blocks of two bytes, two pointers, writes that start inside, at the end of and across blocks; three free blocks, so the second file cannot always grow; a name that is cut to another; `fs_write` may fail or die at each write. All of it is proved for all sizes. |
| `DbTest` | the table's bound, one call per record, no false alarm, a clean end | two threads with two requests each, a server that may refuse. Thresholds chosen so that writing stops at two objects, which two threads can exceed by one; a table of exactly that size, and names for one more. The three safety results are proved for all sizes. |
| `Shell` | lines, arguments, images | first lines of up to eight characters with buffers of seven and four and three arguments, so that lines, words and arguments overflow; failing reads; all images of one or two segments with every alignment, on pages of three bytes, run before and after another program. The four safety results are proved for all sizes. |
| `TaskSwitch` | the hand-made stacks are coroutines | all pairs of programs of up to four statements before `uexit`: two yields with a call between or around them, either process ending first. The refinement is proved for all programs. |
| `FsFull` | violated: a full disk leaks blocks | as `FsFiles` |

Deadlock is checked except for the server, which rightly stops when it has
exited or when nobody connects, and for the load tester, the shell and the task
switcher, which end.

Fairness. A worker that can run does, a worker's request ends (the code calls
nothing that blocks for ever once the request has been read; reading a request
from a silent client is the assumption), and a controller in the middle of
`queue_shutdown` and `queue_cleanup` goes on: that is what a preemptive
scheduler and a mutex held for bounded time give, and weak fairness per thread
suffices. Nothing forces clients to connect, the operator to type, `accept` to
return without a connection, or `main` to be at the join. In `DbTest` each
thread, `main` and the server go on; a thread that keeps picking random entries
meets an idle one if there is one (the code tries twenty at a time and sleeps in
between). `TaskSwitch` is one thread of execution, which goes on.

The four violated properties are statements of the repository that the code
does not keep; `findings` in `PROJECT.json` quotes them. In short:

* two writes of new keys may take the same slot, and one acknowledged record is
  lost (`DatabaseDbtest`; `database.c:46-51`); the load tester, whose
  `NoFalseAlarm` is proved against `KVStore`, would rightly report it;
* a connection that failed to read is closed twice, and `accept` may have handed
  out its number in between: another client's connection is closed unanswered
  (`DbServerHangup`; `dbserver.c:88` and `73`). After that `accept` may give the
  number to a third client while a worker still holds it for the second: with
  three clients `ConnectionOwnedOnce` and `AnswerToRequester` fail in `DbServer`
  without their condition `~misclosed`, and the former fails without it in the
  instance of `WorkQueue`. With the condition these and `AnsweredBeforeClose`
  hold, and are proved, for any number of clients, whoever hangs up;
* `quit` waits for a listener that is blocked in `accept` (`DbServerQuit`;
  `dbserver.c:201`, `210`);
* `fs_write` on a full disk keeps the blocks it took (`FsFull`; `homework.c:787`).

Two more show up when an instance is changed: with `Faulty = {"truncate"}` in
`MCFsFiles.cfg`, `InUseMarked` fails, as `fs_truncate` frees blocks before the
inode stops naming them (`homework.c:697`); with `Discipline = "none"` in
`MCDatabase.cfg` two writes of one key both proceed, although a busy key should
be refused (`database.c:25` passes over it), so that nothing is promised to
callers that do not keep calls on one key apart: the hazards of a slot deleted or
a file rewritten under a call on the same key are reached by no run. The runs'
instances leave these out, so that everything else is checked.

Differences met while reading that no run repeats: `queue_cleanup` does not
count down, so `queue_length` is too high after it (`queue.c:79-84`; the proved
`CounterExact` says how far it can be trusted); `stat_failed` counts clients
that disconnected, who got no `X` (`dbserver.c:90`); below a file, unlink, rmdir
and rename answer ENOENT where the comment on path translation asks for ENOTDIR (`homework.c:440`,
`118-120`), as only create and mkdir ask whether the parent is a directory;
create, mkdir, unlink and rmdir answer EINVAL for the root, which their comments
do not list (`homework.c:928`, `230`, `321`, `410`, `473`) - `FsTree` has the
code's answer in both cases; `fs_create` and `fs_mkdir` in a full directory have
taken their blocks when they find out, and keep them (`homework.c:306`; such a
call counts as one that ran out of space in `MarkedInUse`); `translate` silently
drops components after the tenth (`homework.c:882`); `f_blocks` is 398 where the
description says 400 (`homework.c:838`).

In `dbtest.c`, `get_op` never returns `D` although its comment says that with
many objects it reads and deletes (150-152; the branch at 165 is overwritten at
167, as `hi >= lo`). `DbTestAssumption` names what the rest depends on:
`--max` below 7 makes the first thread read from an empty table and wait for
ever, and the table of 150 is enough for `lo + 98 + nthreads` objects - 22
threads with the default `--max=200`, none from `--max=347` on. Reading data in
a loop that does not look for end of file (309-316) would spin if the server
closed early.

In `part-2.c`, the last word of a command line with ten words or more is not
ended (`split` stops before the blank after it, 203-211), so the program gets
the rest of the line with it (`ArgsAreWords` asks only that the last argument
begins with its word). A segment that begins inside a page and reaches over its
last page boundary gets a page too few, since its length is rounded up without its
offset in the page (161); of two segments in one page the second is put elsewhere
by the kernel, and stays mapped, as `munmap` is given the address asked for and not
the one `mmap` returned (166, 173). `project1/README.txt` promises both ("loads the ELF
segments into memory", "unmaps the allocated memory to prevent leaks");
`ImageLoaded` and `NothingMappedAtPrompt` say `Sound` and are about the images
without such segments. At end of input both shells print prompts for ever.
In `part-3.c`, `do_uexit` saves its stack pointer in `s1` even for process 2,
which harms nothing because nobody switches to `s1` again.

## 4. Proofs

Eight modules hold theorems; `PROJECT.json` lists the results. Everything is
proved for every value of the constants that satisfies the module's `ASSUME`,
which TLC evaluates on the instances of the runs. A theorem has a further
hypothesis where the code needs one - the one with which a run or the remarks
of section 3 show the property to fail.

`WorkQueueProofs` proves, from `ConstantsAssumption` alone (the sets of threads
are disjoint, the workers finitely many, descriptors are natural numbers, NULL
is none of them), for every choice of the constants:

* `TypeCorrect`, `ListCorrect`, `MemorySafe`, `ConnectionsSafe`,
  `CounterCorrect`: the invariants the run `WorkQueue` checks, that of the
  connections as long as no second close has hit a reused number;
* `NoWakeupLost`: `NoLostWakeup` is an invariant;
* `QueueRefinesFifo`: `WorkQueue` implements `FifoQueue`.

The inductive invariant `Inv` is the conjunction of the type invariant,
`ThreadProtocol`, `ListWellFormed`, `CellsOwnedOnce`, `ConnectionOwnedOnce` and
`CounterExact`. None is inductive alone. The list is well formed after an
enqueue only because the cell being linked is in nobody else's hands and its
`next` is NULL (`CellsOwnedOnce`, `ThreadProtocol`); the counter stays natural
only because it is at least the length of the list, which needs the head to be
NULL exactly when the list is empty (`ListWellFormed`); descriptors stay unique
only because cells are, and only until `misclosed`. `UnlinkFacts` collects what removing the head does, for
`dequeue_work` and `queue_cleanup` alike; `InvNext` has one step per action and
under it one per conjunct. `NoLostWakeup` is proved on top of `Inv`: an enqueue
adds one cell and wakes one waiter if there is one, and a woken worker that
leaves takes a cell with it, so the number of woken workers stays at least the
length of the list; that step is arithmetic on the cardinality of `Woken`. The
refinement maps each action to an action of `FifoQueue` or a stutter.

`DbTestProofs` proves, from `DbTestAssumption` alone (the thresholds leave room
in the table, as above; `main` is not a load thread; NULL is no name or value),
for every number of threads and requests, every table and every server that
implements `KVStore`:

* `TypeCorrect`, and `TableSafe`: the table is never overrun;
* `OneCall`: `OneCallPerKey`, the guarantee behind `Database`'s disciplines;
* `AlarmIsReal`: `NoFalseAlarm`.

The inductive invariant `Inv` has seven parts. `CountKept` bounds the table: the
count equals the used entries plus the threads that have counted an object and
not yet taken its entry, and the count plus the threads that have decided to
write is at most `lo + 98 + nthreads`; `FreeFound` concludes that `get_free`
finds an entry. It needs `EntryHeld` (an entry is busy for one thread), which in
turn needs that get_free did not return an index outside the table. `NamesKept`
is the comment "invariant: name == table[num].name, busy=1" (`dbtest.c:252`)
with what makes it inductive: names in the table are distinct, and a name just
drawn is nowhere else. With `Calling` it gives `OneCallPerKey`. `Faithful`, proved on
top of `Inv`, says that the server holds what the table says of every idle
entry, and of every busy one what its thread remembers, or has refused a call on
that name; a step of the server for one thread touches no other entry's name
because of `Inv`.

`DatabaseProofs` proves three layers, from what the callers guarantee, each for
every number of workers, slots and keys and every failure of an open or a write:

* `BusySlots`, whatever the callers do: a busy slot has a `db_write` in progress
  that will settle it;
* `StoreCorrect`, with one call per key at a time (`OneCallDiscipline`): until two
  writes meet in one slot, what is acknowledged is in the table and in the files
  (`StoreAgreesUntilRace`). dbtest gives that guarantee (`OneCall` above), and the
  run `DatabaseDbtest` shows the race;
* `TypeCorrect`, `Exclusive`, `StoreKept`, `DatabaseRefinesMap`, with one new key
  at a time besides (`Discipline = "one_new_key"`): no two writes fill one slot,
  `StoreAgrees` holds at all times, and the unlocked table implements the linearizable `KVStore`. No caller in the
  repository guarantees that much; a single client that waits for each answer does.

`BusySlots` has a small invariant of its own, `Placed`: a call between marking a
slot and settling it has that slot, and no other slot is busy without one. For the
second layer the invariant `Inv` says of every call what it has seen and holds
(`CallKept`, `Scanned`: the slots a search has passed do not hold its key;
`SlotKept`: the slot it took is its own until it is settled), that keys have one
call (`OneCall`), and of the table and the files that names and inodes are
distinct, that a valid slot names a stored key and each stored key has one, with
its value in its file unless a call on it is under way (`FilesDistinct`,
`RecordsAgree`, `KeysDistinct`, `KeysStored`). It is inductive as long as
`~raced`, since a write that marks the slot as it found it takes it from nobody.
The third layer adds `OneNewKey` and `FoundStays` - the slot a write has found
stays as it was until it is marked, because only another write of a new key could
take it - and from these that `raced` never becomes true (`NewInv`). A
search that reads one slot per step is right although the table changes under
it, since only a call on the same key could put the key behind it.

`DbServerProofs` proves, for every number of workers, clients and descriptors:

* `TypeCorrect`, without a hypothesis;
* `ConnectionsSafe`, `AnswersRouted`, `NobodyDropped`: the three safety
  properties, for every mix of clients, those that hang up included, as long as
  no second close has hit a reused number (`~misclosed`, in the properties
  themselves; `DbServerHangup` shows one that does).

Numbers are used again, so the invariant speaks of who holds a descriptor that
refers to a connection: every open connection is in one hand - the listener's,
the queue's, one worker's (`OneHand`) - whoever holds a number holds an open one
(`HeldOpen`) and conversely (`OpenHeld`), until the shutdown begins or a second
close does harm. A worker that has closed its connection and will close the number
again holds nothing (`HasClosed`); if the number is free then, nothing happens, and
if it is not, `misclosed` is set.

`ShellProofs` proves, from `ShellAssumption` alone, for every page size, buffer
size, argument count, input and `Sound` image:

* `LinesWhole` and `ArgsFound`: `LineAtATime`, `ArgsAreWords`;
* `ImagesLoaded` and `NothingLeft`: `ImageLoaded`, `NothingMappedAtPrompt`.

`Sound` images are those whose segments fit the pages counted for them and share
none; section 3 says what happens to the others. For `Sound` ones `ImagesLoaded`
gives the whole memory: the file's part of every segment, zeros in the rest of its
pages (`MemoryIs`), and no page of an earlier program.

The latter two rest on arithmetic of pages (`MultipleKept`, `Pagewise`): what
`exec_file` computes for `mmap` and again for `munmap` are the same pages, and
segments that share none do not disturb each other (`NextSegment`,
`AllInPlace`, `AllUnmapped`). `split` is a recursion; what it returns is proved
by following the rounds of its loop, each of which takes one word (`Rounded`,
`SplitFinds`, `SplitGives`), by induction on their number.

`TaskSwitchProofs` proves, from `TaskAssumption` alone:

* `CoroutinesImplemented`: the switcher implements `Coroutines`.

`Switched` is the heart: what one `switch_to` leaves on the old stack and takes
from the new one, `RegisterPlaces` that the offsets at which a context is read
are the order of the pops, `PushedAre` that a push disturbs nothing below. The
invariant: a process runs with its stack pointer where its calls put it, the
other has a frame of `setup_stack0` or one of its own yields on top of its
frames, and main a frame that returns to "done". Each action is then an action
of `Coroutines`; a null dereference never happens.

`Fs5600Proofs` proves, from `FsAssumption` and `"truncate" \notin Faulty`, for
every size of disk, directory, file, write and path, and for death or a failed
write at every block write of the other operations:

* `TypeCorrect`: no call writes to the superblock or beyond the disk, and no
  pointer leads there;
* `OwnedOnce`: no block belongs to two files or directories, in the middle of a
  call too;
* `UseMarked`: what is in use is marked, wherever a call may end;
* `NothingLeaks`: between calls, as long as nothing failed, nothing else is
  marked (`MarkedInUse`).

`fs_truncate` is left out of the failing operations because it breaks
`InUseMarked` when it stops half way (section 3). The difficulty is that a call
is a sequence of writes whose tail may be lost at any point, and that
`free_block`'s write of the bitmap may fail and the call go on. The invariant
therefore speaks of the future: `CallKept` (nothing is pending without a call;
only the bitmap goes to block 1) and `Planned`, that after any number of the
pending writes, whichever bitmap writes of a freeing call fail, the disk is
`Sound` - there is a tree of inodes that owns distinct blocks, each entry
leading to an inode of the tree and no two to the same - and that where the call
may end what the tree owns is marked, on the disk and in memory. A write then
keeps `Planned` by dropping the head, a crash by taking what is there; all the
work is to show `Planned` when a call begins, one lemma `...Goes` per operation.
They share lemmas on `allocate_block` (`AllocatedAre`: distinct free blocks,
lowest first), on the walk along a path, and on the four shapes of a plan - the
last write of a file, a link, a removal, a rename. `TypeOK` and the marks are
not inductive alone: that an entry leads to an inode is known only because the
tree is, and that a block just allocated is in nobody's hands only because every
block of the tree is marked. `InUse` is computed by levels from the root; that
what it finds is in the tree is an induction over the levels (`Live` within the
tree), on a function and not a recursive operator.

`NothingLeaks` needs the converse. `Sound` allows trees besides the root's, since
that is what a mkdir leaves that dies before its entry; so the second invariant,
`Balanced`, adds, until something fails, that the two bitmaps are the same and
that the pending writes `Settles` them: once the last is made, the disk is `Snug`
- some `Sound` tree is `Rooted`, the least set that the root and its entries close,
and nothing outside its blocks is marked. It is shown beside `Planned`, by the
same four shapes: a link adds the node and marks exactly its blocks, a removal of
a node that leads nowhere leaves the others reachable (`RootedRemoved`) and its
last bitmap lacks all the node owned. A `Rooted` tree is contained in every
`Sound` one (`RootedIn`), which is why it may be taken where `Inv` only promises
some tree. What remains is that `Live`, which stops at `MaxDepth` levels, misses
nothing: a node is on one level only (`TiersDisjoint`), a directory on the last
level has one above it on every level, and each takes two blocks of its own
(`TwoForEach`), more than the disk has (`TiersEnd`).

`FsTreeProofs` proves, on those invariants and from the same hypothesis:

* `FilesRefineTree`: the file system implements `FsTree` (`ImplementsFsTree`).

It has one more hypothesis, `ShortPaths`: no path asked for has more than
`MaxComponents` components (`MAX_PATH_COMPONENTS`, ten). `translate` drops those
beyond, so that a longer path answers for its prefix, which no caller wants and
`FsTree` does not promise. The runs keep within it (paths of up to two components
where two are read).

The tree of `FsTree` is computed by levels; the proof speaks instead of paths:
`Reaches(e, p, i)` says that on disk e path p leads to inode i, by an explicit
trail of entries, and `TreeOn(e)` is the set of nodes reached. `TreeIs` shows
that both agree, which needs that no path is longer than `MaxDepth` (`PathsEnd`,
from the blocks a directory owns). `PathUnique` (two paths never reach one inode)
comes from `Sound`; that one path never reaches two inodes (`NodeUnique`) needs
that a directory has no two entries of the same name, `Distinct`, which is no
property of the disk alone: `fs_create`, `fs_mkdir` and `fs_rename` look first.
`WalkResolves`, `TranslateIs` and `ResolveIs` connect the walk of the program with
the errors of `FsTree`.

Like `Planned`, the invariant speaks of the future, because the first write of a
call is often not the one that makes it happen: `Told` says that there is a tree
for each number of pending writes made (`Plot`) - whichever bitmap writes of a
freeing call fail, the disk then holds that tree, with distinct names - and that
from one to the next the tree stays, takes the whole effect of the call together
with its answer, or, for `fs_write`, has a longer prefix of the bytes it
overwrites. Each operation has a lemma `...Outcome`: the handler answers what
`FsTree` would answer, or leaves writes with such a plot. Under them are what the
four shapes of a plan do to `TreeOn` (`TreeAdded`, `TreeRemoved`, `TreeRefiled`,
`TreeRenamed`; the last by the effect of a rename on the paths component by
component, `RenamedOn`), and for `fs_write` the bytes of the file after each of
its writes (`WritePlots`): blocks inside the old size appear one by one
(`OverGoes`), those beyond it with the inode. `Follows` is the step simulation:
every step of `Fs5600` - the call, the handler, a write made, a write failed, the
return, the death - is a step of `FsTree` or a stutter (`NextFollows`).

The proof found two places where the model said less than it meant. `Errors` of
`FsTree` was a CASE whose arms overlapped, and TLA+ does not say which arm is
taken, although TLC takes the first; its arms are now disjoint (`EntryErrors`).
And nothing kept NULL, which stands for "no call", from being a call: the module
assumes it now.

Only model-checked: every liveness property - `LinkedIsTaken`,
`ShutdownStopsWorkers`, `ClientsAnswered`, `ConnectionsClosed`,
`QuitRequestExits`, `FinishesClean`, `MainFinishes` - because the prover has no
fairness.

## 5. Not modelled

* Sockets: requests arrive whole, a connected client is not silent for ever, the
  backlog is unbounded, and answering a client that left does not kill the
  process (SIGPIPE is not handled in the code).
* `print_stats`, `count_valid_objects`, `db_cleanup` and the files it removes as
  the process ends; a stale `shutdown_flag` kept in a register.
* File system: permission bits, owners and times; errors of block reads; torn
  block writes; file bytes that happen to spell directory entries when a path
  leads through a file; files beyond 1019 blocks (an assumption of the module);
  concurrent FUSE threads on the shared offset of the image; directories of
  several blocks, which the code does not have either.
* The server's last moments: `main` and the listener both close the number of
  the listening socket, which may have been handed out in between
  (`dbserver.c:60`); the safety properties of `DbServer` are stated until
  `shutdown_flag` is set.
* Load tester: `do_test`, `do_overload` and the one-shot commands, which make
  sequential calls and print the answers.
* `project1`: output, damaged ELF files and short file reads, the kernel entry of
  `syscall.S`, what the compiler adds to a function's own frame.
* `project0`: the cipher is a sum modulo 26 per letter with tests beside it, the
  list that of the work queue without threads.
* The FUSE front end (argument parsing and `fuse_main`), the Python image tools
  and the unit tests: read for what they expect; `gen-disk.py`'s image is
  `Fs5600`'s initial state, `read-img.py`'s walk its notion of a block in use.

## 6. Status

All components listed as modelled or partly modelled are checked, with abstract
specifications of all but the shell, and every invariant and refinement the
passing runs check is proved. What would extend the project: the failing
`fs_truncate` as a tree that loses bytes before it happens, silent clients in
`DbServer` (a timeout the code does not have), and the FUSE threads that share
the offset of the image.
