# COSMOST tracer: TLA+ models, model checking and proofs

The repository holds the tracer of the COSMOST storage study: a shared library
(`jni/tracer`) that is preloaded into every Android process, wraps the libc calls
that touch files, and writes what it sees to the Android log as JSON. This
directory models the parts of the tracer that keep state: the process-wide trace
buffer and everyone who uses it, the per-file batching of reads and writes, the
cached process name, the life of the tracer in a process (constructor, threads,
flusher, signals, exit), the hooks on names, and the queue of trace buffers that a
header declares for the study's own service.

There are no tests and no design documents in the repository (its README is a
citation). The source is therefore the only reference; what the comments in the
source promise is what the "violation" runs hold it to.

## 1. The system

| part | state it keeps | operations | who calls it |
|---|---|---|---|
| trace buffer, `bblog.c` | `proc_pibr` (published buffer), one 64-bit word `pid,idx,ptr,ref` per buffer, `procid`, `last_flush_secs` | `bblog`, `swap_buffers`, `flush_buffer`, `bblog_init`, `bblog_exit` | every notification, the flusher, the signal handler, `fini()` |
| flusher thread, `flusher.c` | `flusher_info` (thread, `interrupt`) | start, loop, stop | `bblog_init`, `bblog_exit` |
| batching, `batch.c` | none of its own: works on the thread-local `last_<op>_fd/_off/_size`, `<op>_iostr`, `<op>_path` of a hook | `batch_read_write_first`, `batch_read_write_second`, `record_iostr` | the six read and write hooks |
| read and write hooks, `read.c`, `write.c`, `pread.c`, `pwrite.c`, `fread.c`, `fwrite.c` | one thread-local batch each | the hook, its `<op>_close` | the application |
| closing, `close.c` | none | `close`, `fclose`, `close_common` | the application, `pthread_exit`, `fini()` |
| path filter, `fs.c` | none | `fd_to_path`, `skip_path`, `notify`, `init`, `fini` | every hook |
| threads and processes, `pthread.c`, `clone.c` | `num_active_threads` | `pthread_create`, `pthread_exit`, `clone`/`fork` | the application |
| signals, `signal.c` | the handlers that were installed before | `aggregate_handler` | the kernel |
| counter, `counter.c` | `_cntr` | `cntr` | `bblog` |
| notifications, `notify.c` | none | one formatter per kind of record | the hooks |
| process name, `process.c` | the cached name and its pid | `process_name` | the prefix of a buffer |
| namespace hooks, `open.c`, `fopen.c`, `unlink.c`, `rename.c` | none, but the file system they look at is shared with everybody | look before the call, record after it | the application |
| `mmap.c` | none | record after the call | the application |
| trace queue, `include/utils/tracer.h` with `include/utils/list.h` | `_active` (position in the active buffer), `_head` (list head and count in one word), the list | `addEntry`, `enqueueTraceBuffer`, `run` | threads of the study's service |

The parts of the tracer share memory and nothing else: the buffer word and `proc_pibr` are
accessed with `__sync_*` builtins and without any lock; the batches are
thread-local but describe descriptors and file positions that all threads share.

What is hard about it:

* `bblog.c` is a lock-free protocol in which a reservation, a reference count and
  the identity of a buffer are packed into one word. A writer dereferences
  `proc_pibr` before it holds a reference. A flusher waits for a word to become
  exactly what it read earlier.
* The same code runs in a signal handler on top of a thread that may be anywhere
  in it, in a forked child that inherits half-done operations of threads it does
  not have, and at exit while other threads still log.
* Allocation can fail in the middle of a swap; the 16-bit index can carry into the
  pid field.
* The hooks look at the descriptor table and the file position after the system
  call has returned, when another thread may have moved, closed or reopened the
  descriptor.
* The access string of a batch can overflow in the middle of a merge.
* The thread that starts the flusher, the flusher and the thread that exits share one
  `thread_info` that two of them free; `fini()` runs twice in a traced process; a
  forked child inherits a `thread_info` whose thread it does not have.
* The namespace hooks look at a path, make the call and then write a record. Other
  threads and other processes change the same names between these steps.
* The trace queue links buffers into a list without a lock, while the worker exchanges
  the head of the list, walks the old one and frees it.

`PROJECT.json` lists every part with what is and is not modelled, and the hazards
at the lines where they bite.

The models follow the build in `Android.mk`: `PER_FILE_BATCHING`, `BATCH_BLOCKS`,
`BUFFER_BATCHING` and `FLUSHER_THREAD` are defined, on a 32-bit target. Code that
this build leaves out (`blog.c`, `timer.c`, `exec.c`, `list.c`) is not modelled.

## 2. Modules

| module | what it is |
|---|---|
| `Bblog` | the trace buffer with its writers, the flusher thread, a signal handler, exit, fork and thread creation |
| `RecordLog` | what the trace buffer promises: a record accepted stays pending until it is written, once, unless its buffer is torn |
| `BblogClaims` | what comments in `bblog.c` say and the code does not keep |
| `BblogProofs` | the theorems about `Bblog`: types and the flush protocol |
| `BblogRecordProofs` | what a buffer contains, and that messages hold whole records |
| `BblogRefinementProofs` | that `Bblog` implements `RecordLog`, and whose records a process writes |
| `Batch` | batching, the six hooks, close and exit, over shared descriptors and positions |
| `BatchClaims` | what a comment in the hooks says and the code does not keep |
| `BatchProofs` | the theorems about `Batch` |
| `ProcessName` | the cached process name and its lock-free replacement |
| `ProcessNameProofs` | the theorems about `ProcessName` |
| `Lifecycle` | constructor, thread count, start and stop of the flusher, signal handlers, `fini()` twice, fork |
| `LifecycleProofs` | the theorems about `Lifecycle` |
| `Namespace` | the hooks of open, fopen, unlink and rename, beside other threads and processes |
| `NamespaceProofs` | the theorems about `Namespace` |
| `TraceQueue` | the buffers, the list and the worker of `utils/tracer.h` |
| `TraceQueueProofs` | the theorems about `TraceQueue` |
| `MCBblog`, `MCBatch`, `MCProcessName`, `MCLifecycle`, `MCNamespace`, `MCTraceQueue` | threads, addresses, files and calls as model values, symmetry |

### Bblog

State. `procPibr` is `proc_pibr`; `header[p]` is the word at the start of the
buffer at address `p`, as a record of its four fields; `alive` is what
`memalign()` has handed out; `segs[p]` is the contents of a buffer: for each
record where it lies, how long it is, its number and the process that copied it.
`procid`, `pid`, `cntr`, `interrupt` are the variables of that name in the code;
`recent` says whether `last_flush_secs` is at most `FLUSH_TIMEOUT` seconds ago.
`log` is what was given to `__android_log_write`. `pc` and `th` are each actor's
program counter and locals. `th[a].stale` marks a pointer whose buffer was freed
after the actor read it, so that an address that is handed out again is told apart
from the one the actor holds; a comparison by address, as in `swap_buffers`, does
not see the difference and neither does `SwapCheck`. Two history variables, which no
action reads to decide anything, say when the code's own accounting breaks: `debt[p]` are
the bytes in the index of `p` that belong to reservations which failed and were not given
back yet, and `torn` are the buffers in which a reservation succeeded on top of such bytes.

Actions. One action is one access to shared memory, with everything the code
computes from it:

* `_blog`: `LoadProcPibr`, `FetchAndAdd` (reserve and reference in one step; room
  and pid are checked on the value fetched), `Memcpy`, `Unref`, or `Undo` when
  there is no room or the buffer is a parent's. `FetchAndAddFault` is the case
  where the word has no pointer: the subtraction through it comes before
  `no_batch_blog()`.
* `swap_buffers`: `SwapCheck`, `Alloc` or `AllocFail`, `InitBuffer`, `SwapCas`.
* `flush_buffer`: `FlushReadPid`, `FlushReadIdx`, `FlushCas` or `Spin`, `FlushWrite`.
* flusher: `Tick` (time passes), `FlWake`, `FlPeekPtr`, `FlPeek`, `FlReload`, then
  the swap. `proc_pibr` is read three times, as in the code. `FlWake` also leaves the loop
  when the process has the name of the study's service (`Renamed`); the flusher frees its
  `thread_info` on both ways out, and so `ExitJoin` has its double free after both.
* `Signal(v)` puts `bblog_exit(-signo)` on top of actor `v`, which stands still
  (`victim`) until the handler returns.
* `ExitBegin`, `ExitJoin`, `ExitZero`, `ProcessExit`: `bblog_exit(1)` from `fini()`.
  `ExitJoin` has both outcomes of freeing `thread_info` twice.
* `Fork` is seen from the child: memory is copied, one thread goes on, the others
  are gone. `Spawn` and `BblogInit` are `pthread_create()`.
* `BadAccess`: an access through a null or a freed pointer. It ends the behaviour,
  with the reason in `status`: what the memory holds after that is not the
  program's any more. This includes a stale pointer whose address was handed out again,
  where the code would go on; all safety properties hold up to the first stale use.

Abstractions. The text of a record is its number and length. The length of the
prefix is the same for all processes. `Limit` stands for
`LOGGER_ENTRY_MAX_PAYLOAD - 32`, `BufferSize` for `BUFFER_SIZE`, `FlushMin` for
`FLUSH_BUF_SIZE`, `IdxMod` for 2^16. Reads that cannot be told apart are merged:
`FlWake` reads `interrupt`, the time and `proc_pibr` together, `FlushReadPid` the
pid and `procid`, `InitBuffer` sets `procid` and writes the word of a buffer that
is still private. `LongNames` says whether the prefix of a process may turn out too
long, which leaves the word of its first buffer as `memalign()` gave it. The
reference count has no width of its own: it has the 12 low bits of the address, and
a process does not have 4096 threads inside `_blog()`.

### Batch

State. `fdtab` and `pos` are the descriptor table and the file positions, which
belong to the kernel. `batch[t][op]` is the set of thread-local variables of one
hook: descriptor, first block and number of blocks, the accesses in the access
string, and the path buffer. `call[t]` is the access a thread is making and how far
the hook has come. `out` are the records given to `bblog()`, each with the path that is
emitted. `fate` is how a thread ended. `cnt` numbers the accesses recorded, `hist` lists
offset and size of the calls really made on traced files, and the file of an access in the
access string is the one the call was made on; these are history that no action reads to
decide anything.

Actions. `Open`, `Lseek` and the three kinds of calls (`ReadWrite`, `FreadFwrite`,
`PreadPwrite`) are the application. After the call, the hook runs in steps that
others can come between: `SameFile` (`batch_read_write_first`), or `OtherFile`,
`FdToPath`, `Notify` and `Dispatch` (`batch_read_write_second`). The offset is what
the hook of that kind computes (`HookOff`): from an argument for pread and pwrite,
from `lseek64()` afterwards for the others, which is -1 for a descriptor that is
closed or is a pipe. `Close`, `ThreadExit` (the hooked `pthread_exit()`) and `ProcessExit`
call `close_common`. `ThreadReturn` does not: a thread that returns from its start routine
passes no hook, and its open batches are lost.
The five cases of `batch_read_write_first` are five operators, in the order in
which the code tests them; the values it reads before `record_iostr()` are the ones
it uses after it.

Abstractions. The access string is the sequence of accesses and its length is
counted in accesses (`Cap`), not in bytes. Paths are files. `skip_path()` and the
test for a regular file are the sets `Traced` and `Regular`. As the batches are
thread-local, the dispatch at `close()` commutes with every step of other threads,
and `Close` is one action. `fread` and `fwrite` may move the position by any of
`Fills`, since stdio reads ahead and writes behind.

### ProcessName

State. `cache` is `procname_pid`, pointer and pid in one 64-bit word; `alive` and
`text` are the memory the names are in; `title` is `/proc/self/cmdline`, which the
system changes when an application process gets its name. `th[t].cur` is
`old_procname` during a call and the name returned after it; it is marked stale as
in `Bblog` when that name is freed. `orphans` are the names a child inherits from
threads it does not have.

Actions. `process_name`, `LoadName`, `Compare` (the `strcmp` with "zygote", which
dereferences the pointer), `read_process_name`, `CasWon` (publish, free the old
name) or `CasLost` (free the new one, start over), `UseName` for the caller. The
compare-and-swap compares addresses, so that a new name at an old address passes for
the old one. `MallocFails` is the missing `return` at `process.c:54`; `BadAccess` is
the use of a name that was freed. Both end the behaviour.

### Lifecycle

State. `flusher_info` is the published `thread_info`; `heap`, `tid` and `interrupt` are
what is at each address, where a field nobody has written is `Junk`. `fl` and `arg` are
the flusher threads and their argument. `num` is `num_active_threads`, which is unsigned
in the code: a negative value is one that wrapped. `disp` is what the kernel does with a
signal, `old` what `init_signal()` remembers, `orig` what was there before. `errors`
collects memory errors after which a process may go on: after each the model either
continues or aborts.

Actions. `Ctor` decides whether the process is traced, `Count` is `pthread_common(1, _)`,
then `StartCheck`, `Malloc`, `Publish` (the compare-and-swap), `SetFields` and
`CreateFlusher` are `start_flusher_thread()`; the fields are set after the pointer is
published, as in the code. `CreateFlusher` may fail with a positive error number,
which the test for -1 does not see. `Atexit` and `InitSignal` end the constructor.
`Fini`, `StopTid`, `StopInterrupt`, `StopJoin`, `StopFree`, `FiniReturn` are `fini()` and
`stop_flusher_thread()`, run once from `atexit` and once as destructor.
`PthreadCreate`, `PhantomCreate` (a creation that is counted and creates no thread
here), `PthreadExit`, `ThreadReturn`, `Fork`, `Deliver` and `Sigaction` are the
application and the kernel. A flush may never return (`bblog.c:172`, module `Bblog`):
`FlusherSpins` is that of the flusher, and the flush of `fini()` and of the signal handler
may leave their thread at "stuck".

Abstractions. The flusher only sleeps, spins and ends; its loop is in `Bblog`. Addresses are not
reused, since the only compare-and-swap compares with NULL. `Renamed` stands for the
name that makes the flusher leave its loop.

### Namespace

State. `fs` is what is at each place, a place being a name in a directory. Per thread:
its call, `exists`, `flag` (the bits of `S_IFMT` that `notify()` returned), the result
and the record. History variables say which places the system call filled and
emptied, which others changed meanwhile, what the trace says is there (`replay`), and
which places the trace cannot follow (`blind`).

Actions. `Look` (`access()` or `lstat()` through `fd_to_path()` and `notify()`), `Syscall`
(success with its effect, or failure), `Log` (record and result), `Return`; `Other` is
another process, or a call that is not hooked. `Named` is the path the tracer takes a
base and a path for: it puts an absolute path behind the directory too. `KernelBase` is
the working directory for unlinkat() in a traced process, because `__UNLINKAT()` passes the path
and not the descriptor (`unlink.c:74`). `Overwrites` is the reuse of `ret` by
`fd_to_path()` (`rename.c:84`).

Abstractions. Directories are one level and stay; all symbolic links point to one
place; the prefixes of `skip_path()` are `TracedDirs`. Bits of a mode are kept as sets,
since `mode()` and `notify()` depend on which types share bits.

### TraceQueue

State. `abuf` and `taken` are the word `_active`; `head` and `count` the word `_head`;
`next`, `prev`, `buffer` the list in memory, `mem` what is allocated. `mixed` and
`linked` are history: the heads at which two list operations overlapped, and the nodes
completely linked.

Actions. `addEntry`, `Fetch` (the fetch-and-add), `Copy`, `Alloc`, `Exchange`; `Node`,
`Head`, `ReadPrev`, `SetPrev`, `SetNode`, `SetNext` are `enqueueTraceBuffer()` down to
the single stores of `list_add_tail()`; `Top`, `IdlePeek`, `Peek`, `NewHead`, `SwapHead`,
`Walk`, `FreeHead` are `run()`. A use of freed memory, a pointer that is no buffer's and
an exception in the worker end the behaviour with the reason in `status`.

Abstractions. A record is a slot. `flush()` is pure virtual in the source. Slots
counted beyond `Cap` are not told apart, except that `Carry` may happen there: the pointer
in the lower half of the word overflows into the upper half. `Walk` flushes and frees a
buffer in one step: until `free_trace_buffer()` the buffer is live (`tracer.h:183`), so that
a copy made while `flush()` runs counts as one made before it; which slots a flush finds
written is not modelled.

## 3. Runs

Passing runs:

| run | instance | shows |
|---|---|---|
| `BblogAppend` | 3 threads, 1 buffer, 4 records of length 1, 3 or 7, index modulo 5, failing `memalign()`, a prefix that may be too long: torn buffers occur and are flushed | `WholeRecords`, `ImplementsRecordLog` |
| `BblogProcess` | 2 threads, flusher, 1 signal, 1 fork, exit, 5 buffers, 2 records, index modulo 4 | `FlushInv`, `OwnRecords`, `ExclusiveFlush`, `WholeRecords`, `ImplementsRecordLog` |
| `BblogLive` | 2 threads, flusher, 3 buffers, 2 records, fairness | `AppendsEnd`, `FlusherDrains` |
| `BatchOne` | 1 thread, 2 descriptors, read and pread, a traced and a skipped file, 3 calls | `ExtentExact`, `TraceIsHistory` |
| `BatchThreads` | 2 threads, 1 descriptor, fwrite, a file and a pipe, 2 accesses per string, 3 calls | `TypeOK`, `BatchInv`, `ExtentCovers`, `EachOnceInOrder`, `ExitDispatches` |
| `ProcessName` | 3 threads, 3 addresses, 4 calls, 1 fork, the zygote's and one other name | `NameInv`, `FreedOnce`, `RightName`, `NameStays` |
| `Lifecycle` | 2 threads, 2 flushers, 2 addresses, 1 fork, 1 signal, 1 phantom creation, failing `malloc()` and `pthread_create()`, flushes that may spin, fairness | `TypeOK`, `FlusherInv`, `SafeUntilExit`, `CountKept`, `OldHandlers`, `ExitEnds` |
| `Namespace` | 2 threads, 28 forms of calls, 3 directories (one not traced, one not searchable), 2 names, 2 calls or changes by others | `TypeOK`, `TraceReplays`, `NewFilesRecorded`, `ModeTrue` |
| `TraceQueue` | 2 adders and the worker, buffers of 1 record, 3 buffers, 2 nodes, 2 heads, 4 records, failing allocations, fairness | `TypeOK`, `SlotsApart`, `OneSwapper`, `FlushedOnce`, `ListWhole`, `AddEnds`, `QueuedIsFlushed` |

* `ExclusiveFlush`: while one actor writes a buffer and frees it, no other is
  copying into it, has still to release it, or is writing it too.
* `WholeRecords`: a message is the prefix and whole records, without gap, overlap
  or a record cut short, whatever the number of threads, unless its buffer is torn. With
  three threads a reservation can succeed above a failed one; when the failed one is then
  given back, the index ends up inside the record above it. That is exactly when the
  property says nothing, and `BblogAppend` reaches it.
* `ImplementsRecordLog`: `Bblog` implements `RecordLog`, with the records in
  allocated buffers as the pending ones and those in torn buffers as the exposed ones. A
  record that was copied is lost by no step unless it is exposed, and no record, exposed
  or not, is written twice.
* `OwnRecords`: a child writes no record of its parent (again up to torn buffers), and each
  message is written by the process that its prefix names. It needs memory: see "Other
  behaviours".
* `AppendsEnd`: a call of `bblog()` returns, unless the process faults or the
  thread's own flush spins (which happens: see "Other behaviours").
* `FlusherDrains`: in a process that falls silent, less than `FLUSH_BUF_SIZE` bytes
  stay in the published buffer, unless the flusher itself spins, has left its loop because
  of the name of the process, or the process faults.
* `ExtentCovers`, `ExtentExact`: the extent of a batch covers all blocks in which its
  accesses have a byte; and, while the access string does not overflow, it starts with such
  a block and each other block follows one. The blocks touched are computed from the bytes
  (`Touched`), not with the formula of `batch.c`, which gives one block too many for most
  accesses (see "Other behaviours"): an extent may have blocks that were not touched, each
  behind one that was.
* `EachOnceInOrder`: the records of a hook and its open batch list each recorded
  access once and in order.
* `TraceIsHistory`: for a thread that shares no descriptor, the trace lists what happened
  on the traced files: the same sizes at the same offsets in the same order, none missing
  and none from a file that is skipped. Under which path they go out is not part of it, and
  is often wrong (run `BatchWrongPath`).
* `NameInv`: every allocated name is the published one, or in the hands of one
  thread that will publish or free it, or lost by a fork; with what the names in hand
  are. `FreedOnce`: no name is freed twice. `RightName`: a name that is returned was
  read by this process, and is not the zygote's if the call began after the process
  was renamed. `NameStays`: once the process has its own name and nobody is about to
  replace it, no call frees a name that a caller still reads, and this stays so over
  forks.
* `ExitDispatches`: what a thread recorded that ended in `pthread_exit()`, and what the
  thread recorded in which `fini()` ran, is in records. It says nothing of threads that
  return or that the exit of the process cuts off: their open batches are lost.
* `FlusherInv`: one starter is past the compare-and-swap, one flusher exists, it works
  on the published `thread_info`, which names it. `SafeUntilExit`: no race between
  starters, failures and forks uses or frees a `thread_info` wrongly before `exit()`.
* `CountKept`: until `fini()` has returned once, the thread count of a traced process is
  not below the number of threads it stands for, although a thread may have ended before
  its creator counts it, and so does not wrap. In a process that `init()` skips, the main
  thread is never counted (`fs.c:121`) and the count may be one short: the first `fini()`
  can wrap it.
* `OldHandlers`: a signal the tracer catches is passed to the handler that was installed
  before, also in the middle of `init_signal()`.
* `ExitEnds`: `exit()` ends, unless a flush does not return, its own or that of the flusher
  it joins, or it joins a flusher that fork() left behind.
* `TraceReplays`: replaying the records gives the files that are there, at every traced
  place that was changed only by calls whose records can tell, and by one at a time.
* `NewFilesRecorded`: a creation is recorded only of a file the call created, unless
  somebody else did after the look. `ModeTrue`: the type in a record is that of what was
  removed or moved, unless somebody came between look and call or the path looked at is not
  where the kernel worked. The second happens with nobody else around: `unlinkat()` with a
  descriptor, and absolute paths behind a descriptor.
* `SlotsApart`: no slot is handed out twice. `OneSwapper`: a full buffer is replaced and
  queued by one thread. `FlushedOnce`: none is flushed twice, whatever became of the list.
  `ListWhole`: a list on which no two operations overlapped has all its nodes, and the
  count of the head is right. `AddEnds`, `QueuedIsFlushed`: `addEntry()` returns unless
  the swapper's allocation threw, and a buffer queued without a race is flushed unless the
  tracer is being destroyed.

Violations. Each of these runs checks what one comment says, and TLC finds a
behaviour of the code in which it fails.

| run | comment | what happens |
|---|---|---|
| `BblogExitLoses` | `bblog.c:371` "flush buffered messages" | the word is zeroed before `flush_buffer()` reads the pid from it, so that the flush returns at once and the last buffer is lost |
| `BblogFreedUse` | `bblog.c:169` "no other thread (except this) must be holding refcnt on buffer" | a thread between reading `proc_pibr` and its fetch-and-add holds no reference yet, and adds to freed memory |
| `BatchWrongPath` | `read.c:115` "different file, dispatch batched read notifications" | the path buffer already has the path of the new file when the old batch is emitted |

Other behaviours that the models show and that no run is spent on.

In the trace buffer:

* `flush_buffer()` reads the index while a failed reservation is outstanding; after that is
  given back, its compare-and-swap never succeeds and it spins for ever (`bblog.c:172`).
* With three threads a reservation can succeed above a failed one; giving the failed one
  back leaves the index inside a record, which the next one overwrites or the flush cuts
  off (`torn`; the run `BblogAppend` goes through it).
* After a failed allocation `proc_pibr` is null and the next append dereferences it,
  although `bblog.c:201` says "fallback to non-batching mode".
* A child whose allocation fails in its first swap, or whose prefix is too long, flushes
  its parent's buffer, because `procid` was not updated (`MallocFails` and `MaxPid = 2`
  violate `OwnRecords`).
* A record longer than an empty buffer has room for makes `_blog()` swap buffers, and
  lose one each time, until `memalign()` fails and the append faults.
* The flusher can swap out a buffer with the prefix alone, since it reads `proc_pibr`
  again after its checks, and that buffer is never freed.
* A handler that interrupts a thread between its fetch-and-add and its release waits
  for ever.

In the batches and the process name: a thread that returns from its start routine loses
its open batches; the last byte of an access is made inclusive and its block then rounded
up (`batch.c:136`), so that 4096 bytes at offset 0, or one byte at offset 1, give the two
blocks 0 and 1, although the comment says "starting and ending block numbers"; after the access string overflowed in a merge, an
extent can contain blocks no access touched; a batch of another thread survives the
`close()` of its descriptor and absorbs accesses to the file that gets the number next;
while the process is the zygote every call of `process_name()` frees the name that
other threads may still be reading.

In the life cycle:

* The flusher frees its `thread_info`, and `stop_flusher_thread()` frees it again; the second
  `fini()` then reads the freed one.
* In a forked child `flusher_info` is not NULL: no flusher is started there, and `exit()`
  joins a thread that does not exist.
* `pthread_create()` reports failure by a positive number, which is not detected; `exit()`
  then joins a thread id nobody wrote.
* In a process that `init()` skips, the destructor wraps the thread count at its first run.
* A flusher that spins in `flush_buffer()` never looks at the flag again, and `exit()` waits
  for it for ever.
* `SIG_IGN` as the old handler is not NULL: the handler calls address 1.

In the hooks on names:

* `unlinkat()` with a descriptor removes the file of that name in the working directory
  (`unlink.c:74`).
* `renameat()` with two descriptors returns the length of a path, or -1, after a rename
  that succeeded (`rename.c:84`).
* Records of two threads can be in the other order than their calls.

In the trace queue:

* The idle worker queues its position minus the size of a buffer, which is no buffer's
  address unless the buffer is full; its test is the inverse of the comment at
  `tracer.h:150`.
* Threads that link at once lose nodes, or link into a head that was freed; a copy can come
  after its buffer was freed.
* An allocation that throws leaves all other threads spinning, and their additions overflow
  the pointer.

### Bounds

Lengths and limits are chosen so that a buffer holds one or two records and the next one
makes it full: every append is then near a boundary. A length of 3 never fits, and 7 is
refused by `bblog()`. With `IdxMod` 5 and `Limit` 4, or 4 and 3, two outstanding
reservations already carry into the pid. Three threads are what it takes to tear a buffer:
one whose failed reservation is still there, one that has given its own back below it, one
that then finds room; a fourth record comes after the tear, over the torn one.
`BblogAppend` has one buffer for this: a swap of a full buffer finds no memory, and the
buffer is flushed, freed and allocated again. Swaps for another buffer, those that lose
their race included, are in `BblogProcess` and `BblogLive`; the three buffers of `BblogLive`
are one published, one being flushed and one being made. Two records suffice for two
threads to race on a full buffer. One signal can interrupt any actor anywhere, once. One
fork gives a child in every state the parent's threads can leave behind.

In `Batch` blocks have two bytes and accesses one or three, at offsets that make all
five relations of access and extent occur, with and without a common boundary.
Three accesses are a first one, a merge and a second merge or an overflow.

In `ProcessName` three threads are needed for an address to come back under a
compare-and-swap: one that waits, one that replaces the name, one that replaces it
again at the old address. Three addresses make that happen and make `malloc()` fail.

In `BblogProcess` five buffers are those of the parent and of the child, so that no
allocation fails: with fewer the child could not replace the buffer it inherits. In
`Lifecycle` two threads race to start the flusher, one of them in a creation that made no
thread; one fork gives a child that inherits the flusher, and the second flusher and
address are there to be created if the code let them. In `Namespace` two events are a
call with another one, or a foreign change, at each of its three steps; the 48 file
systems to begin with have anything at one place, a file or nothing at two others. In `TraceQueue`
buffers of one record fill at every second addition, four records make two swaps, and the
two nodes and heads let the worker exchange the list between them.

`MaxRecs`, `MaxPid`, `MaxSignals`, `MaxAccess`, `MaxCalls`, `MaxForks`, `MaxPhantoms`,
`MaxEvents`, `MaxEntries` and `Cap` of `TraceQueue` are bounds of the models, not of
the code. The theorems hold for all their values.

The runs do not disable the check for deadlock. Where a process may rightly be at
rest (all threads outside `bblog()`, or the process gone) the models have an explicit
step that changes nothing (`Rest`, `Done`).

### Fairness

`FairSpec` assumes weak fairness of each actor's own steps and of time. Threads
are scheduled by the kernel without priorities that would starve one of them, and
no step of `bblog.c` blocks, so weak fairness per thread is what the platform gives;
a spin is a step too, so that fairness of a spinning thread promises nothing. A
thread under a signal handler has no fairness until the handler returns. Calls of
the application (`Call`, `Signal`) are never assumed to happen.

In `Lifecycle` each thread inside the tracer goes on, and so does the flusher once it was
interrupted: it sleeps for a bounded time and then tests the flag, or is held by a flush
that does not return (`FlusherSpins`). A thread in `pthread_join()` has no step until the
flusher is done, and a thread whose flush does not return has none at all. In `TraceQueue` each thread goes
on, the worker too, whose `sleep()` returns; that a thread calls `addEntry()`, or that the
tracer is destroyed, is not assumed.

## 4. Proofs

Every invariant, action property and refinement that a run checks is also a theorem,
for any number of threads, buffers, records, forks and signals, every record length and
every limit that the assumption of the module allows; three theorems have a hypothesis,
given below. The liveness properties are not theorems.

| module | theorems |
|---|---|
| `BblogProofs` | `FlushInvariant`: `FlushInv`, inductive; `FlushIsExclusive`: `ExclusiveFlush` |
| `BblogRecordProofs` | `RecordInvariant`: `RecordInv`, inductive; `RecordsAreWhole`: `WholeRecords` |
| `BblogRefinementProofs` | `LogInvariant`: `LogInv`, inductive; `BblogRefinesRecordLog`: `ImplementsRecordLog`; `ChildrenWriteTheirOwn`: `OwnRecords` (with `PrefixMade`) |
| `BatchProofs` | `BatchTypes`: `TypeOK`, no negative offset gets into a batch; `FirstHandles`: the five cases of `batch_read_write_first` are complete, so that its `return -1` is dead code; `BatchInvariant`: `BatchInv`, inductive; `ExtentsCover`, `EachOnce`, `ExitsDispatch`: `ExtentCovers`, `EachOnceInOrder`, `ExitDispatches`; `ExtentsExact`: `ExtentExact` where no string can fill (`MaxAccess <= Cap`); `TraceIsTrue`: `TraceIsHistory` for one thread without `fread` and `fwrite` |
| `ProcessNameProofs` | `NameInvariant`: `NameInv`, inductive; `NameFreedOnce`, `NameIsRight`: `FreedOnce`, `RightName`; `NameStaysValid`: the action property `NameStays` |
| `LifecycleProofs` | `TypeCorrect`: `TypeOK`, `fini()` runs twice at most; `FlusherCorrect`: `FlusherInv`, inductive; `SafeBeforeExit`: `SafeUntilExit`; `ChainsToOld`, `CountIsKept`: `OldHandlers`, `CountKept` |
| `NamespaceProofs` | `NamespaceInvariant`: `TypeOK` and `ThreadInv`, inductive; `NamespaceTypes`, `NewFilesAreNew`, `ModesAreTrue`: `TypeOK`, `NewFilesRecorded`, `ModeTrue`; `TraceInvariant`: `TraceInv`, inductive; `TraceReplaysFiles`: `TraceReplays` |
| `TraceQueueProofs` | `QueueTypes`: `TypeOK`; `QueueSlots`: `SlotInv`, inductive; `EverySlotOnce`, `EveryBufferQueuedOnce`: `SlotsApart`, `OneSwapper`; `QueueList`: `ListInv`, inductive; `NothingFlushedTwice`: `FlushedOnce`; `ListsAreWhole`: `ListWhole` |

### Assumptions

Assumptions on the constants are `BblogAssumption`, `BatchAssumption`, `NameAssumption`,
`LifecycleAssumption`, `NamespaceAssumption` and `QueueAssumption`. They say that there is
a thread, that the sets of threads, special actors and addresses are apart, that lengths
are natural numbers, records are not empty, and the limit and the prefix fit the index
field. In `TraceQueue` threads and nodes are finitely many, since `ListWhole` counts them.

Three theorems have a hypothesis:

* `ChildrenWriteTheirOwn` has `PrefixMade`: in a process without a prefix of its own,
  `memalign()` does not fail and the prefix fits. Otherwise the child flushes its parent's
  buffer (see "Other behaviours").
* `ExtentsExact` has `MaxAccess <= Cap`: no access string fills up.
* `TraceIsTrue` is about one thread and the hooks other than `fread` and `fwrite`: another
  thread may move the position or reopen the descriptor before the hook asks for it, and
  stdio reads ahead.

### Arguments

`ExclusiveFlush` is not inductive. It needs that the compare-and-swap to zero, which
a flusher makes when it sees no reference, really proves that there are no holders
(`RefsCounted`); that the count is not changed behind the holders' back, since nobody
re-initialises a buffer in use (`NewPrivate`, `PointersAlive`); that after the word
is zeroed nobody can take a reference any more (`WriteZeroed`: a fetch-and-add that
finds no pointer faults); and that two actors do not flush the same buffer
(`SwappedOut`). `FlushInv` is the conjunction of these. It is closed under a freed
buffer at the same address becoming a new one because a stale pointer is not `Sound`,
and under fork because the child has fewer holders and the same counts. Spurious
references of threads the child does not have make the count larger than the number
of holders, hence the inequality.

`WholeRecords` needs to know what is between the prefix and the index of a buffer
(`RecordInv`). The fields pid and idx are read as one number (`Val`), since a
fetch-and-add carries from one to the other. That number is the process times the range of
the index, plus where the records end, plus the debt (`Ends`); the records that were copied
and the room that was reserved lie below that end, apart from each other (`Laid`), and leave
no gap (`Full`). The debt is what actors at "undo" are going to give back (`Repaid`), so
that a word without references has none: the index which a flush reads is then where the
records end. A reservation that succeeds without debt starts at the end; one that succeeds
with debt tears the buffer, and nothing is claimed of it from then on. This is why the
proof needs no bound on the threads or on the range of the index. A buffer where fork()
copied a reference whose holder does not exist in the child (`Leaked`) may have gaps and
debt for ever: no flush of it gets past its compare-and-swap. Between that compare-and-swap
and the write, `WriteWhole` keeps what was known of the buffer.

`ImplementsRecordLog` needs in addition (`LogInv`) that records have different numbers
(`Numbered`) and are in one place (`Single`, `Disjoint`), and from `RecordInv` that nothing
lies where an actor is going to copy, even when exit zeroed the word meanwhile (`Separate`),
and that `flush_buffer()` does not write a prefix alone (`IdxRead`). Most steps leave log
and records alone. `FetchAndAdd` may tear a buffer, which exposes its records; `Memcpy`
adds one pending record, in a torn buffer possibly over exposed ones; `FlushWrite` moves the
records of a buffer to the log, those of a torn buffer that are cut off excepted. These are
the actions of `RecordLog`.

`OwnRecords` needs, beside `RecordInv` (a buffer that is not torn holds records of the one
process its word names), that who is inside `flush_buffer()` with a word that was not zeroed
is in the process the prefix was made for, and that the pid it has read there is that of the
process (`OwnInv`).

`BatchInv` says of each hook alone that its records cover their accesses and list
them consecutively, and that the open batch continues the last record. It must
mention the number of the last access, since an empty trail and one that ends with
an emitted record are continued differently. A step of one hook changes only its own
variables, so the invariant is proved for one hook and lifted; what other threads do
to descriptors and positions enters only through the offset, which `Dispatch` and
`SameFile` test. `ExitDispatches` follows from it and `ExitInv`: a thread that went through
`pthread_exit()` or `fini()` has no open batch.

`ExtentExact` needs that a hook lists at most as many accesses as it recorded, so that a
merge never finds the string full, and that the two merges of `batch.c` are taken only when
access and extent overlap or adjoin: their union is then an interval (`ExactHook`).
`TraceIsHistory` needs that during a call nobody else changes the descriptor and the position
that the hook will ask for (`CallInv`), and that the one access of the history that the
trail does not have yet is that of the call.

`FreedOnce` needs that the published name is never also in the hands of a thread
(`Accounted`): the winner of the compare-and-swap then frees a name that is allocated
and that nobody else will free, whether or not it is the one it loaded. `RightName`
needs that the cached pid is that of the reader of the name (`CachedFor`) and that a
name in hand that was not freed is still what was read (`InHand`). `NameStays` is an
action property of a state that is not reached at once, so that it is proved from
`NameInv` and `PidInv` (the cached pid is not that of a process to come, hence a child
never takes its parent's name for its own) for each action.

`SafeUntilExit` needs that an address in a starter's hands is its own until the
compare-and-swap (`Private`), that only one starter is past it (`OneStarter`), and that
the published `thread_info` is freed by nobody but the flusher that has it, before exit
(`OneFlusher`, `InfoKept`). `JoinedMeansFreed` and `OneExit` carry this through the stop,
where the errors begin. `OldHandlers` needs that the constructor's thread is alone
(`BootInv`) and that all old handlers are read before the first one is replaced
(`SignalInv`). `CountKept` compares the count with the cardinality of the set of counted threads,
and is proved by what each action adds to that set or takes from it.

The properties of `Namespace` follow from what is known of one call at each of its steps
(`ThreadInv`): what the look found is still so when the system call is made, unless the
place is among those that others have `disturbed` since (`Looked`); hence a file that was
missing is one the call made, and what was found is what it removed (`MadeNew`, `TrueMode`). A step of one thread changes for another only what
that thread counts as disturbed, so that the invariant is proved for the thread that moves
and for a bystander. `TraceReplays` (`TraceInv`) says that at a place that is not `blind` the
record still to be written makes up the difference: at most one call is pending there
(`Pending`), its record will add or remove what the call did (`Right`), and without a
pending call the replay is right.

`SlotsApart` and `OneSwapper` need that a new buffer is known to its maker alone until it is
exchanged (`NewApart`), and that nobody who found the buffer full still has it as the active
one afterwards (`Exchanged`). `FlushedOnce` holds under any races, since `list_add_tail()`
writes `node->prev` before the node can be reached and nobody writes it again: a node that
can be reached from another one points back to it (`BackLinks`), so that every node is reached
from one place only, and the worker never stands before a node it has flushed (`WalkOK`).
`ListWhole` needs that what the list of a head may point to is the head, its nodes, or a node
that is being linked there (`OwnNodes`), which no other list points to; that a head to come has
an empty list (`NewEmpty`); and for a list without overlap what the one actor at work has
read and written (`Alone`). `Chain` is the least set closed under `next`: a
node behind the last one is in every closed set, which is how the proof does without
induction over the list.

Only model-checked: the liveness properties `AppendsEnd`, `FlusherDrains`, `ExitEnds`, `AddEnds`
and `QueuedIsFlushed`, and with them everything about fairness and `ENABLED`, which are outside
the reach of the prover; and the three violations, which are behaviours.

## 5. Not modelled

* `mmap.c`: the hook makes the system call and writes one record; `mmap_close()` resets
  variables that nothing sets, and `munmap()` is compiled out. Its steps `fd_to_path()`
  and `notify()` are those of `Batch`.
* The wording of records in `notify.c`; `reset_cntr()`, `notify_munmap()` and
  `adjustFlushTimeout()`, which have no caller.
* `blog.c`, `timer.c`, `exec.c`, `list.c`: not in this build.
* The other headers of the study's service in `jni/include` (`db`, `fs`, `service`,
  `utils/thread.h`): declarations whose implementation is not in the repository.
* The remaining headers in `jni/include`, and `jni/libcutils` and `jni/libutils`: Android, SQLite
  and OpenSSL, vendored. They are most of the repository's lines, which is why the
  models, although they cover the tracer, cover a small share of it. Data and scripts: no
  state.

## 6. Plan

Done: `Bblog`, `RecordLog`, `Batch`, `ProcessName`, `Lifecycle`, `Namespace` and
`TraceQueue`, with theorems for all their invariants, their action properties and the
refinement.

Left: a composition of `Batch` with `RecordLog`: an access made before a thread exits is in
the log or pending.
