------------------------------- MODULE Batch -------------------------------
(***************************************************************************)
(* Per-file batching of reads and writes: jni/tracer/src/batch.c and the   *)
(* hooks read, write, fread, fwrite, pread and pwrite that use it, with    *)
(* close() and pthread_exit(), which dispatch what is left, and the ends   *)
(* of a thread that do not.                                                *)
(*                                                                         *)
(* Each hook keeps one batch per thread in thread-local variables: a file  *)
(* descriptor, an extent of blocks and the accesses it stands for.  The    *)
(* table of descriptors and the file positions are shared by all threads,  *)
(* and a hook looks at them only after the system call has returned.       *)
(***************************************************************************)
EXTENDS Integers, Sequences

CONSTANTS
  Threads,
  Fds,         \* file descriptors
  NoFd,        \* -1
  Files,       \* files, known to the tracer by their paths
  Traced,      \* files whose path skip_path() lets through
  Regular,     \* regular files; the others (pipes) cannot seek
  NULL,
  SeekOps,     \* read, write: the position moves by what was transferred
  StdioOps,    \* fread, fwrite: the position moves when stdio's buffer needs it
  PosOps,      \* pread, pwrite: the offset is an argument
  Sizes,       \* sizes of accesses, as returned (fread and fwrite: items)
  Fills,       \* by how much one fread or fwrite may move the position
  Offsets,     \* offsets for pread, pwrite and the application's lseek()
  BlkSize,     \* BLKSIZE
  Cap,         \* accesses that fit the access string (IOSTR_BUFSIZE - 64 bytes)
  MaxAccess    \* bound: system calls made

Ops == SeekOps \cup StdioOps \cup PosOps

(* A system call, and how far the hook is with it. *)
Calls == [op : Ops, fd : Fds, n : Nat \ {0}, off : Nat, file : Files,
          at : {"batch", "path", "notify", "dispatch"}]

ASSUME BatchAssumption ==
  /\ Threads # {} /\ NoFd \notin Fds /\ NULL \notin Files \cup Calls
  /\ Traced \subseteq Files /\ Regular \subseteq Files
  /\ Sizes \subseteq Nat \ {0} /\ Offsets \subseteq Nat /\ Fills \subseteq Nat
  /\ BlkSize \in Nat \ {0} /\ Cap \in Nat \ {0} /\ MaxAccess \in Nat

VARIABLES
  fdtab,   \* /proc/self/fd: the file behind each descriptor, or NULL
  pos,     \* the file position of each descriptor
  batch,   \* last_<op>_fd, _off, _size, <op>_iostr and <op>_path of each thread
  call,    \* the access a thread is making, or NULL
  out,     \* records given to bblog() by each thread and hook
  cnt,     \* accesses each thread and hook has recorded
  hist,    \* history: the accesses each thread and hook made to traced files
  total,   \* calls made
  fate     \* how each thread ended: pthread_exit(), return, fini() or cut off

vars == <<fdtab, pos, batch, call, out, cnt, hist, total, fate>>

live == {t \in Threads : fate[t] = "live"}

-----------------------------------------------------------------------------
(* batch.c.  A batch b also is the record that notify_read_write() makes   *)
(* of it.  An access also remembers, as history, the file it went to:      *)
(* what is emitted is the path of the batch.                               *)

curr_start(x) == x.off \div BlkSize
curr_end(x) == (x.off + x.n - 1 + BlkSize - 1) \div BlkSize

Last(b) == b.off + b.size - 1

(* batch_read_write_notify: emit the batch, if any, and start a new one. *)
Restart(b, fd, x) ==
  [fd |-> fd, off |-> curr_start(x), size |-> curr_end(x) - curr_start(x) + 1,
   accs |-> <<x>>, path |-> b.path]
Emitted(b) == IF b.fd # NoFd /\ b.size # 0 THEN <<b>> ELSE <<>>

(* record_iostr: add the access to the string, or start over when full. *)
Full(b) == Len(b.accs) >= Cap
Recorded(b, fd, x) ==
  IF Full(b) THEN Restart(b, fd, x)
  ELSE [fd |-> b.fd, off |-> b.off, size |-> b.size, accs |-> Append(b.accs, x),
        path |-> b.path]

Apart_Loose(b, x) == curr_start(x) > Last(b) + 2 \/ curr_end(x) < b.off - 1

(* The cases of batch_read_write_first, by where the access lies relative  *)
(* to the extent of batch b.                                               *)
Apart(b, x) == curr_start(x) > Last(b) + 1 \/ curr_end(x) < b.off - 1
Inside(b, x) == curr_start(x) >= b.off /\ curr_end(x) <= Last(b)
Beyond(b, x) ==
  curr_start(x) >= b.off /\ curr_start(x) <= Last(b) + 1 /\ curr_end(x) >= Last(b) + 1
Around(b, x) == curr_start(x) <= b.off /\ curr_end(x) >= Last(b)
Before(b, x) ==
  curr_start(x) < b.off /\ curr_end(x) >= b.off - 1 /\ curr_end(x) <= Last(b)

(* batch_read_write_first returns 0. *)
Handled(b, x) ==
  Apart(b, x) \/ Inside(b, x) \/ Beyond(b, x) \/ Around(b, x) \/ Before(b, x)

(* Batch c with another extent. *)
Resized(c, start, size) ==
  [fd |-> c.fd, off |-> start, size |-> size, accs |-> c.accs, path |-> c.path]

batch_read_write_first_KeepsOff(b, fd, x) ==
  LET c == Recorded(b, fd, x) IN
  IF Apart(b, x) THEN Restart(b, fd, x)
  ELSE IF Inside(b, x) THEN c
  ELSE IF Beyond(b, x) THEN Resized(c, c.off, c.size + (curr_end(x) - Last(b)))
  ELSE IF Around(b, x) THEN Resized(c, curr_start(x), curr_end(x) - curr_start(x) + 1)
  ELSE Resized(c, c.off, c.size + (b.off - curr_start(x)))

(* The batch it leaves behind.  last_start and last_end were read before   *)
(* record_iostr() and are those of b.                                      *)
batch_read_write_first(b, fd, x) ==
  LET c == Recorded(b, fd, x) IN
  IF Apart(b, x) THEN Restart(b, fd, x)
  ELSE IF Inside(b, x) THEN c
  ELSE IF Beyond(b, x) THEN Resized(c, c.off, c.size + (curr_end(x) - Last(b)))
  ELSE IF Around(b, x) THEN Resized(c, curr_start(x), curr_end(x) - curr_start(x) + 1)
  ELSE IF Before(b, x) THEN Resized(c, curr_start(x), c.size + (b.off - curr_start(x)))
  ELSE c

FirstEmits_NotWhenFull(b, x) == IF Apart(b, x) THEN Emitted(b) ELSE <<>>

(* What it emits on the way. *)
FirstEmits(b, x) == IF Apart(b, x) \/ Full(b) THEN Emitted(b) ELSE <<>>

-----------------------------------------------------------------------------
NoBatch == [fd |-> NoFd, off |-> -1, size |-> 0, accs |-> <<>>, path |-> NULL]

Init ==
  /\ fdtab = [fd \in Fds |-> NULL]
  /\ pos = [fd \in Fds |-> 0]
  /\ batch = [t \in Threads |-> [o \in Ops |-> NoBatch]]
  /\ call = [t \in Threads |-> NULL]
  /\ out = [t \in Threads |-> [o \in Ops |-> <<>>]]
  /\ cnt = [t \in Threads |-> [o \in Ops |-> 0]]
  /\ hist = [t \in Threads |-> [o \in Ops |-> <<>>]]
  /\ total = 0
  /\ fate = [t \in Threads |-> "live"]

Free(t) == t \in live /\ call[t] = NULL

Open(t, fd, f) ==
  /\ Free(t) /\ fdtab[fd] = NULL
  /\ fdtab' = [fdtab EXCEPT ![fd] = f]
  /\ pos' = [pos EXCEPT ![fd] = 0]
  /\ UNCHANGED <<batch, call, out, cnt, hist, total, fate>>

(* The application's own lseek(). *)
Lseek(t, fd, o) ==
  /\ Free(t) /\ fdtab[fd] # NULL /\ pos[fd] # o
  /\ pos' = [pos EXCEPT ![fd] = o]
  /\ UNCHANGED <<fdtab, batch, call, out, cnt, hist, total, fate>>

(* The actual call, at offset o, returned n > 0.  The hooks of pread and   *)
(* pwrite know o; the others ask lseek64() for it afterwards.              *)
Called(t, op, fd, n, o) ==
  /\ Free(t) /\ fdtab[fd] # NULL /\ total < MaxAccess
  /\ total' = total + 1
  /\ hist' = IF fdtab[fd] \in Traced \cap Regular
               THEN [hist EXCEPT ![t][op] = Append(@, [off |-> o, n |-> n])]
               ELSE hist
  /\ call' = [call EXCEPT ![t] =
                [op |-> op, fd |-> fd, n |-> n, off |-> o, file |-> fdtab[fd],
                 at |-> "batch"]]
  /\ UNCHANGED <<fdtab, batch, out, cnt, fate>>

Moved(fd, k) == pos' = [pos EXCEPT ![fd] = @ + k]

ReadWrite(t, op, fd, n) == op \in SeekOps /\ Called(t, op, fd, n, pos[fd]) /\ Moved(fd, n)

FreadFwrite(t, op, fd, n, k) == op \in StdioOps /\ Called(t, op, fd, n, pos[fd]) /\ Moved(fd, k)

PreadPwrite(t, op, fd, n, o) == op \in PosOps /\ Called(t, op, fd, n, o) /\ UNCHANGED pos

HookOff_AfterCall(c) ==
  IF c.op \in PosOps THEN c.off ELSE IF fdtab[c.fd] \in Regular THEN pos[c.fd] ELSE -1

(* off, as the hook of op computes it: lseek64() gives -1 for a closed     *)
(* descriptor and for a pipe.                                              *)
HookOff(c) ==
  IF c.op \in PosOps THEN c.off
  ELSE (IF fdtab[c.fd] \in Regular THEN pos[c.fd] ELSE -1) - c.n

(* The access, as written to the access string; its file is history. *)
Access(t, c) ==
  [id |-> cnt[t][c.op] + 1, off |-> HookOff(c), n |-> c.n, file |-> c.file]

(* batch[t][op] becomes b; the hook is done with the access, or not. *)
Record(t, op, b, emits, done) ==
  /\ batch' = [batch EXCEPT ![t][op] = b]
  /\ out' = [out EXCEPT ![t][op] = @ \o emits]
  /\ cnt' = IF done THEN [cnt EXCEPT ![t][op] = @ + 1] ELSE cnt

(* The hook finds the descriptor of its last batch: batch_read_write_first. *)
SameFile(t) ==
  LET c == call[t]
      b == batch[t][c.op]
      x == Access(t, c)
  IN
  /\ c # NULL /\ c.at = "batch"
  /\ b.fd = c.fd /\ x.off >= 0
  /\ Record(t, c.op, batch_read_write_first(b, c.fd, x), FirstEmits(b, x),
            Handled(b, x))
  /\ call' = [call EXCEPT ![t] = IF Handled(b, x) THEN NULL ELSE [c EXCEPT !.at = "path"]]
  /\ UNCHANGED <<fdtab, pos, hist, total, fate>>

OtherFile(t) ==
  LET c == call[t] IN
  /\ c # NULL /\ c.at = "batch"
  /\ ~(batch[t][c.op].fd = c.fd /\ HookOff(c) >= 0)
  /\ call' = [call EXCEPT ![t].at = "path"]
  /\ UNCHANGED <<fdtab, pos, batch, out, cnt, hist, total, fate>>

(* fd_to_path() writes into the path of the batch. *)
FdToPath(t) ==
  LET c == call[t]
      f == fdtab[c.fd]
  IN
  /\ c # NULL /\ c.at = "path"
  /\ batch' = IF f = NULL THEN batch ELSE [batch EXCEPT ![t][c.op].path = f]
  /\ call' = [call EXCEPT ![t] = IF f = NULL THEN NULL ELSE [c EXCEPT !.at = "notify"]]
  /\ UNCHANGED <<fdtab, pos, out, cnt, hist, total, fate>>

(* notify(): skip_path() of that path, fstat() of the descriptor. *)
Notify(t) ==
  LET c == call[t] IN
  /\ c # NULL /\ c.at = "notify"
  /\ call' = [call EXCEPT ![t] =
                IF batch[t][c.op].path \in Traced /\ fdtab[c.fd] \in Regular
                  THEN [c EXCEPT !.at = "dispatch"] ELSE NULL]
  /\ UNCHANGED <<fdtab, pos, batch, out, cnt, hist, total, fate>>

Dispatch_AnyOffset(t) ==
  LET c == call[t]
      b == batch[t][c.op]
      x == Access(t, c)
  IN
  /\ c # NULL /\ c.at = "dispatch"
  /\ Record(t, c.op, Restart(b, c.fd, x), Emitted(b), TRUE)
  /\ call' = [call EXCEPT ![t] = NULL]
  /\ UNCHANGED <<fdtab, pos, hist, total, fate>>

(* batch_read_write_second. *)
Dispatch(t) ==
  LET c == call[t]
      b == batch[t][c.op]
      x == Access(t, c)
  IN
  /\ c # NULL /\ c.at = "dispatch"
  /\ IF x.off >= 0
       THEN Record(t, c.op, Restart(b, c.fd, x), Emitted(b), TRUE)
       ELSE UNCHANGED <<batch, out, cnt>>
  /\ call' = [call EXCEPT ![t] = NULL]
  /\ UNCHANGED <<fdtab, pos, hist, total, fate>>

(* <op>_close: the hook's batch is for one of the descriptors S (all of    *)
(* them when the thread exits).  It becomes a record, and there is none.   *)
Closes(b, S) == b.fd \in S
Closed(b, S) == IF Closes(b, S) THEN [b EXCEPT !.fd = NoFd] ELSE b
Logged(r, b, S) == IF Closes(b, S) THEN Append(r, b) ELSE r

close_common_KeepsFd(t, S) ==
  /\ out' = [out EXCEPT ![t] = [o \in Ops |-> Logged(@[o], batch[t][o], S)]]
  /\ UNCHANGED batch

(* close_common: <op>_close of every hook. *)
close_common(t, S) ==
  /\ batch' = [batch EXCEPT ![t] = [o \in Ops |-> Closed(@[o], S)]]
  /\ out' = [out EXCEPT ![t] = [o \in Ops |-> Logged(@[o], batch[t][o], S)]]

Close(t, fd) ==
  /\ Free(t) /\ fdtab[fd] # NULL
  /\ close_common(t, {fd})
  /\ fdtab' = [fdtab EXCEPT ![fd] = NULL]
  /\ UNCHANGED <<pos, call, cnt, hist, total, fate>>

ThreadExit_KeepsBatch(t) ==
  /\ Free(t)
  /\ fate' = [fate EXCEPT ![t] = "exit"]
  /\ UNCHANGED <<fdtab, pos, call, batch, out, cnt, hist, total>>

(* pthread_exit() *)
ThreadExit(t) ==
  /\ Free(t)
  /\ close_common(t, Fds)
  /\ fate' = [fate EXCEPT ![t] = "exit"]
  /\ UNCHANGED <<fdtab, pos, call, cnt, hist, total>>

(* The thread returns from its start routine, which pthread_create() hands *)
(* on as it is: close_common() does not run.                               *)
ThreadReturn(t) ==
  /\ Free(t)
  /\ fate' = [fate EXCEPT ![t] = "return"]
  /\ UNCHANGED <<fdtab, pos, call, batch, out, cnt, hist, total>>

(* fini(), in one of the threads; the others end where they are. *)
ProcessExit(t) ==
  /\ Free(t)
  /\ close_common(t, Fds)
  /\ fate' = [u \in Threads |-> IF u = t THEN "fini" ELSE IF u \in live THEN "cut" ELSE fate[u]]
  /\ call' = [u \in Threads |-> NULL]
  /\ UNCHANGED <<fdtab, pos, cnt, hist, total>>

Hook(t) ==
  /\ t \in live
  /\ SameFile(t) \/ OtherFile(t) \/ FdToPath(t) \/ Notify(t) \/ Dispatch(t)

Done == live = {} /\ UNCHANGED vars

Next ==
  \/ \E t \in Threads :
       \/ Hook(t) \/ ThreadExit(t) \/ ThreadReturn(t) \/ ProcessExit(t)
       \/ \E fd \in Fds :
            \/ Close(t, fd)
            \/ \E f \in Files : Open(t, fd, f)
            \/ \E o \in Offsets : Lseek(t, fd, o)
            \/ \E op \in Ops, n \in Sizes :
                 \/ ReadWrite(t, op, fd, n)
                 \/ \E k \in Fills : FreadFwrite(t, op, fd, n, k)
                 \/ \E o \in Offsets : PreadPwrite(t, op, fd, n, o)
  \/ Done

Spec == Init /\ [][Next]_vars

-----------------------------------------------------------------------------
(* Properties.                                                             *)

Accesses == [id : Nat, off : Nat, n : Nat \ {0}, file : Files]
Batches == [fd : Fds \cup {NoFd}, off : Int, size : Int, accs : Seq(Accesses),
            path : Files \cup {NULL}]

Made == [off : Nat, n : Nat \ {0}]

(* Every variable keeps its type; an access in a batch or a record has an  *)
(* offset that is not negative, also when lseek64() failed because another *)
(* thread closed the descriptor.                                           *)
TypeOK ==
  /\ fdtab \in [Fds -> Files \cup {NULL}]
  /\ pos \in [Fds -> Nat]
  /\ batch \in [Threads -> [Ops -> Batches]]
  /\ call \in [Threads -> Calls \cup {NULL}]
  /\ out \in [Threads -> [Ops -> Seq(Batches)]]
  /\ cnt \in [Threads -> [Ops -> Nat]]
  /\ hist \in [Threads -> [Ops -> Seq(Made)]]
  /\ total \in Nat
  /\ fate \in [Threads -> {"live", "exit", "return", "fini", "cut"}]

(* The records a hook has made, and the batch it has not dispatched. *)
Trail(t, o) ==
  out[t][o] \o (IF batch[t][o].fd = NoFd THEN <<>> ELSE <<batch[t][o]>>)

(* The extent covers the range computed for every access in the string. *)
Covers(b) ==
  \A i \in 1 .. Len(b.accs) :
    b.off <= curr_start(b.accs[i]) /\ curr_end(b.accs[i]) <= Last(b)

(* The blocks in which an access has a byte, and those of all accesses in  *)
(* the access string.                                                      *)
Touched(x) == (x.off \div BlkSize) .. ((x.off + x.n - 1) \div BlkSize)
AllTouched(b) == UNION {Touched(b.accs[j]) : j \in 1 .. Len(b.accs)}

(* The extent of every batch and every record contains all the blocks that *)
(* the accesses it lists have touched, also after the access string        *)
(* overflowed in the middle of a merge.                                    *)
ExtentCovers ==
  \A t \in Threads, o \in Ops : \A i \in 1 .. Len(Trail(t, o)) :
    LET b == Trail(t, o)[i] IN AllTouched(b) \subseteq b.off .. Last(b)

(* While the access string has room, the extent is as tight as the         *)
(* rounding in batch.c allows: it starts with a touched block, contains    *)
(* all of them, and every other block follows a touched one (curr_end is   *)
(* rounded up and may be one block beyond the last byte).  So batches      *)
(* merge only when they overlap or adjoin.                                 *)
ExtentExact ==
  \A t \in Threads, o \in Ops : \A i \in 1 .. Len(Trail(t, o)) :
    LET b == Trail(t, o)[i]
        T == AllTouched(b)
    IN /\ b.off \in T
       /\ T \subseteq b.off .. Last(b)
       /\ \A k \in b.off .. Last(b) : k \in T \/ k - 1 \in T

(* Records r that list accesses one after the other, starting with 1. *)
LastId(b) == b.accs[Len(b.accs)].id
LastIdOf(r) == IF r = <<>> THEN 0 ELSE LastId(r[Len(r)])
Consecutive(b) ==
  b.accs # <<>> /\ \A j \in 2 .. Len(b.accs) : b.accs[j].id = b.accs[j - 1].id + 1
InOrder(r) ==
  \A i \in 1 .. Len(r) :
    Consecutive(r[i]) /\ r[i].accs[1].id = IF i = 1 THEN 1 ELSE LastId(r[i - 1]) + 1

(* The records of a hook, followed by its batch, list every access it      *)
(* recorded exactly once and in order; none is empty.                      *)
EachOnceInOrder ==
  \A t \in Threads, o \in Ops :
    InOrder(Trail(t, o)) /\ cnt[t][o] = LastIdOf(Trail(t, o))

(* pthread_exit() and fini() leave nothing out of the trace that their own *)
(* thread recorded, in any hook.  (A thread that returns, or that the exit *)
(* of the process cuts off, loses its open batches.)                       *)
Dispatched(t) == \A o \in Ops : cnt[t][o] = LastIdOf(out[t][o])
ExitDispatches == \A t \in Threads : fate[t] \in {"exit", "fini"} => Dispatched(t)

(* Between two calls of a thread that shares no descriptor, what a hook    *)
(* traced is what happened on the traced files: the same accesses in the   *)
(* same order, with their sizes and the offsets the hook worked out after  *)
(* the call, none missing and none from a file that is not traced.  (Under *)
(* which path they are emitted is another matter.)                         *)
TraceIsHistory ==
  \A t \in Threads, o \in Ops :
    call[t] = NULL =>
      /\ cnt[t][o] = Len(hist[t][o])
      /\ \A i \in 1 .. Len(Trail(t, o)) : \A j \in 1 .. Len(Trail(t, o)[i].accs) :
           LET a == Trail(t, o)[i].accs[j] IN hist[t][o][a.id] = [off |-> a.off, n |-> a.n]

(* The inductive invariant behind ExtentCovers and EachOnceInOrder.  For   *)
(* a hook with batch b that has made records r of n accesses: what was     *)
(* emitted is fine, and an open batch is not empty and goes on where the   *)
(* last record ended.                                                      *)
HookInv(b, r, n) ==
  /\ \A i \in 1 .. Len(r) : Covers(r[i])
  /\ Covers(b) /\ InOrder(r)
  /\ b.fd = NoFd => n = LastIdOf(r)
  /\ b.fd # NoFd => /\ b.size >= 1 /\ Consecutive(b)
                    /\ b.accs[1].id = LastIdOf(r) + 1
                    /\ n = LastId(b)

(* Every hook of every thread keeps its records, its batch and its count   *)
(* of accesses in step, whatever the other threads do to the descriptors.  *)
BatchInv == \A t \in Threads, o \in Ops : HookInv(batch[t][o], out[t][o], cnt[t][o])
=============================================================================
