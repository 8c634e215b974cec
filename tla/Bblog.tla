------------------------------- MODULE Bblog -------------------------------
(***************************************************************************)
(* The process-wide trace buffer of jni/tracer/src/bblog.c, with everyone  *)
(* who touches it: application threads that log a record (_blog), the      *)
(* flusher thread (flusher.c), a signal handler that interrupts one of     *)
(* them, the thread that runs fini() at process exit, and fork.            *)
(*                                                                         *)
(* A buffer starts with one 64-bit word, packed as pid | idx | ptr | ref.  *)
(* A writer reserves room and takes a reference with a single              *)
(* fetch-and-add on that word, copies, and drops the reference.  A full    *)
(* buffer is swapped out of proc_pibr with a compare-and-swap; the winner  *)
(* waits for the word to show no reference, writes the buffer to the       *)
(* Android log and frees it.                                               *)
(*                                                                         *)
(* One action is one access to shared memory; what a thread computes       *)
(* between two accesses belongs to the first.  The behaviour ends at the   *)
(* first access through a null, freed or corrupted pointer ("status").     *)
(***************************************************************************)
EXTENDS Integers, Sequences, FiniteSets

CONSTANTS
  Threads,      \* application threads
  Flusher,      \* the flusher thread
  Handler,      \* the signal handler's frame, on top of the thread it interrupts
  Addrs,        \* memory: the addresses memalign() can return
  NULL,
  PrefixLen,    \* prefix_len: length of {"PID":..,"PROC":..,"BATCH":{
  LongNames,    \* a process name may make the prefix longer than MAX_PREFIX_LEN
  Limit,        \* LOGGER_ENTRY_MAX_PAYLOAD - 32
  BufferSize,   \* BUFFER_SIZE, the thread-local formatting buffer
  FlushMin,     \* FLUSH_BUF_SIZE
  IdxMod,       \* 2^16, the range of the idx field
  Sizes,        \* lengths a formatted record may have
  FlusherOn,    \* start_flusher_thread() did not skip this process
  MallocFails,  \* memalign() may fail although memory is left
  MayExit,      \* the process may run exit()
  Renamed,      \* the process may take the name of the study's own service
  MaxRecs,      \* bound: records logged
  MaxPid,       \* bound: the first process is 1, each fork adds one
  MaxSignals    \* bound: signals delivered

Actors == Threads \cup {Flusher, Handler}

ASSUME BblogAssumption ==
  /\ IsFiniteSet(Threads) /\ Threads # {}
  /\ Flusher \notin Threads /\ Handler \notin Threads /\ Flusher # Handler
  /\ NULL \notin Addrs /\ NULL \notin Actors
  /\ PrefixLen \in Nat \ {0} /\ LongNames \in BOOLEAN /\ Limit \in Nat
  /\ BufferSize \in Nat /\ FlushMin \in Nat /\ IdxMod \in Nat
  /\ IdxMod > Limit /\ IdxMod > PrefixLen
  /\ Sizes \subseteq Nat \ {0}
  /\ FlusherOn \in BOOLEAN /\ MallocFails \in BOOLEAN /\ MayExit \in BOOLEAN
  /\ Renamed \in BOOLEAN
  /\ MaxRecs \in Nat /\ MaxPid \in Nat \ {0} /\ MaxSignals \in Nat

VARIABLES
  procPibr,   \* proc_pibr: the published buffer, or NULL
  header,     \* the pibr word at each address
  alive,      \* addresses that are allocated
  segs,       \* records copied into each buffer since it was initialised
  procid,     \* procid: the pid the prefix was made for
  pid,        \* getpid()
  cntr,       \* _cntr of counter.c
  log,        \* messages given to __android_log_write, oldest first
  recent,     \* last_flush_secs is at most FLUSH_TIMEOUT ago
  interrupt,  \* flusher_info->interrupt
  exiting,    \* the thread that runs fini(), or NULL
  victim,     \* the actor the signal handler interrupted, or NULL
  sigs,       \* signals delivered so far
  status,     \* "running", "exited" or the kind of the fatal access
  pc,         \* where each actor is
  th,         \* each actor's local variables
  debt,       \* history: bytes in each word that belong to reservations that
              \* failed and are not given back
  torn        \* history: buffers where room was reserved above such bytes

vars == <<procPibr, header, alive, segs, procid, pid, cntr, log, recent,
          interrupt, exiting, victim, sigs, status, pc, th, debt, torn>>
buffers == <<header, alive, segs>>
process == <<procid, pid, cntr, sigs, exiting, interrupt>>
history == <<debt, torn>>

-----------------------------------------------------------------------------
(* The packed word.                                                        *)

Zero == [pid |-> 0, idx |-> 0, ptr |-> NULL, ref |-> 0]

pack_buffer(p, owner, i) == [pid |-> owner, idx |-> i, ptr |-> p, ref |-> 0]

(* __sync_fetch_and_add of pack_buffer(0, 0, s, r): the idx field carries  *)
(* into pid.  A negative s and r is __sync_fetch_and_sub; a negative ref   *)
(* stands for a word whose higher fields lost a borrow.                    *)
add(w, s, r) ==
  [pid |-> w.pid + ((w.idx + s) \div IdxMod), idx |-> (w.idx + s) % IdxMod,
   ptr |-> w.ptr, ref |-> w.ref + r]

(* PIBR_PTR(w) can be dereferenced. *)
GoodPtr(w) == w.ptr # NULL /\ w.ref >= 0

(* What memalign() may leave in a word that nobody initialises. *)
Garbage(p) == {Zero, [pid |-> 0, idx |-> 0, ptr |-> p, ref |-> -1]}

(* The positions a record occupies in buf[]. *)
Extent(s) == s.at .. (s.at + s.len - 1)

(* Locals of an actor that logs record r of length s and looks at p. *)
Local(r, s, p) == [cur |-> p, new |-> NULL, stale |-> FALSE,
                   rec |-> r, size |-> s, idx |-> 0, owner |-> 0]
Idle == Local(0, 0, NULL)

(* The pointer an actor is about to dereference is fine. *)
Sound(a) == th[a].cur # NULL /\ ~th[a].stale

Goto(a, l) == pc' = [pc EXCEPT ![a] = l]

(* An actor's view of proc_pibr, read once and used later. *)
Load(a) == th' = [th EXCEPT ![a] = Local(@.rec, @.size, procPibr)]

(* The statement that follows swap_and_flush_buffer() in each caller. *)
ReturnPc(a) ==
  IF a = Flusher THEN "sleep"
  ELSE IF a = Handler THEN "none"
  ELSE IF a = exiting THEN "done"
  ELSE IF th[a].rec # 0 THEN "load" ELSE "idle"

(* Locals that survive the return: the record a thread is still logging. *)
Returned(l) == Local(l.rec, l.size, NULL)

Return(a) ==
  /\ Goto(a, ReturnPc(a))
  /\ victim' = IF a = Handler THEN NULL ELSE victim

(* free(p): whoever still holds p from this allocation holds a stale one. *)
Freed(p, a) ==
  [b \in Actors |->
     IF b = a THEN Returned(th[a])
              ELSE [th[b] EXCEPT !.stale = @ \/ th[b].cur = p]]

(* init_buffer: a prefix that does not fit leaves the word as it is. *)
FirstWord(p) ==
  {pack_buffer(p, 1, PrefixLen)} \cup (IF LongNames THEN Garbage(p) ELSE {})

(* bblog_init(1) has run in the constructor. *)
Init ==
  /\ \/ \E p \in Addrs : \E w \in FirstWord(p) :
          /\ procPibr = p /\ alive = {p} /\ procid = w.pid
          /\ header = [q \in Addrs |-> IF q = p THEN w ELSE Zero]
     \/ /\ MallocFails
        /\ procPibr = NULL /\ alive = {} /\ procid = 0
        /\ header = [q \in Addrs |-> Zero]
  /\ segs = [q \in Addrs |-> {}]
  /\ pid = 1 /\ cntr = 0 /\ log = <<>> /\ sigs = 0
  /\ recent = FALSE /\ interrupt = FALSE
  /\ exiting = NULL /\ victim = NULL /\ status = "running"
  /\ pc = [a \in Actors |-> CASE a = Flusher -> IF FlusherOn THEN "sleep" ELSE "off"
                              [] a = Handler -> "none"
                              [] OTHER       -> "idle"]
  /\ th = [a \in Actors |-> Idle]
  /\ debt = [q \in Addrs |-> 0] /\ torn = {}

-----------------------------------------------------------------------------
(* _blog: append one record.                                               *)

(* bblog(): number and format a record of length s; too long is dropped. *)
bblog(t, s) ==
  /\ pc[t] = "idle" /\ cntr < MaxRecs
  /\ cntr' = cntr + 1
  /\ IF s >= BufferSize - 2
       THEN UNCHANGED <<pc, th>>
       ELSE /\ Goto(t, "load")
            /\ th' = [th EXCEPT ![t] = Local(cntr + 1, s, NULL)]
  /\ UNCHANGED <<procPibr, buffers, procid, pid, log, recent, interrupt, exiting,
                 victim, sigs, status, history>>

LoadProcPibr(t) ==
  /\ pc[t] = "load"
  /\ Load(t) /\ Goto(t, "add")
  /\ UNCHANGED <<procPibr, buffers, process, log, recent, victim, status, history>>

(* History: what becomes of a reservation of s bytes in p. *)
Reserve(p, s, room) ==
  /\ debt' = IF room THEN debt ELSE [debt EXCEPT ![p] = @ + s]
  /\ torn' = IF room /\ debt[p] # 0 THEN torn \cup {p} ELSE torn

FetchAndAdd_NoRef(t) ==
  LET p == th[t].cur
      w == header[p]
      room == w.pid = pid /\ w.idx + th[t].size < Limit
  IN
  /\ pc[t] = "add" /\ Sound(t) /\ GoodPtr(w)
  /\ header' = [header EXCEPT ![p] = add(w, th[t].size, 0)]
  /\ th' = [th EXCEPT ![t].idx = w.idx]
  /\ Goto(t, IF room THEN "copy" ELSE "undo")
  /\ Reserve(p, th[t].size, room)
  /\ UNCHANGED <<procPibr, alive, segs, process, log, recent, victim, status>>

FetchAndAdd(t) ==
  LET p == th[t].cur
      w == header[p]
      room == w.pid = pid /\ w.idx + th[t].size < Limit
  IN
  /\ pc[t] = "add" /\ Sound(t) /\ GoodPtr(w)
  /\ header' = [header EXCEPT ![p] = add(w, th[t].size, 1)]
  /\ th' = [th EXCEPT ![t].idx = w.idx]
  /\ Goto(t, IF room THEN "copy" ELSE "undo")
  /\ Reserve(p, th[t].size, room)
  /\ UNCHANGED <<procPibr, alive, segs, process, log, recent, victim, status>>

(* The word holds no buffer (it was zeroed by a flush or by exit) or a     *)
(* corrupted one: __sync_fetch_and_sub(&ptr->pibr, incr) faults, before    *)
(* no_batch_blog() on the next line can run.                               *)
FetchAndAddFault(t) ==
  /\ pc[t] = "add" /\ Sound(t) /\ ~GoodPtr(header[th[t].cur])
  /\ status' = IF header[th[t].cur].ptr = NULL THEN "null" ELSE "wild"
  /\ UNCHANGED <<procPibr, buffers, process, log, recent, victim, pc, th, history>>

(* A record that lies where this one is copied to is gone. *)
Memcpy(t) ==
  LET r == [at |-> th[t].idx, len |-> th[t].size, rec |-> th[t].rec, by |-> pid] IN
  /\ pc[t] = "copy" /\ Sound(t)
  /\ segs' = [segs EXCEPT ![th[t].cur] =
                {s \in @ : Extent(s) \cap Extent(r) = {}} \cup {r}]
  /\ Goto(t, "unref")
  /\ UNCHANGED <<procPibr, header, alive, process, log, recent, victim, status, th, history>>

Unref(t) ==
  /\ pc[t] = "unref" /\ Sound(t)
  /\ header' = [header EXCEPT ![th[t].cur] = add(@, 0, -1)]
  /\ Goto(t, "idle")
  /\ th' = [th EXCEPT ![t] = Idle]
  /\ UNCHANGED <<procPibr, alive, segs, process, log, recent, victim, status, history>>

Undo_NoSwap(t) ==
  /\ pc[t] = "undo" /\ Sound(t)
  /\ header' = [header EXCEPT ![th[t].cur] = add(@, -th[t].size, -1)]
  /\ Goto(t, "load")
  /\ debt' = [debt EXCEPT ![th[t].cur] = @ - th[t].size]
  /\ UNCHANGED <<procPibr, alive, segs, process, log, recent, victim, status, th, torn>>

(* No room, or a buffer inherited over fork: give the reservation back. *)
Undo(t) ==
  /\ pc[t] = "undo" /\ Sound(t)
  /\ header' = [header EXCEPT ![th[t].cur] = add(@, -th[t].size, -1)]
  /\ Goto(t, "check")
  /\ debt' = [debt EXCEPT ![th[t].cur] = @ - th[t].size]
  /\ UNCHANGED <<procPibr, alive, segs, process, log, recent, victim, status, th, torn>>

-----------------------------------------------------------------------------
(* swap_buffers: replace the buffer this actor saw, unless another did.    *)

(* An address that compares equal to proc_pibr is a good one again, even   *)
(* when it was freed and handed out anew in between (ABA).                 *)
SwapCheck(a) ==
  /\ pc[a] = "check"
  /\ IF procPibr = th[a].cur
       THEN /\ Goto(a, "alloc")
            /\ th' = [th EXCEPT ![a].stale = FALSE]
            /\ UNCHANGED victim
       ELSE /\ Return(a)
            /\ th' = [th EXCEPT ![a] = Returned(@)]
  /\ UNCHANGED <<procPibr, buffers, process, log, recent, status, history>>

Alloc(a) ==
  /\ pc[a] = "alloc"
  /\ \E p \in Addrs \ alive :
       /\ alive' = alive \cup {p}
       /\ th' = [th EXCEPT ![a].new = p]
  /\ Goto(a, "init")
  /\ UNCHANGED <<procPibr, header, segs, process, log, recent, victim, status, history>>

(* memalign() failed: __sync_fetch_and_and(&proc_pibr, 0), whatever        *)
(* proc_pibr is by now, and the caller goes on to flush the old buffer.    *)
AllocFail(a) ==
  /\ pc[a] = "alloc"
  /\ MallocFails \/ Addrs \subseteq alive
  /\ procPibr' = NULL
  /\ IF th[a].cur # NULL
       THEN Goto(a, "fpid") /\ UNCHANGED <<victim, th>>
       ELSE Return(a) /\ th' = [th EXCEPT ![a] = Returned(@)]
  /\ UNCHANGED <<buffers, process, log, recent, status, history>>

(* init_buffer and reinit_procid: the first buffer of a process makes the  *)
(* prefix, which may turn out too long.                                    *)
InitBuffer(a) ==
  /\ pc[a] = "init"
  /\ \/ /\ procid' = pid
        /\ header' = [header EXCEPT ![th[a].new] =
                        pack_buffer(th[a].new, pid, PrefixLen)]
     \/ /\ LongNames /\ procid # pid /\ UNCHANGED procid
        /\ \E w \in Garbage(th[a].new) : header' = [header EXCEPT ![th[a].new] = w]
  /\ Goto(a, "cas")
  /\ debt' = [debt EXCEPT ![th[a].new] = 0] /\ torn' = torn \ {th[a].new}
  /\ UNCHANGED <<procPibr, alive, segs, pid, cntr, log, recent, interrupt, exiting,
                 victim, sigs, status, th>>

SwapCas(a) ==
  LET won == procPibr = th[a].cur
      flush == won /\ th[a].cur # NULL
  IN
  /\ pc[a] = "cas"
  /\ procPibr' = IF won THEN th[a].new ELSE procPibr
  /\ alive' = IF won THEN alive ELSE alive \ {th[a].new}
  /\ IF flush
       THEN /\ Goto(a, "fpid")
            /\ th' = [th EXCEPT ![a] = Local(@.rec, @.size, @.cur)]
            /\ UNCHANGED victim
       ELSE /\ Return(a)
            /\ th' = IF won THEN [th EXCEPT ![a] = Returned(@)] ELSE Freed(th[a].new, a)
  /\ UNCHANGED <<header, segs, process, log, recent, status, history>>

-----------------------------------------------------------------------------
(* flush_buffer: write out the buffer that was swapped out.                *)

FlushReadPid_NoCheck(a) ==
  /\ pc[a] = "fpid" /\ Sound(a)
  /\ Goto(a, "fidx")
  /\ th' = [th EXCEPT ![a].owner = header[th[a].cur].pid]
  /\ UNCHANGED <<procPibr, buffers, process, log, recent, victim, status, history>>

(* A buffer whose prefix names another process is left as it is, and is    *)
(* never freed.                                                            *)
FlushReadPid(a) ==
  LET w == header[th[a].cur] IN
  /\ pc[a] = "fpid" /\ Sound(a)
  /\ IF w.pid = procid
       THEN /\ Goto(a, "fidx")
            /\ th' = [th EXCEPT ![a].owner = w.pid]
            /\ UNCHANGED victim
       ELSE /\ Return(a)
            /\ th' = [th EXCEPT ![a] = Returned(@)]
  /\ UNCHANGED <<procPibr, buffers, process, log, recent, status, history>>

(* The prefix alone is not worth a message; that buffer is not freed. *)
FlushReadIdx(a) ==
  LET w == header[th[a].cur] IN
  /\ pc[a] = "fidx" /\ Sound(a)
  /\ IF w.idx # PrefixLen
       THEN /\ Goto(a, "fcas")
            /\ th' = [th EXCEPT ![a].idx = w.idx]
            /\ UNCHANGED victim
       ELSE /\ Return(a)
            /\ th' = [th EXCEPT ![a] = Returned(@)]
  /\ UNCHANGED <<procPibr, buffers, process, log, recent, status, history>>

Unreferenced_IgnoresRef(a) ==
  [header[th[a].cur] EXCEPT !.ref = 0] =
    pack_buffer(th[a].cur, th[a].owner, th[a].idx)

(* The word shows no reference, and the pid and idx read before. *)
Unreferenced(a) ==
  header[th[a].cur] = pack_buffer(th[a].cur, th[a].owner, th[a].idx)

FlushCas(a) ==
  /\ pc[a] = "fcas" /\ Sound(a) /\ Unreferenced(a)
  /\ header' = [header EXCEPT ![th[a].cur] = Zero]
  /\ Goto(a, "write")
  /\ UNCHANGED <<procPibr, alive, segs, process, log, recent, victim, status, th, history>>

Spin(a) ==
  /\ pc[a] = "fcas" /\ Sound(a) /\ ~Unreferenced(a)
  /\ UNCHANGED vars

(* strcpy of "}}" at idx - 1, which cuts off whatever lies beyond;         *)
(* __android_log_write, the time of the flush, free().                     *)
FlushWrite(a) ==
  LET p == th[a].cur IN
  /\ pc[a] = "write" /\ Sound(a)
  /\ log' = Append(log, [pid |-> th[a].owner, by |-> pid,
                         end |-> th[a].idx, torn |-> p \in torn,
                         segs |-> {s \in segs[p] : s.at + s.len <= th[a].idx}])
  /\ recent' = TRUE
  /\ alive' = alive \ {p}
  /\ segs' = [segs EXCEPT ![p] = {}]
  /\ th' = Freed(p, a)
  /\ Return(a)
  /\ UNCHANGED <<procPibr, header, process, status, history>>

-----------------------------------------------------------------------------
(* The flusher thread: after FLUSH_TIMEOUT seconds without a flush, swap   *)
(* out a buffer that is worth a message.                                   *)

(* More than FLUSH_TIMEOUT seconds have passed since last_flush_secs. *)
Tick ==
  /\ recent /\ pc[Flusher] = "sleep"
  /\ recent' = FALSE
  /\ UNCHANGED <<procPibr, buffers, process, log, victim, status, pc, th, history>>

(* The loop also ends when the process has become the study's service. *)
FlWake(a) ==
  /\ a = Flusher /\ pc[a] = "sleep"
  /\ \/ Goto(a, IF interrupt THEN "off"
                ELSE IF recent \/ procPibr = NULL THEN "sleep" ELSE "peekptr")
     \/ Renamed /\ Goto(a, "off")
  /\ UNCHANGED <<procPibr, buffers, process, log, recent, victim, status, th, history>>

FlPeekPtr(a) ==
  /\ pc[a] = "peekptr"
  /\ Load(a) /\ Goto(a, "peek")
  /\ UNCHANGED <<procPibr, buffers, process, log, recent, victim, status, history>>

FlPeek_Above(a) ==
  LET w == header[th[a].cur]
      useful == GoodPtr(w) /\ w.pid = pid /\ w.idx > FlushMin
  IN
  /\ pc[a] = "peek" /\ Sound(a)
  /\ Goto(a, IF useful THEN "reload" ELSE "sleep")
  /\ th' = [th EXCEPT ![a] = Idle]
  /\ UNCHANGED <<procPibr, buffers, process, log, recent, victim, status, history>>

FlPeek(a) ==
  LET w == header[th[a].cur]
      useful == GoodPtr(w) /\ w.pid = pid /\ w.idx >= FlushMin
  IN
  /\ pc[a] = "peek" /\ Sound(a)
  /\ Goto(a, IF useful THEN "reload" ELSE "sleep")
  /\ th' = [th EXCEPT ![a] = Idle]
  /\ UNCHANGED <<procPibr, buffers, process, log, recent, victim, status, history>>

(* The argument of swap_and_flush_buffer(): *proc_pibr is read once more. *)
FlReload(a) ==
  /\ pc[a] = "reload"
  /\ Load(a) /\ Goto(a, "check")
  /\ UNCHANGED <<procPibr, buffers, process, log, recent, victim, status, history>>

-----------------------------------------------------------------------------
(* Signals, exit, fork and thread creation.                                *)

(* bblog_exit(-signo), run on top of whatever thread the signal hits. *)
Signal(v) ==
  /\ sigs < MaxSignals /\ pc[Handler] = "none"
  /\ pc[v] \notin {"off", "dead"}
  /\ sigs' = sigs + 1
  /\ victim' = v
  /\ Load(Handler) /\ Goto(Handler, "check")
  /\ UNCHANGED <<procPibr, buffers, procid, pid, cntr, log, recent, interrupt,
                 exiting, status, history>>

(* bblog_exit(1) from fini(): stop_flusher_thread() first. *)
ExitBegin(t) ==
  /\ MayExit /\ exiting = NULL /\ pc[t] = "idle"
  /\ exiting' = t
  /\ interrupt' = FlusherOn
  /\ Goto(t, "join")
  /\ UNCHANGED <<procPibr, buffers, procid, pid, cntr, log, recent, victim, sigs,
                 status, th, history>>

(* pthread_join returned.  flusher_thread() has freed its thread_info and  *)
(* stop_flusher_thread() frees it again: the allocator aborts, or not.     *)
ExitJoin(t) ==
  /\ pc[t] = "join" /\ pc[Flusher] \in {"off", "dead"}
  /\ \/ Load(t) /\ Goto(t, "zero") /\ UNCHANGED status
     \/ /\ FlusherOn /\ pc[Flusher] = "off"
        /\ status' = "doublefree" /\ UNCHANGED <<pc, th>>
  /\ UNCHANGED <<procPibr, buffers, process, log, recent, victim, history>>

(* pibr = __sync_fetch_and_and(proc_pibr, 0), and flush_buffer(PIBR_PTR(pibr)). *)
ExitZero(t) ==
  LET p == th[t].cur
      w == header[p]
  IN
  /\ pc[t] = "zero" /\ Sound(t)
  /\ header' = [header EXCEPT ![p] = Zero]
  /\ IF w.ptr # NULL /\ w.ref < 0
       THEN status' = "wild" /\ UNCHANGED <<pc, th>>
       ELSE /\ UNCHANGED status
            /\ IF GoodPtr(w) THEN Goto(t, "fpid") /\ UNCHANGED th
                             ELSE Goto(t, "done") /\ th' = [th EXCEPT ![t] = Idle]
  /\ UNCHANGED <<procPibr, alive, segs, process, log, recent, victim, history>>

ProcessExit(t) ==
  /\ pc[t] = "done"
  /\ status' = "exited"
  /\ UNCHANGED <<procPibr, buffers, process, log, recent, victim, pc, th, history>>

(* fork(), seen from the child: a copy of the memory and one thread. *)
Fork(t) ==
  /\ pc[t] = "idle" /\ pid < MaxPid /\ exiting = NULL
  /\ pid' = pid + 1
  /\ pc' = [a \in Actors |-> CASE a = t \/ pc[a] = "off" -> pc[a]
                               [] a = Handler             -> "none"
                               [] OTHER                   -> "dead"]
  /\ th' = [a \in Actors |-> Idle]
  /\ victim' = NULL
  /\ UNCHANGED <<procPibr, buffers, procid, cntr, log, recent, interrupt, exiting,
                 sigs, status, history>>

(* pthread_create: bblog_init() in the creating thread allocates a buffer  *)
(* when there is none.                                                     *)
BblogInit(t) ==
  /\ pc[t] = "idle" /\ procPibr = NULL
  /\ Goto(t, "check")
  /\ UNCHANGED <<procPibr, buffers, process, log, recent, victim, status, th, history>>

(* A thread of the child that fork() did not copy is created. *)
Spawn(u) ==
  /\ pc[u] = "dead" /\ u \in Threads /\ exiting = NULL
  /\ Goto(u, "idle")
  /\ UNCHANGED <<procPibr, buffers, process, log, recent, victim, status, th, history>>

(* An access through a pointer that is null or was freed. *)
Derefs == {"add", "copy", "unref", "undo", "fpid", "fidx", "fcas", "write", "peek", "zero"}

BadAccess(a) ==
  /\ pc[a] \in Derefs /\ ~Sound(a)
  /\ status' = IF th[a].cur = NULL THEN "null" ELSE "freed"
  /\ UNCHANGED <<procPibr, buffers, process, log, recent, victim, pc, th, history>>

-----------------------------------------------------------------------------
Blog(t) ==
  \/ LoadProcPibr(t) \/ FetchAndAdd(t) \/ FetchAndAddFault(t)
  \/ Memcpy(t) \/ Unref(t) \/ Undo(t)

SwapAndFlush(a) ==
  \/ SwapCheck(a) \/ Alloc(a) \/ AllocFail(a) \/ InitBuffer(a) \/ SwapCas(a)
  \/ FlushReadPid(a) \/ FlushReadIdx(a) \/ FlushCas(a) \/ Spin(a) \/ FlushWrite(a)

FlusherThread(a) == FlWake(a) \/ FlPeekPtr(a) \/ FlPeek(a) \/ FlReload(a)

Exit(t) == ExitJoin(t) \/ ExitZero(t) \/ ProcessExit(t)

(* What an actor does once it has been called. *)
Step(a) ==
  /\ status = "running" /\ a # victim
  /\ Blog(a) \/ SwapAndFlush(a) \/ FlusherThread(a) \/ Exit(a) \/ BadAccess(a)

(* What the application and the kernel may ask of it. *)
Call(a) ==
  /\ status = "running" /\ a # victim
  /\ \/ \E s \in Sizes : bblog(a, s)
     \/ BblogInit(a) \/ Spawn(a) \/ ExitBegin(a) \/ Fork(a)

(* Nothing is left to do, or the process is gone. *)
Rest ==
  /\ \/ status # "running"
     \/ \A a \in Actors : pc[a] \in {"idle", "sleep", "off", "none", "dead"}
  /\ UNCHANGED vars

Next ==
  \/ \E a \in Actors : Step(a) \/ Call(a)
  \/ \E v \in Threads \cup {Flusher} : status = "running" /\ Signal(v)
  \/ status = "running" /\ Tick
  \/ Rest

Spec == Init /\ [][Next]_vars

(* Threads, the flusher and a handler each keep running, and time passes. *)
FairSpec ==
  Spec /\ WF_vars(status = "running" /\ Tick) /\ \A a \in Actors : WF_vars(Step(a))

-----------------------------------------------------------------------------
(* Properties.                                                             *)

Pcs == Derefs \cup {"idle", "dead", "load", "check", "alloc", "init", "cas", "sleep",
                    "off", "peekptr", "reload", "none", "join", "done"}

Words == [pid : Int, idx : 0 .. IdxMod - 1, ptr : Addrs \cup {NULL}, ref : Int]
Segs == [at : Nat, len : Nat, rec : Nat, by : Nat]
Locals == [cur : Addrs \cup {NULL}, new : Addrs \cup {NULL}, stale : BOOLEAN,
           rec : Nat, size : Nat, idx : Nat, owner : Int]
Messages == [pid : Int, by : Nat, end : Nat, torn : BOOLEAN, segs : SUBSET Segs]

(* Every variable keeps its type. *)
TypeOK ==
  /\ procPibr \in Addrs \cup {NULL}
  /\ header \in [Addrs -> Words]
  /\ alive \subseteq Addrs
  /\ segs \in [Addrs -> SUBSET Segs]
  /\ procid \in Nat /\ pid \in Nat /\ cntr \in Nat /\ sigs \in Nat
  /\ log \in Seq(Messages)
  /\ recent \in BOOLEAN /\ interrupt \in BOOLEAN
  /\ exiting \in Actors \cup {NULL} /\ victim \in Actors \cup {NULL}
  /\ status \in {"running", "exited", "null", "freed", "wild", "doublefree"}
  /\ pc \in [Actors -> Pcs]
  /\ th \in [Actors -> Locals]
  /\ debt \in [Addrs -> Int] /\ torn \subseteq Addrs

(* The actors between their fetch-and-add on a buffer and the matching     *)
(* fetch-and-sub.                                                          *)
Holding == {"copy", "unref", "undo"}
Holders(p) == {a \in Actors : pc[a] \in Holding /\ Sound(a) /\ th[a].cur = p}

(* The point of the reference count in flush_buffer(): while one actor     *)
(* writes a buffer out and frees it, no other is copying into it, still    *)
(* has to touch its word, or writes and frees it too.                      *)
ExclusiveFlush ==
  \A a, b \in Actors :
    /\ a # b /\ pc[a] = "write" /\ Sound(a)
    /\ Sound(b) /\ th[b].cur = th[a].cur
    => pc[b] \notin Holding \cup {"write"}

(* The reference count in a buffer's word is never below the number of     *)
(* actors that hold the buffer.  (It may stay above: fork() copies the     *)
(* references of threads that do not exist in the child.)                  *)
RefsCounted ==
  \A p \in alive : GoodPtr(header[p]) => header[p].ref >= Cardinality(Holders(p))

(* A pointer that was not freed under its holder points to live memory;    *)
(* so does proc_pibr.                                                      *)
PointersAlive ==
  /\ procPibr # NULL => procPibr \in alive
  /\ \A a \in Actors : Sound(a) => th[a].cur \in alive

(* Until swap_buffers() publishes it, a new buffer is known to its maker   *)
(* alone.                                                                  *)
Making == {"init", "cas"}
NewPrivate ==
  \A a \in Actors : pc[a] \in Making =>
    /\ th[a].new \in alive /\ th[a].new # procPibr
    /\ \A b \in Actors :
         /\ Sound(b) => th[b].cur # th[a].new
         /\ b # a /\ pc[b] \in Making => th[b].new # th[a].new

(* flush_buffer() works on a buffer that is no longer published, or on one *)
(* that exit has zeroed, which it never comes to write.                    *)
Flushing == {"fpid", "fidx", "fcas", "write"}
SwappedOut ==
  \A a \in Actors : pc[a] \in Flushing /\ Sound(a) =>
    \/ th[a].cur # procPibr
    \/ header[th[a].cur].ptr = NULL /\ pc[a] # "write"

(* The word of a buffer that is being written is zeroed and stays so. *)
WriteZeroed ==
  \A a \in Actors : pc[a] = "write" /\ Sound(a) => header[th[a].cur].ptr = NULL

(* The inductive invariant behind ExclusiveFlush: references are counted,  *)
(* unpublished memory is private, and what is being written is out of      *)
(* reach of the fetch-and-add in _blog().                                  *)
FlushInv ==
  /\ PointersAlive /\ NewPrivate /\ SwappedOut /\ WriteZeroed
  /\ RefsCounted /\ ExclusiveFlush

(* Every message _blog() and flush_buffer() produce is the prefix followed *)
(* by whole records, without gap, overlap or a record cut short, and fits  *)
(* the logger's payload: however many threads reserve, fail and give back  *)
(* at a time, carries into the pid field included.  The exception is a     *)
(* buffer in which a reservation succeeded above one that had failed and   *)
(* was not given back (a third thread does it): the index ends up inside   *)
(* its record.                                                             *)
WholeRecords ==
  \A i \in 1 .. Len(log) :
    LET m == log[i] IN ~m.torn =>
    /\ m.end < Limit
    /\ \A s1, s2 \in m.segs : s1 # s2 => Extent(s1) \cap Extent(s2) = {}
    /\ UNION {Extent(s) : s \in m.segs} = PrefixLen .. (m.end - 1)

(* A message is written by the process its prefix names, and holds only    *)
(* records that process made (where no buffer is torn, as above): a buffer *)
(* inherited over fork() is not flushed by the child.                      *)
OwnRecords ==
  \A i \in 1 .. Len(log) :
    /\ log[i].pid = log[i].by
    /\ ~log[i].torn => \A s \in log[i].segs : s.by = log[i].pid

(* The records in buffers that are allocated, those of them in torn        *)
(* buffers, and the messages as sets of records.                           *)
Recs(S) == {s.rec : s \in S}
PendingRecs == UNION {Recs(segs[p]) : p \in alive}
ExposedRecs == UNION {Recs(segs[p]) : p \in alive \cap torn}
WrittenRecs == [i \in 1 .. Len(log) |-> Recs(log[i].segs)]

R == INSTANCE RecordLog WITH
       Records <- 1 .. MaxRecs, pending <- PendingRecs, exposed <- ExposedRecs,
       out <- WrittenRecs

(* The buffer, with swaps, flushes and frees, keeps what RecordLog         *)
(* promises: no step of bblog.c loses a record that was copied in, other   *)
(* than by writing it, unless it lies in a buffer where a reservation      *)
(* succeeded above a failed one; and none writes a record twice.           *)
ImplementsRecordLog == R!RSpec

(* A thread inside bblog() returns, unless the process faults or its own   *)
(* flush spins for ever on a word that no longer comes back to what it     *)
(* read.                                                                   *)
AppendsEnd ==
  \A t \in Threads :
    \/ <>[](pc[t] = "fcas")
    \/ [](pc[t] = "load" => <>(pc[t] = "idle" \/ status # "running"))

(* When the application falls silent, flusher_thread() sees to it that no  *)
(* more than FLUSH_BUF_SIZE bytes stay in the published buffer, unless it  *)
(* spins in an earlier flush, has left its loop because the process took   *)
(* the name of the study's service, or the process faults.                 *)
FlusherDrains ==
  <>[](\A t \in Threads : pc[t] = "idle") =>
    <>[](\/ status # "running" \/ procPibr = NULL
         \/ pc[Flusher] \in {"fcas", "off"}
         \/ header[procPibr].idx < FlushMin)
=============================================================================
