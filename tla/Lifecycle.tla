----------------------------- MODULE Lifecycle -----------------------------
(***************************************************************************)
(* The life of the tracer in one process: the constructor and destructor   *)
(* of fs.c, the count of threads in pthread.c and clone.c, the start and   *)
(* the stop of the flusher thread in flusher.c, and the signal handlers    *)
(* that signal.c puts in front of the application's.                       *)
(*                                                                         *)
(* What the flusher does between start and stop is module Bblog's.  Here   *)
(* it sleeps until it is told to end.  A flush may never return (the       *)
(* compare-and-swap at bblog.c:172 fails for ever): whoever made it, the   *)
(* flusher, fini() or the signal handler, is then stuck.                   *)
(*                                                                         *)
(* The thread_info that starter, flusher and stopper share is tracked byte *)
(* for byte as far as they read it: a field nobody has set is Junk.  An    *)
(* address is not handed out twice: the only compare-and-swap compares     *)
(* with NULL.                                                              *)
(***************************************************************************)
EXTENDS Integers, FiniteSets

CONSTANTS
  Threads,      \* application threads
  Main,         \* the thread that runs the constructor
  Flushers,     \* flusher threads that may be created
  Infos,        \* addresses malloc() can return for a struct thread_info
  Signals,      \* the six signals of init_signal()
  NULL,
  Junk,         \* the value of memory that was never written
  MallocFails,  \* malloc() may fail
  CreateFails,  \* pthread_create() may fail
  Renamed,      \* the process may take the name of the study's own service
  MaxForks,     \* bound: forks, followed into the child
  MaxSignals,   \* bound: signals delivered and handlers installed
  MaxPhantoms   \* bound: creations counted that created no thread here

ASSUME LifecycleAssumption ==
  /\ Main \in Threads /\ IsFiniteSet(Threads)
  /\ NULL \notin Infos \cup Threads \cup Flushers
  /\ Junk \notin Flushers \cup Infos \cup {NULL, 0, 1}
  /\ MallocFails \in BOOLEAN /\ CreateFails \in BOOLEAN /\ Renamed \in BOOLEAN
  /\ MaxForks \in Nat /\ MaxSignals \in Nat /\ MaxPhantoms \in Nat

VARIABLES
  flusher_info,  \* the published thread_info, or NULL
  heap,          \* "unused", "live" or "freed" for each address
  tid,           \* thread_info.tid at each address
  interrupt,     \* thread_info.interrupt at each address
  fl,            \* each flusher: "none", "sleep", "stuck", "done"; "gone" after fork()
  arg,           \* the argument each flusher was created with
  num,           \* num_active_threads; a negative value is a wrapped one
  traced,        \* _notify
  booted,        \* the constructor has returned
  exiting,       \* the thread that runs exit(), or NULL
  finis,         \* fini() calls that have returned
  errors,        \* memory errors so far: "freed", "double", "junk"
  status,        \* "running", "exited", "aborted", "killed" or "segv"
  disp,          \* the kernel's disposition of each signal
  old,           \* old_<signal>_handler
  orig,          \* history: the dispositions init() found
  count,         \* forks, signals and phantom creations so far
  pc,
  loc            \* each thread's local info (starting) or tid (stopping)

flusher == <<flusher_info, heap, tid, interrupt, fl, arg>>
signal == <<disp, old, orig>>
process == <<traced, booted, exiting, finis, count>>
vars == <<flusher, signal, process, num, errors, status, pc, loc>>

Goto(t, l) == pc' = [pc EXCEPT ![t] = l]

(* start_flusher_thread() returns to the constructor or to the hook. *)
Started(t) == Goto(t, IF booted THEN "run" ELSE "atexit")

(* A use of freed memory or of junk: the process may or may not survive. *)
Wrong(e) == errors' = errors \cup {e} /\ status' \in {"running", "aborted"}
Fine == UNCHANGED <<errors, status>>

(* An access to the thread_info at i. *)
Access(i) == IF heap[i] = "live" THEN Fine ELSE Wrong("freed")

(* free(i) *)
Free(i) ==
  IF heap[i] = "live"
    THEN heap' = [heap EXCEPT ![i] = "freed"] /\ Fine
    ELSE Wrong("double") /\ UNCHANGED heap

Init ==
  /\ flusher_info = NULL
  /\ heap = [i \in Infos |-> "unused"]
  /\ tid = [i \in Infos |-> Junk]
  /\ interrupt = [i \in Infos |-> Junk]
  /\ fl = [f \in Flushers |-> "none"]
  /\ arg = [f \in Flushers |-> NULL]
  /\ num = 0 /\ traced = FALSE /\ booted = FALSE
  /\ exiting = NULL /\ finis = 0 /\ errors = {} /\ status = "running"
  /\ disp \in [Signals -> {"dfl", "ign", "app"}]
  /\ old = [s \in Signals |-> "dfl"]
  /\ orig = disp
  /\ count = [forks |-> 0, signals |-> 0, phantoms |-> 0]
  /\ pc = [t \in Threads |-> IF t = Main THEN "ctor" ELSE "none"]
  /\ loc = [t \in Threads |-> NULL]

-----------------------------------------------------------------------------
(* The constructor init() of fs.c: a known process is left alone, but its  *)
(* hooks and its destructor stay in place.                                 *)

Ctor(t) ==
  /\ pc[t] = "ctor"
  /\ \/ traced' = TRUE /\ Goto(t, "count") /\ UNCHANGED booted
     \/ booted' = TRUE /\ Goto(t, "run") /\ UNCHANGED traced
  /\ UNCHANGED <<flusher, signal, num, exiting, finis, count, errors, status, loc>>

Atexit_InstallsFirst(t) ==
  /\ pc[t] = "atexit"
  /\ disp' = [s \in Signals |-> "agg"]
  /\ old' = disp'
  /\ Goto(t, "signal")
  /\ UNCHANGED <<flusher, process, num, errors, status, orig, loc>>

(* atexit(fini), then the first half of init_signal(). *)
Atexit(t) ==
  /\ pc[t] = "atexit"
  /\ old' = disp
  /\ Goto(t, "signal")
  /\ UNCHANGED <<flusher, process, num, errors, status, disp, orig, loc>>

(* The second half: one sigaction() after the other. *)
InitSignal(t) ==
  /\ pc[t] = "signal"
  /\ \/ \E s \in Signals : /\ disp[s] # "agg"
                           /\ disp' = [disp EXCEPT ![s] = "agg"]
                           /\ UNCHANGED <<pc, booted>>
     \/ /\ \A s \in Signals : disp[s] = "agg"
        /\ Goto(t, "run") /\ booted' = TRUE /\ UNCHANGED disp
  /\ UNCHANGED <<flusher, num, traced, exiting, finis, count, errors, status, old,
                 orig, loc>>

-----------------------------------------------------------------------------
(* pthread_common(1, _) and start_flusher_thread().                        *)

Count(t) ==
  /\ pc[t] = "count"
  /\ num' = num + 1
  /\ Goto(t, "check")
  /\ UNCHANGED <<flusher, signal, process, errors, status, loc>>

(* The process is skipped when its name is that of a system binary, its    *)
(* parent is a kernel thread, or pthread_create is not found.              *)
StartCheck(t) ==
  /\ pc[t] = "check"
  /\ \/ flusher_info = NULL /\ Goto(t, "malloc")
     \/ Started(t)
  /\ UNCHANGED <<flusher, signal, process, num, errors, status, loc>>

Malloc(t) ==
  /\ pc[t] = "malloc"
  /\ \E i \in Infos :
       /\ heap[i] = "unused"
       /\ heap' = [heap EXCEPT ![i] = "live"]
       /\ loc' = [loc EXCEPT ![t] = i]
  /\ Goto(t, "cas")
  /\ UNCHANGED <<flusher_info, tid, interrupt, fl, arg, signal, process, num, errors, status>>

MallocFail(t) ==
  /\ pc[t] = "malloc"
  /\ MallocFails \/ \A i \in Infos : heap[i] # "unused"
  /\ Started(t)
  /\ UNCHANGED <<flusher, signal, process, num, errors, status, loc>>

Publish_NoCas(t) ==
  /\ pc[t] = "cas"
  /\ flusher_info' = loc[t] /\ Goto(t, "fields") /\ UNCHANGED <<heap, loc>>
  /\ Fine /\ UNCHANGED <<tid, interrupt, fl, arg, signal, process, num>>

Publish_FreesOther(t) ==
  /\ pc[t] = "cas"
  /\ IF flusher_info = NULL
       THEN /\ flusher_info' = loc[t] /\ Goto(t, "fields")
            /\ Fine /\ UNCHANGED <<heap, loc>>
       ELSE /\ Free(flusher_info) /\ Started(t)
            /\ loc' = [loc EXCEPT ![t] = NULL] /\ UNCHANGED flusher_info
  /\ UNCHANGED <<tid, interrupt, fl, arg, signal, process, num>>

(* The compare-and-swap; the loser frees what it allocated. *)
Publish(t) ==
  /\ pc[t] = "cas"
  /\ IF flusher_info = NULL
       THEN /\ flusher_info' = loc[t] /\ Goto(t, "fields")
            /\ Fine /\ UNCHANGED <<heap, loc>>
       ELSE /\ Free(loc[t]) /\ Started(t)
            /\ loc' = [loc EXCEPT ![t] = NULL] /\ UNCHANGED flusher_info
  /\ UNCHANGED <<tid, interrupt, fl, arg, signal, process, num>>

(* ptr, interrupt and last_flush are set after the compare-and-swap. *)
SetFields(t) ==
  /\ pc[t] = "fields"
  /\ Access(loc[t])
  /\ interrupt' = [interrupt EXCEPT ![loc[t]] = 0]
  /\ Goto(t, "create")
  /\ UNCHANGED <<flusher_info, heap, tid, fl, arg, signal, process, num, loc>>

(* The real pthread_create(), with flusher_info as argument.  It reports   *)
(* failure as a positive number, which is not -1: the clean-up that        *)
(* follows is never reached.                                               *)
CreateFlusher(t) ==
  /\ pc[t] = "create"
  /\ Access(loc[t])
  /\ \/ \E f \in Flushers :
          /\ fl[f] = "none"
          /\ fl' = [fl EXCEPT ![f] = "sleep"]
          /\ arg' = [arg EXCEPT ![f] = flusher_info]
          /\ tid' = [tid EXCEPT ![loc[t]] = f]
     \/ CreateFails /\ UNCHANGED <<fl, arg, tid>>
  /\ Started(t)
  /\ loc' = [loc EXCEPT ![t] = NULL]
  /\ UNCHANGED <<flusher_info, heap, interrupt, signal, process, num>>

(* flusher_thread() leaves its loop when it is asked to, or finds itself   *)
(* in the study's own service, and frees its argument.                     *)
FlusherEnds(f) ==
  LET i == arg[f] IN
  /\ fl[f] = "sleep"
  /\ interrupt[i] = 1 \/ heap[i] = "freed" \/ Renamed
  /\ fl' = [fl EXCEPT ![f] = "done"]
  /\ Free(i)
  /\ UNCHANGED <<flusher_info, tid, interrupt, arg, signal, process, num, pc, loc>>

(* swap_and_flush_buffer() does not return. *)
FlusherSpins(f) ==
  /\ fl[f] = "sleep"
  /\ fl' = [fl EXCEPT ![f] = "stuck"]
  /\ UNCHANGED <<flusher_info, heap, tid, interrupt, arg, signal, process, num, errors, status,
                 pc, loc>>

-----------------------------------------------------------------------------
(* fini() and stop_flusher_thread().  exit() runs fini() as the atexit     *)
(* handler of a traced process and once more as the destructor.            *)

Exit(t) ==
  /\ pc[t] = "run" /\ booted /\ exiting = NULL
  /\ exiting' = t
  /\ Goto(t, "fini")
  /\ UNCHANGED <<flusher, signal, traced, booted, finis, count, num, errors, status, loc>>

(* pthread_common(0, 1): the first time, the batches that close_common()   *)
(* dispatches may fill a buffer whose flush does not return.               *)
Fini(t) ==
  /\ pc[t] = "fini"
  /\ num' = num - 1
  /\ \/ Goto(t, IF flusher_info = NULL THEN "return" ELSE "tid")
     \/ traced /\ finis = 0 /\ Goto(t, "stuck")
  /\ UNCHANGED <<flusher, signal, process, errors, status, loc>>

(* tid = flusher_info->tid *)
StopTid(t) ==
  /\ pc[t] = "tid"
  /\ Access(flusher_info)
  /\ \/ loc' = [loc EXCEPT ![t] = tid[flusher_info]]
     \/ heap[flusher_info] = "freed" /\ loc' = [loc EXCEPT ![t] = Junk]
  /\ Goto(t, "interrupt")
  /\ UNCHANGED <<flusher, signal, process, num>>

StopInterrupt_Skipped(t) ==
  /\ pc[t] = "interrupt"
  /\ Access(flusher_info)
  /\ Goto(t, "join")
  /\ UNCHANGED <<flusher, signal, process, num, loc>>

StopInterrupt(t) ==
  /\ pc[t] = "interrupt"
  /\ Access(flusher_info)
  /\ interrupt' = [interrupt EXCEPT ![flusher_info] = 1]
  /\ Goto(t, "join")
  /\ UNCHANGED <<flusher_info, heap, tid, fl, arg, signal, process, num, loc>>

(* pthread_join() waits for a thread that ends, for ever for one that      *)
(* fork() left behind, and may do anything with junk.                      *)
StopJoin(t) ==
  /\ pc[t] = "join"
  /\ IF loc[t] = Junk THEN Wrong("junk") ELSE fl[loc[t]] = "done" /\ Fine
  /\ Goto(t, "free")
  /\ UNCHANGED <<flusher, signal, process, num, loc>>

StopFree(t) ==
  /\ pc[t] = "free"
  /\ Free(flusher_info)
  /\ loc' = [loc EXCEPT ![t] = NULL]
  /\ Goto(t, "return")
  /\ UNCHANGED <<flusher_info, tid, interrupt, fl, arg, signal, process, num>>

FiniReturn_Again(t) ==
  /\ pc[t] = "return"
  /\ finis' = finis + 1
  /\ Goto(t, IF traced /\ finis < 2 THEN "fini" ELSE "dead")
  /\ UNCHANGED <<flusher, signal, traced, booted, exiting, count, num, errors, status, loc>>

FiniReturn(t) ==
  /\ pc[t] = "return"
  /\ finis' = finis + 1
  /\ IF traced /\ finis = 0
       THEN Goto(t, "fini") /\ UNCHANGED status
       ELSE Goto(t, "dead") /\ status' = "exited"
  /\ UNCHANGED <<flusher, signal, traced, booted, exiting, count, num, errors, loc>>

-----------------------------------------------------------------------------
(* The hooks of pthread_create(), clone() and pthread_exit().              *)

(* The new thread runs before it is counted. *)
PthreadCreate(t, u) ==
  /\ pc[t] = "run" /\ pc[u] = "none"
  /\ pc' = [pc EXCEPT ![t] = "count", ![u] = "run"]
  /\ UNCHANGED <<flusher, signal, process, num, errors, status, loc>>

(* pthread_create() fails with an error number, or clone() makes another   *)
(* process: a thread is counted all the same.                              *)
PhantomCreate(t) ==
  /\ pc[t] = "run" /\ count.phantoms < MaxPhantoms
  /\ count' = [count EXCEPT !.phantoms = @ + 1]
  /\ Goto(t, "count")
  /\ UNCHANGED <<flusher, signal, traced, booted, exiting, finis, num, errors, status, loc>>

PthreadExit_Twice(t) ==
  /\ pc[t] = "run"
  /\ num' = num - 2
  /\ Goto(t, "dead")
  /\ UNCHANGED <<flusher, signal, process, errors, status, loc>>

PthreadExit(t) ==
  /\ pc[t] = "run"
  /\ num' = num - 1
  /\ Goto(t, "dead")
  /\ UNCHANGED <<flusher, signal, process, errors, status, loc>>

(* A thread that returns from its start routine may end without passing    *)
(* the hook: the C library ends it by itself.                              *)
ThreadReturn(t) ==
  /\ pc[t] = "run" /\ t # Main
  /\ Goto(t, "dead")
  /\ UNCHANGED <<flusher, signal, process, num, errors, status, loc>>

(* fork(), seen from the child: the caller is its only thread. *)
Fork(t) ==
  /\ pc[t] = "run" /\ count.forks < MaxForks /\ exiting = NULL
  /\ count' = [count EXCEPT !.forks = @ + 1]
  /\ pc' = [u \in Threads |-> IF u = t THEN "run" ELSE "none"]
  /\ loc' = [u \in Threads |-> NULL]
  /\ fl' = [f \in Flushers |-> IF fl[f] \in {"sleep", "stuck"} THEN "gone" ELSE fl[f]]
  /\ UNCHANGED <<flusher_info, heap, tid, interrupt, arg, signal, traced, booted, exiting, finis,
                 num, errors, status>>

-----------------------------------------------------------------------------
(* A signal arrives, in any thread.  aggregate_handler() flushes (module   *)
(* Bblog), which may not return, and calls the old handler when it is not  *)
(* NULL: SIG_DFL is, SIG_IGN is the address 1.                             *)

Deliver(s) ==
  /\ count.signals < MaxSignals
  /\ count' = [count EXCEPT !.signals = @ + 1]
  /\ \/ /\ status' = CASE disp[s] = "dfl"                   -> "killed"
                        [] disp[s] = "agg" /\ old[s] = "ign" -> "segv"
                        [] OTHER                             -> status
        /\ UNCHANGED pc
     \/ /\ disp[s] = "agg" /\ UNCHANGED status
        /\ \E t \in Threads : pc[t] \notin {"none", "dead"} /\ Goto(t, "stuck")
  /\ UNCHANGED <<flusher, signal, traced, booted, exiting, finis, num, errors, loc>>

(* The application installs a handler of its own, over the tracer's. *)
Sigaction(s) ==
  /\ booted /\ count.signals < MaxSignals
  /\ count' = [count EXCEPT !.signals = @ + 1]
  /\ disp' = [disp EXCEPT ![s] = "app"]
  /\ UNCHANGED <<flusher, old, orig, traced, booted, exiting, finis, num, errors, status,
                 pc, loc>>

-----------------------------------------------------------------------------
(* What a thread does once it is inside the tracer. *)
Step(t) ==
  /\ status = "running"
  /\ \/ Ctor(t) \/ Atexit(t) \/ InitSignal(t) \/ Count(t) \/ StartCheck(t)
     \/ Malloc(t) \/ MallocFail(t) \/ Publish(t) \/ SetFields(t) \/ CreateFlusher(t)
     \/ Fini(t) \/ StopTid(t) \/ StopInterrupt(t) \/ StopJoin(t) \/ StopFree(t)
     \/ FiniReturn(t)

(* What the application asks of it. *)
Call(t) ==
  /\ status = "running"
  /\ \/ \E u \in Threads : PthreadCreate(t, u)
     \/ PhantomCreate(t) \/ PthreadExit(t) \/ ThreadReturn(t) \/ Exit(t) \/ Fork(t)

FlusherStep(f) == status = "running" /\ (FlusherEnds(f) \/ FlusherSpins(f))

(* The process is gone, or waits for the application or for ever. *)
Rest ==
  /\ \/ status # "running"
     \/ \A t \in Threads : pc[t] \in {"none", "run", "dead", "join", "stuck"}
  /\ UNCHANGED vars

Next ==
  \/ \E t \in Threads : Step(t) \/ Call(t)
  \/ \E f \in Flushers : FlusherStep(f)
  \/ status = "running" /\ \E s \in Signals : Deliver(s) \/ Sigaction(s)
  \/ Rest

Spec == Init /\ [][Next]_vars

(* The scheduler lets every thread go on, and a flusher that is asked to   *)
(* end comes back to the flag unless a flush holds it.                     *)
FairSpec ==
  /\ Spec
  /\ \A t \in Threads : WF_vars(Step(t))
  /\ \A f \in Flushers : WF_vars(FlusherStep(f) /\ interrupt[arg[f]] = 1)

-----------------------------------------------------------------------------
(* Properties.                                                             *)

Starting == {"check", "malloc", "cas", "fields", "create"}
Stopping == {"tid", "interrupt", "join", "free"}
Pcs == Starting \cup Stopping \cup
       {"none", "ctor", "count", "atexit", "signal", "run", "dead", "fini", "return", "stuck"}

(* Every variable keeps its type. *)
TypeOK ==
  /\ flusher_info \in Infos \cup {NULL}
  /\ heap \in [Infos -> {"unused", "live", "freed"}]
  /\ tid \in [Infos -> Flushers \cup {Junk}]
  /\ interrupt \in [Infos -> {0, 1, Junk}]
  /\ fl \in [Flushers -> {"none", "sleep", "stuck", "done", "gone"}]
  /\ arg \in [Flushers -> Infos \cup {NULL}]
  /\ num \in Int /\ traced \in BOOLEAN /\ booted \in BOOLEAN
  /\ exiting \in Threads \cup {NULL}
  /\ finis \in 0 .. 2 /\ (status = "running" => finis < 2)
  /\ errors \subseteq {"freed", "double", "junk"}
  /\ status \in {"running", "exited", "aborted", "killed", "segv"}
  /\ disp \in [Signals -> {"dfl", "ign", "app", "agg"}]
  /\ old \in [Signals -> {"dfl", "ign", "app", "agg"}]
  /\ orig \in [Signals -> {"dfl", "ign", "app"}]
  /\ count \in [forks : Nat, signals : Nat, phantoms : Nat]
  /\ pc \in [Threads -> Pcs]
  /\ loc \in [Threads -> Infos \cup Flushers \cup {Junk, NULL}]

(* Until the compare-and-swap, a thread_info belongs to the starter that   *)
(* allocated it.                                                           *)
Private ==
  \A t \in Threads : pc[t] = "cas" =>
    /\ loc[t] \in Infos /\ loc[t] # flusher_info /\ heap[loc[t]] = "live"
    /\ \A u \in Threads : u # t /\ pc[u] = "cas" => loc[u] # loc[t]

(* One starter at most is past the compare-and-swap, and then no flusher   *)
(* exists yet.                                                             *)
OneStarter ==
  \A t \in Threads : pc[t] \in {"fields", "create"} =>
    /\ loc[t] = flusher_info /\ flusher_info # NULL
    /\ \A f \in Flushers : fl[f] = "none"
    /\ \A u \in Threads : u # t => pc[u] \notin {"fields", "create"}

(* However many threads are created at once, a process has one flusher at  *)
(* most, and it works on the published thread_info, which names it.        *)
OneFlusher ==
  \A f \in Flushers : fl[f] # "none" =>
    /\ flusher_info # NULL /\ arg[f] = flusher_info
    /\ tid[flusher_info] = f
    /\ \A g \in Flushers : g # f => fl[g] = "none"

(* The published thread_info is there until the flusher ends or the        *)
(* process exits; a thread id in it was stored by pthread_create().        *)
InfoKept ==
  /\ \A i \in Infos : heap[i] = "unused" => i # flusher_info
  /\ \A i \in Infos : tid[i] # Junk => fl[tid[i]] # "none"
  /\ \A f \in Flushers : fl[f] = "done" => heap[flusher_info] = "freed"
  /\ flusher_info # NULL /\ exiting = NULL /\ heap[flusher_info] = "freed" =>
       \E f \in Flushers : fl[f] = "done"

(* When pthread_join() has returned in stop_flusher_thread(), the flusher  *)
(* has freed the thread_info that comes to be freed now.                   *)
JoinedMeansFreed ==
  \A t \in Threads :
    /\ pc[t] \in {"interrupt", "join", "free"} =>
         /\ loc[t] \in Flushers \cup {Junk}
         /\ loc[t] # Junk => fl[loc[t]] # "none"
    /\ pc[t] = "free" /\ loc[t] # Junk =>
         fl[loc[t]] = "done" /\ heap[flusher_info] = "freed"

(* Only the thread that called exit() is in fini(). *)
OneExit ==
  \A t \in Threads :
    /\ pc[t] \in Stopping \cup {"fini", "return"} => t = exiting
    /\ pc[t] \in Stopping => flusher_info # NULL

(* The inductive invariant of the flusher's start and stop. *)
FlusherInv ==
  /\ Private /\ OneStarter /\ OneFlusher /\ InfoKept /\ JoinedMeansFreed /\ OneExit

(* Whatever races between starters, failures and forks, nobody uses or     *)
(* frees a thread_info wrongly before the process exits.                   *)
SafeUntilExit == errors # {} => exiting # NULL

(* num_active_threads is unsigned, and a thread may have ended before it   *)
(* is counted.  Until fini() has returned once, it is at least the number  *)
(* of threads it stands for in a traced process, so that it does not wrap; *)
(* in a process that init() skips it is at most one short, because the     *)
(* main thread is never counted there: its pthread_exit() or the first     *)
(* fini() may wrap it.                                                     *)
Counted == {t \in Threads : pc[t] \in Starting \cup {"atexit", "signal", "run", "fini"}}
CountKept == finis = 0 => num >= Cardinality(Counted) - (IF traced THEN 0 ELSE 1)

(* While the constructor runs, its thread is alone. *)
BootInv ==
  /\ \A t \in Threads : pc[t] \in {"ctor", "atexit", "signal"} => t = Main /\ ~booted
  /\ pc[Main] = "ctor" => ~traced /\ num = 0
  /\ ~booted => /\ \A t \in Threads : t # Main => pc[t] = "none"
                /\ pc[Main] \in Starting \cup {"ctor", "count", "atexit", "signal", "stuck"}

(* A signal that aggregate_handler() catches goes on to the handler that   *)
(* was installed before the tracer's, never to itself, also when it        *)
(* arrives while init_signal() is still at work.                           *)
OldHandlers == \A s \in Signals : disp[s] = "agg" => old[s] = orig[s]

(* The inductive invariant behind it: the old handlers are all read before *)
(* the first is replaced.                                                  *)
SignalInv ==
  /\ ~booted /\ pc[Main] \notin {"signal", "stuck"} => disp = orig
  /\ pc[Main] = "signal" => old = orig
  /\ OldHandlers

(* exit() comes to an end, unless a flush does not return, its own or that *)
(* of the flusher it joins, or it joins the flusher of the parent in a     *)
(* process that was forked: an interrupt is not overwritten by the starter *)
(* once the thread id can be joined.                                       *)
ExitEnds ==
  exiting # NULL ~>
    \/ status # "running"
    \/ \E t \in Threads :
         /\ t = exiting
         /\ \/ pc[t] = "stuck"
            \/ pc[t] = "join" /\ \E f \in Flushers : loc[t] = f /\ fl[f] \in {"gone", "stuck"}
=============================================================================
