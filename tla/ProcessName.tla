---------------------------- MODULE ProcessName ----------------------------
(***************************************************************************)
(* The cached process name of jni/tracer/src/process.c.                    *)
(*                                                                         *)
(* procname_pid packs a pointer to the name and the pid it was read for.   *)
(* process_name() returns the cached name when the pid is its own and the  *)
(* name is not that of the zygote, which every application is forked from  *)
(* and renamed after; otherwise it reads the name anew, publishes it with  *)
(* a compare-and-swap and frees the one it replaced.  The caller goes on   *)
(* to use the pointer that was returned.                                   *)
(***************************************************************************)
EXTENDS Naturals, FiniteSets

CONSTANTS
  Threads,
  Addrs,      \* memory: what malloc() can return
  NULL,
  Titles,     \* what /proc/self/cmdline may hold
  Zygote,     \* "zygote"
  Uid,        \* the name used when /proc/self/cmdline cannot be read
  MaxCalls,   \* bound: calls of process_name()
  MaxPid      \* bound: the first process is 1, each fork adds one

ASSUME NameAssumption ==
  /\ NULL \notin Addrs
  /\ Zygote \in Titles /\ Uid # Zygote
  /\ MaxCalls \in Nat /\ MaxPid \in Nat

VARIABLES
  cache,    \* procname_pid
  alive,    \* addresses that are allocated
  text,     \* the name at each address, and the pid of the process that read it
  title,    \* /proc/self/cmdline
  pid,      \* getpid()
  calls,    \* calls made
  orphans,  \* names a child inherited from threads it does not have
  status,   \* "running" or the kind of the fatal access
  pc,
  th        \* each thread's local variables

vars == <<cache, alive, text, title, pid, calls, orphans, status, pc, th>>

-----------------------------------------------------------------------------
NoCache == [name |-> NULL, pid |-> 0]

(* old_procname and old_pid, later the name returned; procname; title at   *)
(* the time of the call.  "stale": that name was freed since it was read.  *)
Local(c, n, b) == [cur |-> c.name, curPid |-> c.pid, stale |-> FALSE, new |-> n, began |-> b]
Idle == Local(NoCache, NULL, Zygote)

Init ==
  /\ cache = NoCache
  /\ alive = {} /\ orphans = {}
  /\ text = [p \in Addrs |-> [title |-> Uid, pid |-> 0]]
  /\ title \in Titles
  /\ pid = 1 /\ calls = 0 /\ status = "running"
  /\ pc = [t \in Threads |-> "idle"]
  /\ th = [t \in Threads |-> Idle]

Goto(t, l) == pc' = [pc EXCEPT ![t] = l]

(* free(p) by t, whose locals become l. *)
Freed(p, t, l) ==
  /\ alive' = alive \ {p}
  /\ th' = [u \in Threads |->
              IF u = t THEN l
              ELSE [th[u] EXCEPT !.stale = @ \/ (p # NULL /\ th[u].cur = p)]]

process_name(t) ==
  /\ pc[t] = "idle" /\ calls < MaxCalls
  /\ calls' = calls + 1
  /\ th' = [th EXCEPT ![t] = Local(NoCache, NULL, title)]
  /\ Goto(t, "load")
  /\ UNCHANGED <<cache, alive, text, title, pid, orphans, status>>

Current_AnyPid(c) == c.name # NULL

(* old_pid == new_pid *)
Current(c) == c.pid = pid

LoadName(t) ==
  /\ pc[t] = "load"
  /\ th' = [th EXCEPT ![t] = Local(cache, NULL, @.began)]
  /\ Goto(t, IF Current(cache) THEN "compare" ELSE "read")
  /\ UNCHANGED <<cache, alive, text, title, pid, calls, orphans, status>>

(* A variant: the name is read anew by every call. *)
Compare_Always(t) ==
  /\ pc[t] = "compare" /\ ~th[t].stale
  /\ Goto(t, "read")
  /\ UNCHANGED <<cache, alive, text, title, pid, calls, orphans, status, th>>

(* strcmp(old_procname, "zygote") *)
Compare(t) ==
  /\ pc[t] = "compare" /\ ~th[t].stale
  /\ Goto(t, IF text[th[t].cur].title = Zygote THEN "read" ELSE "use")
  /\ UNCHANGED <<cache, alive, text, title, pid, calls, orphans, status, th>>

(* read_process_name: malloc(), and the name or the uid into it. *)
read_process_name(t) ==
  /\ pc[t] = "read"
  /\ \E p \in Addrs \ alive, n \in {title, Uid} :
       /\ alive' = alive \cup {p}
       /\ text' = [text EXCEPT ![p] = [title |-> n, pid |-> pid]]
       /\ th' = [th EXCEPT ![t].new = p]
  /\ Goto(t, "cas")
  /\ UNCHANGED <<cache, title, pid, calls, orphans, status>>

(* malloc() failed, which is not checked ("NULL;" stands where a return    *)
(* is missing): the name is written through a null pointer.                *)
MallocFails(t) ==
  /\ pc[t] = "read" /\ Addrs \subseteq alive
  /\ status' = "null"
  /\ UNCHANGED <<cache, alive, text, title, pid, calls, orphans, pc, th>>

Swaps_PidOnly(l) == cache.pid = l.curPid

(* The compare-and-swap finds pointer and pid as they were loaded. *)
Swaps(l) == cache = [name |-> l.cur, pid |-> l.curPid]

CasWon(t) ==
  LET l == th[t]
      c == [name |-> l.new, pid |-> pid]
  IN
  /\ pc[t] = "cas" /\ Swaps(l)
  /\ cache' = c
  /\ Freed(l.cur, t, Local(c, NULL, l.began))
  /\ status' = IF l.cur # NULL /\ l.cur \notin alive THEN "doublefree" ELSE status
  /\ Goto(t, "use")
  /\ UNCHANGED <<text, title, pid, calls, orphans>>

CasLost_Leaks(t) ==
  /\ pc[t] = "cas" /\ ~Swaps(th[t])
  /\ th' = [th EXCEPT ![t] = Local(NoCache, NULL, @.began)]
  /\ Goto(t, "load")
  /\ UNCHANGED <<cache, alive, text, title, pid, calls, orphans, status>>

(* Another thread was faster: free the name and start over. *)
CasLost(t) ==
  /\ pc[t] = "cas" /\ ~Swaps(th[t])
  /\ Freed(th[t].new, t, Local(NoCache, NULL, th[t].began))
  /\ Goto(t, "load")
  /\ UNCHANGED <<cache, text, title, pid, calls, orphans, status>>

(* The caller formats the name and forgets it. *)
UseName(t) ==
  /\ pc[t] = "use" /\ ~th[t].stale
  /\ th' = [th EXCEPT ![t] = Idle]
  /\ Goto(t, "idle")
  /\ UNCHANGED <<cache, alive, text, title, pid, calls, orphans, status>>

(* strcmp() or the caller reads a name that was freed under it. *)
BadAccess(t) ==
  /\ pc[t] \in {"compare", "use"} /\ th[t].stale
  /\ status' = "freed"
  /\ UNCHANGED <<cache, alive, text, title, pid, calls, orphans, pc, th>>

(* The names threads have read and not published. *)
Private == {th[t].new : t \in Threads} \ {NULL}

(* fork(), seen from the child. *)
Fork(t) ==
  /\ pc[t] = "idle" /\ pid < MaxPid
  /\ pid' = pid + 1
  /\ orphans' = orphans \cup Private
  /\ pc' = [u \in Threads |-> IF u = t THEN "idle" ELSE "dead"]
  /\ th' = [u \in Threads |-> Idle]
  /\ UNCHANGED <<cache, alive, text, title, calls, status>>

Spawn(t) ==
  /\ pc[t] = "dead"
  /\ Goto(t, "idle")
  /\ UNCHANGED <<cache, alive, text, title, pid, calls, orphans, status, th>>

(* The process gets its name. *)
Rename(n) ==
  /\ n # Zygote /\ n # title
  /\ title' = n
  /\ UNCHANGED <<cache, alive, text, pid, calls, orphans, status, pc, th>>

Step(t) ==
  \/ process_name(t) \/ LoadName(t) \/ Compare(t) \/ read_process_name(t)
  \/ MallocFails(t) \/ CasWon(t) \/ CasLost(t) \/ UseName(t) \/ BadAccess(t)
  \/ Fork(t) \/ Spawn(t)

Rest ==
  /\ status # "running" \/ \A t \in Threads : pc[t] \in {"idle", "dead"}
  /\ UNCHANGED vars

Next ==
  \/ status = "running" /\ \E t \in Threads : Step(t)
  \/ status = "running" /\ \E n \in Titles : Rename(n)
  \/ Rest

Spec == Init /\ [][Next]_vars

-----------------------------------------------------------------------------
(* Properties.                                                             *)

Caches == [name : Addrs \cup {NULL}, pid : Nat]
Names == [title : Titles \cup {Uid}, pid : Nat]
Locals == [cur : Addrs \cup {NULL}, curPid : Nat, stale : BOOLEAN,
           new : Addrs \cup {NULL}, began : Titles]

(* Every variable keeps its type. *)
TypeOK ==
  /\ cache \in Caches
  /\ alive \subseteq Addrs /\ orphans \subseteq Addrs
  /\ text \in [Addrs -> Names]
  /\ title \in Titles
  /\ pid \in Nat \ {0} /\ calls \in Nat
  /\ status \in {"running", "null", "freed", "doublefree"}
  /\ pc \in [Threads -> {"idle", "dead", "load", "compare", "read", "cas", "use"}]
  /\ th \in [Threads -> Locals]

(* The published name. *)
Published == {cache.name} \ {NULL}

(* Every allocated name is the published one, or in the hands of exactly   *)
(* one thread that will publish or free it, or was left over from a fork:  *)
(* process_name() leaks none, and frees none that is published.            *)
Accounted ==
  /\ alive = Published \cup Private \cup orphans
  /\ Published \cap (Private \cup orphans) = {}
  /\ Private \cap orphans = {}
  /\ \A t, u \in Threads : t # u /\ th[t].new # NULL => th[t].new # th[u].new
  /\ \A t \in Threads : th[t].new # NULL <=> pc[t] = "cas"

(* The cached pid is that of the process that read the cached name. *)
CachedFor ==
  IF cache.name = NULL THEN cache.pid = 0 ELSE text[cache.name].pid = cache.pid

(* No name is freed twice, although the compare-and-swap in process_name() *)
(* can mistake a new name at an old address for the one it loaded.         *)
FreedOnce == status # "doublefree"

(* A name that is returned was read by this process, not by the parent it  *)
(* was forked from, and a call that began after the process was renamed    *)
(* does not return the zygote's.                                           *)
RightName ==
  \A t \in Threads :
    pc[t] = "use" /\ ~th[t].stale =>
      /\ text[th[t].cur].pid = pid
      /\ th[t].began # Zygote => text[th[t].cur].title # Zygote

(* The process has its own name, and everyone inside process_name() works  *)
(* on it: nobody is about to replace a name of this process, and a name    *)
(* somebody compares or uses is the published one.  So it is when nobody   *)
(* is inside and the cache does not hold the zygote's name.                *)
Settled ==
  /\ title # Zygote /\ status # "freed"
  /\ cache.name # NULL /\ cache.pid = pid => text[cache.name].title # Zygote
  /\ \A t \in Threads :
       /\ pc[t] \in {"compare", "use"} =>
            ~th[t].stale /\ cache = [name |-> th[t].cur, pid |-> pid]
       /\ pc[t] \in {"read", "cas"} => th[t].curPid # pid
       /\ pc[t] = "cas" => text[th[t].new].title # Zygote

(* Once that is so it stays so, over any calls and forks: process_name()   *)
(* no longer frees a name under a caller that still reads it, although the *)
(* caller keeps the pointer after its call.                                *)
NameStays == [][Settled => Settled']_vars

(* Name p was read by this process; if the call began after the process    *)
(* was renamed, it is not the zygote's.                                    *)
Right(p, began) == text[p].pid = pid /\ (began # Zygote => text[p].title # Zygote)

(* A name in hand that was not freed since is allocated, and is what the   *)
(* call may return.                                                        *)
InHand ==
  \A t \in Threads :
    /\ th[t].began # Zygote => title # Zygote
    /\ pc[t] = "cas" => Right(th[t].new, th[t].began)
    /\ pc[t] = "compare" /\ ~th[t].stale =>
         th[t].cur \in alive /\ text[th[t].cur].pid = pid
    /\ pc[t] = "use" /\ ~th[t].stale =>
         th[t].cur \in alive /\ Right(th[t].cur, th[t].began)

(* The inductive invariant of process_name(): it owns every name it has    *)
(* allocated, and what it hands out is what it read.                       *)
NameInv == TypeOK /\ Accounted /\ CachedFor /\ FreedOnce /\ InHand
=============================================================================
