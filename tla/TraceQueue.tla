----------------------------- MODULE TraceQueue ----------------------------
(***************************************************************************)
(* Utils::Tracer of utils/tracer.h: threads add records to the active      *)
(* buffer with one fetch-and-add each; the one that finds it exactly full  *)
(* swaps in a new buffer and puts the old one into a list; a worker thread *)
(* exchanges the head of the list for a new one and flushes and frees what *)
(* it finds there.                                                         *)
(*                                                                         *)
(* The word _active is a buffer and the number of slots taken; the word    *)
(* _head is a list head and the count below it.  Addresses are not handed  *)
(* out twice: the first use of freed memory ends a behaviour, so that no   *)
(* later one could tell.                                                   *)
(***************************************************************************)
EXTENDS Integers, FiniteSets

CONSTANTS
  Adders,      \* threads that call addEntry()
  Worker,      \* the thread of run()
  Bufs,        \* addresses of trace buffers
  Nodes,       \* addresses of list nodes
  Heads,       \* addresses of list heads
  Size,        \* the template parameter size: records in a buffer
  None,
  Fails,       \* new and malloc() may fail
  Idle,        \* the worker may find that nothing was added for a while
  Cap,         \* bound: slots counted beyond which the count stands still
  MaxEntries   \* bound: calls of addEntry()

Actors == Adders \cup {Worker}

ASSUME QueueAssumption ==
  /\ Size \in Nat \ {0} /\ Cap \in Nat /\ Cap > Size /\ MaxEntries \in Nat
  /\ IsFiniteSet(Adders) /\ IsFiniteSet(Nodes) /\ Worker \notin Adders
  /\ Bufs # {} /\ Heads # {}
  /\ None \notin Bufs \cup Nodes \cup Heads /\ Nodes \cap Heads = {}
  /\ Bufs \cap (Nodes \cup Heads) = {}
  /\ Fails \in BOOLEAN /\ Idle \in BOOLEAN

VARIABLES
  abuf, taken,  \* _active: the buffer and the slots taken
  head, count,  \* _head: the list head or None, and the count
  mem,          \* "unused", "live" or "freed" for each address
  buffer,       \* node->buffer; None is an address that is no buffer's
  next, prev,   \* the links of nodes and heads
  interrupted,  \* interruptionRequested()
  entries,      \* addEntry() calls so far
  status,       \* "running", or what went wrong first
  lost,         \* history: an adder threw, and its buffer was not replaced
  mixed,        \* history: heads at which two list operations overlapped
  linked,       \* history: nodes completely linked, by head
  pc,
  cbuf, cslot,  \* cptr of each actor
  new,          \* newbuf, or the new head
  node, hd, pv  \* locals of enqueueTraceBuffer() and list_add_tail()

active == <<abuf, taken>>
list == <<buffer, next, prev, mixed, linked>>
locals == <<cbuf, cslot, new, node, hd, pv>>
rest == <<interrupted, entries, lost>>
vars == <<active, head, count, mem, list, rest, status, pc, locals>>

Goto(x, l) == pc' = [pc EXCEPT ![x] = l]

(* An address that was not used yet; which one makes no difference. *)
Unused(S) == {a \in S : mem[a] = "unused"}
Fresh(S) == CHOOSE a \in Unused(S) : TRUE

(* The behaviour ends with error e. *)
Error(e) == status' = e /\ UNCHANGED <<active, head, count, mem, list, rest, pc, locals>>

Init ==
  LET b == CHOOSE a \in Bufs : TRUE
      h == CHOOSE a \in Heads : TRUE
  IN
    /\ abuf = b /\ taken = 0 /\ head = h /\ count = 0
    /\ mem = [a \in Bufs \cup Nodes \cup Heads |-> IF a \in {b, h} THEN "live" ELSE "unused"]
    /\ buffer = [n \in Nodes |-> None]
    /\ next = [a \in Nodes \cup Heads |-> a] /\ prev = [a \in Nodes \cup Heads |-> a]
    /\ mixed = {} /\ linked = [a \in Heads |-> {}]
    /\ interrupted = FALSE /\ entries = 0 /\ lost = FALSE /\ status = "running"
    /\ pc = [x \in Actors |-> IF x = Worker THEN "top" ELSE "idle"]
    /\ cbuf = [x \in Actors |-> None] /\ cslot = [x \in Actors |-> 0]
    /\ new = [x \in Actors |-> None] /\ node = [x \in Actors |-> None]
    /\ hd = [x \in Actors |-> None] /\ pv = [x \in Actors |-> None]

-----------------------------------------------------------------------------
(* addEntry()                                                              *)

addEntry(x) ==
  /\ pc[x] = "idle" /\ entries < MaxEntries
  /\ entries' = entries + 1
  /\ Goto(x, "add")
  /\ UNCHANGED <<active, head, count, mem, list, interrupted, lost, status, locals>>

(* Variants: one slot too many is handed out; everyone who finds the       *)
(* buffer full swaps it.                                                   *)
Fetch_OffByOne(x) ==
  /\ pc[x] = "add"
  /\ taken' = IF taken < Cap THEN taken + 1 ELSE taken
  /\ IF taken <= Size + 1
       THEN /\ cbuf' = [cbuf EXCEPT ![x] = abuf] /\ cslot' = [cslot EXCEPT ![x] = taken]
            /\ Goto(x, IF taken = Size + 1 THEN "alloc" ELSE "copy")
       ELSE UNCHANGED <<cbuf, cslot, pc>>
  /\ UNCHANGED <<abuf, head, count, mem, list, rest, status, new, node, hd, pv>>

Fetch_AnyFull(x) ==
  /\ pc[x] = "add"
  /\ taken' = IF taken < Cap THEN taken + 1 ELSE taken
  /\ cbuf' = [cbuf EXCEPT ![x] = abuf]
  /\ cslot' = [cslot EXCEPT ![x] = IF taken >= Size THEN Size ELSE taken]
  /\ Goto(x, IF taken >= Size THEN "alloc" ELSE "copy")
  /\ UNCHANGED <<abuf, head, count, mem, list, rest, status, new, node, hd, pv>>

(* The fetch-and-add: exactly full, a slot, or somebody else swaps. *)
Fetch(x) ==
  /\ pc[x] = "add"
  /\ taken' = IF taken < Cap THEN taken + 1 ELSE taken
  /\ IF taken <= Size
       THEN /\ cbuf' = [cbuf EXCEPT ![x] = abuf] /\ cslot' = [cslot EXCEPT ![x] = taken]
            /\ Goto(x, IF taken = Size THEN "alloc" ELSE "copy")
       ELSE UNCHANGED <<cbuf, cslot, pc>>
  /\ UNCHANGED <<abuf, head, count, mem, list, rest, status, new, node, hd, pv>>

(* Threads that wait for the swap go on counting: the pointer overflows    *)
(* into the upper half of the word and comes out below the end again.      *)
Carry(x) ==
  /\ pc[x] = "add" /\ taken = Cap
  /\ Error("carry")

Copy(x) ==
  /\ pc[x] = "copy"
  /\ IF mem[cbuf[x]] = "live"
       THEN /\ Goto(x, "idle")
            /\ cbuf' = [cbuf EXCEPT ![x] = None] /\ cslot' = [cslot EXCEPT ![x] = 0]
            /\ UNCHANGED <<active, head, count, mem, list, rest, status, new, node, hd, pv>>
       ELSE Error("late copy")

(* init_trace_buffer() *)
Alloc(x) ==
  /\ pc[x] \in {"alloc", "idle alloc"}
  /\ Unused(Bufs) # {}
  /\ mem' = [mem EXCEPT ![Fresh(Bufs)] = "live"]
  /\ new' = [new EXCEPT ![x] = Fresh(Bufs)]
  /\ Goto(x, "exchange")
  /\ UNCHANGED <<active, head, count, list, rest, status, cbuf, cslot, node, hd, pv>>

(* The exception leaves addEntry(), and nobody will swap the buffer; in    *)
(* run() it ends the process.                                              *)
AllocThrows(x) ==
  /\ pc[x] \in {"alloc", "idle alloc"}
  /\ Fails \/ Unused(Bufs) = {}
  /\ IF x = Worker
       THEN Error("terminate")
       ELSE /\ lost' = TRUE /\ Goto(x, "idle")
            /\ cbuf' = [cbuf EXCEPT ![x] = None] /\ cslot' = [cslot EXCEPT ![x] = 0]
            /\ UNCHANGED <<active, head, count, mem, list, interrupted, entries, status, new,
                           node, hd, pv>>

(* Variants: the count starts again but the buffer stays; the buffer is    *)
(* replaced but the count stays.                                           *)
Exchange_Reuses(x) ==
  /\ pc[x] = "exchange"
  /\ taken' = 0 /\ abuf' = abuf
  /\ new' = [new EXCEPT ![x] = None]
  /\ Goto(x, "node")
  /\ UNCHANGED <<head, count, mem, list, rest, status, cbuf, cslot, node, hd, pv>>

Exchange_KeepsCount(x) ==
  /\ pc[x] = "exchange"
  /\ abuf' = new[x] /\ taken' = taken
  /\ new' = [new EXCEPT ![x] = None]
  /\ Goto(x, "node")
  /\ UNCHANGED <<head, count, mem, list, rest, status, cbuf, cslot, node, hd, pv>>

(* _active.exchange(newbuf) *)
Exchange(x) ==
  /\ pc[x] = "exchange"
  /\ abuf' = new[x] /\ taken' = 0
  /\ new' = [new EXCEPT ![x] = None]
  /\ Goto(x, "node")
  /\ UNCHANGED <<head, count, mem, list, rest, status, cbuf, cslot, node, hd, pv>>

-----------------------------------------------------------------------------
(* enqueueTraceBuffer(cptr - max) and list_add_tail(), which has no lock.  *)

(* What an actor does when the call returns. *)
Enqueued(x) ==
  /\ Goto(x, IF x = Worker THEN "peek" ELSE "add")
  /\ cbuf' = [cbuf EXCEPT ![x] = None] /\ cslot' = [cslot EXCEPT ![x] = 0]
  /\ node' = [node EXCEPT ![x] = None] /\ hd' = [hd EXCEPT ![x] = None]
  /\ pv' = [pv EXCEPT ![x] = None]

(* cptr - max is the buffer only when cptr was its end. *)
Node(x) ==
  /\ pc[x] = "node"
  /\ Unused(Nodes) # {}
  /\ mem' = [mem EXCEPT ![Fresh(Nodes)] = "live"]
  /\ node' = [node EXCEPT ![x] = Fresh(Nodes)]
  /\ buffer' = [buffer EXCEPT ![Fresh(Nodes)] = IF cslot[x] = Size THEN cbuf[x] ELSE None]
  /\ Goto(x, "head")
  /\ UNCHANGED <<active, head, count, next, prev, mixed, linked, rest, status, cbuf, cslot, new, hd, pv>>

NodeFails(x) ==
  /\ pc[x] = "node"
  /\ Fails \/ Unused(Nodes) = {}
  /\ Enqueued(x)
  /\ UNCHANGED <<active, head, count, mem, list, rest, status, new>>

(* The actors between the fetch of head h and the end of their enqueue. *)
Linking(h) == {x \in Actors : pc[x] \in {"read prev", "set prev", "set node", "set next"} /\ hd[x] = h}

(* _head.fetch_add(1); without a head the buffer is dropped. *)
Head(x) ==
  /\ pc[x] = "head"
  /\ count' = count + 1
  /\ IF head = None THEN Enqueued(x)
     ELSE /\ Goto(x, "read prev")
          /\ hd' = [hd EXCEPT ![x] = head]
          /\ UNCHANGED <<cbuf, cslot, node, pv>>
  /\ mixed' = IF head # None /\ Linking(head) # {} THEN mixed \cup {head} ELSE mixed
  /\ UNCHANGED <<active, head, mem, buffer, next, prev, linked, rest, status, new>>

ReadPrev(x) ==
  /\ pc[x] = "read prev"
  /\ IF mem[hd[x]] = "live"
       THEN /\ pv' = [pv EXCEPT ![x] = prev[hd[x]]]
            /\ Goto(x, "set prev")
            /\ UNCHANGED <<active, head, count, mem, list, rest, status, cbuf, cslot, new, node, hd>>
       ELSE Error("freed head")

(* A variant that forgets next->prev = node. *)
SetPrev_Forgets(x) ==
  /\ pc[x] = "set prev"
  /\ Goto(x, "set node")
  /\ UNCHANGED <<active, head, count, mem, list, rest, status, locals>>

SetPrev(x) ==
  /\ pc[x] = "set prev"
  /\ IF mem[hd[x]] = "live"
       THEN /\ prev' = [prev EXCEPT ![hd[x]] = node[x]]
            /\ Goto(x, "set node")
            /\ UNCHANGED <<active, head, count, mem, buffer, next, mixed, linked, rest, status, locals>>
       ELSE Error("freed head")

SetNode(x) ==
  /\ pc[x] = "set node"
  /\ next' = [next EXCEPT ![node[x]] = hd[x]]
  /\ prev' = [prev EXCEPT ![node[x]] = pv[x]]
  /\ Goto(x, "set next")
  /\ UNCHANGED <<active, head, count, mem, buffer, mixed, linked, rest, status, locals>>

SetNext(x) ==
  /\ pc[x] = "set next"
  /\ IF mem[pv[x]] = "live"
       THEN /\ next' = [next EXCEPT ![pv[x]] = node[x]]
            /\ linked' = [linked EXCEPT ![hd[x]] = @ \cup {node[x]}]
            /\ Enqueued(x)
            /\ UNCHANGED <<active, head, count, mem, buffer, prev, mixed, rest, status, new>>
       ELSE Error("freed head")

-----------------------------------------------------------------------------
(* run()                                                                   *)

(* The test of the loop, sleep() and the look at the time. *)
Top(x) ==
  /\ pc[x] = "top"
  /\ IF interrupted THEN Goto(x, "ended")
     ELSE Goto(x, "peek") \/ (Idle /\ Goto(x, "look"))
  /\ UNCHANGED <<active, head, count, mem, list, rest, status, locals>>

(* The peek at the active buffer; the difference of the pointers is        *)
(* unsigned.                                                               *)
IdlePeek(x) ==
  /\ pc[x] = "look"
  /\ IF taken > Size \/ 2 * (Size - taken) > Size
       THEN /\ cbuf' = [cbuf EXCEPT ![x] = abuf] /\ cslot' = [cslot EXCEPT ![x] = taken]
            /\ Goto(x, "idle alloc")
       ELSE Goto(x, "peek") /\ UNCHANGED <<cbuf, cslot>>
  /\ UNCHANGED <<active, head, count, mem, list, rest, status, new, node, hd, pv>>

(* A variant that waits for a second buffer. *)
Peek_Two(x) ==
  /\ pc[x] = "peek"
  /\ Goto(x, IF count <= 1 THEN "top" ELSE "new head")
  /\ UNCHANGED <<active, head, count, mem, list, rest, status, locals>>

Peek(x) ==
  /\ pc[x] = "peek"
  /\ Goto(x, IF count = 0 THEN "top" ELSE "new head")
  /\ UNCHANGED <<active, head, count, mem, list, rest, status, locals>>

(* A new head, unless the worker has to end. *)
NewHead(x) ==
  /\ pc[x] = "new head"
  /\ IF interrupted
       THEN new' = [new EXCEPT ![x] = None] /\ UNCHANGED <<mem, next, prev>>
       ELSE /\ Unused(Heads) # {}
            /\ mem' = [mem EXCEPT ![Fresh(Heads)] = "live"]
            /\ next' = [next EXCEPT ![Fresh(Heads)] = Fresh(Heads)]
            /\ prev' = [prev EXCEPT ![Fresh(Heads)] = Fresh(Heads)]
            /\ new' = [new EXCEPT ![x] = Fresh(Heads)]
  /\ Goto(x, "swap head")
  /\ UNCHANGED <<active, head, count, buffer, mixed, linked, rest, status, cbuf, cslot, node, hd, pv>>

NewHeadThrows(x) ==
  /\ pc[x] = "new head" /\ ~interrupted
  /\ Fails \/ Unused(Heads) = {}
  /\ Error("terminate")

(* _head.exchange(new_tbh) *)
SwapHead(x) ==
  /\ pc[x] = "swap head"
  /\ head' = new[x] /\ count' = 0
  /\ hd' = [hd EXCEPT ![x] = head] /\ pv' = [pv EXCEPT ![x] = head]
  /\ mixed' = IF Linking(head) # {} THEN mixed \cup {head} ELSE mixed
  /\ Goto(x, "walk")
  /\ UNCHANGED <<active, mem, buffer, next, prev, linked, rest, status, cbuf, cslot, new, node>>

(* flush() and free_trace_buffer() of the node after the last one; nodes   *)
(* are never freed.  Another head is no node and has no buffer.  The       *)
(* buffer is live until it is freed, and what flush() writes is left open: *)
(* a copy made while it runs counts as one made before.                    *)
Walk(x) ==
  LET n == next[pv[x]]
      b == IF n \in Nodes THEN buffer[n] ELSE None
  IN
  /\ pc[x] = "walk" /\ n # hd[x]
  /\ IF b = None THEN Error("wild pointer")
     ELSE IF mem[b] # "live" THEN Error("double free")
     ELSE /\ mem' = [mem EXCEPT ![b] = "freed"]
          /\ pv' = [pv EXCEPT ![x] = n]
          /\ UNCHANGED <<active, head, count, list, rest, status, pc, cbuf, cslot, new, node, hd>>

FreeHead(x) ==
  /\ pc[x] = "walk" /\ next[pv[x]] = hd[x]
  /\ mem' = [mem EXCEPT ![hd[x]] = "freed"]
  /\ Goto(x, "top")
  /\ hd' = [hd EXCEPT ![x] = None] /\ pv' = [pv EXCEPT ![x] = None]
  /\ new' = [new EXCEPT ![x] = None]
  /\ UNCHANGED <<active, head, count, list, rest, status, cbuf, cslot, node>>

(* The destructor's interrupt(). *)
Interrupt ==
  /\ ~interrupted
  /\ interrupted' = TRUE
  /\ UNCHANGED <<active, head, count, mem, list, entries, lost, status, pc, locals>>

-----------------------------------------------------------------------------
Enqueue(x) ==
  Node(x) \/ NodeFails(x) \/ Head(x) \/ ReadPrev(x) \/ SetPrev(x) \/ SetNode(x) \/ SetNext(x)

Step(x) ==
  /\ status = "running"
  /\ \/ Fetch(x) \/ Copy(x) \/ Alloc(x) \/ AllocThrows(x) \/ Exchange(x) \/ Enqueue(x)
     \/ Top(x) \/ IdlePeek(x) \/ Peek(x) \/ NewHead(x) \/ NewHeadThrows(x) \/ SwapHead(x)
     \/ Walk(x) \/ FreeHead(x)

Done == (status # "running" \/ pc[Worker] = "ended") /\ UNCHANGED vars

Next ==
  \/ \E x \in Actors : Step(x)
  \/ status = "running" /\ \E x \in Adders : addEntry(x) \/ Carry(x)
  \/ status = "running" /\ Interrupt
  \/ Done

Spec == Init /\ [][Next]_vars

(* Every thread goes on. *)
FairSpec == Spec /\ \A x \in Actors : WF_vars(Step(x))

-----------------------------------------------------------------------------
(* Properties.                                                             *)

Swapping == {"alloc", "exchange", "node"}

EnqueueLabels == {"exchange", "node", "head", "read prev", "set prev", "set node", "set next"}
AdderLabels == {"idle", "add", "copy", "alloc"} \cup EnqueueLabels
WorkerLabels == {"top", "look", "idle alloc", "peek", "new head", "swap head", "walk", "ended"}
                \cup EnqueueLabels

(* Every variable keeps its type; a slot is copied to only if it exists,   *)
(* and only the worker is in run().                                        *)
TypeOK ==
  /\ abuf \in Bufs /\ taken \in 0 .. Cap
  /\ head \in Heads \cup {None} /\ count \in Nat
  /\ mem \in [Bufs \cup Nodes \cup Heads -> {"unused", "live", "freed"}]
  /\ buffer \in [Nodes -> Bufs \cup {None}]
  /\ next \in [Nodes \cup Heads -> Nodes \cup Heads]
  /\ prev \in [Nodes \cup Heads -> Nodes \cup Heads]
  /\ mixed \subseteq Heads /\ linked \in [Heads -> SUBSET Nodes]
  /\ interrupted \in BOOLEAN /\ entries \in 0 .. MaxEntries /\ lost \in BOOLEAN
  /\ status \in {"running", "carry", "late copy", "terminate", "freed head", "wild pointer",
                 "double free"}
  /\ pc \in [Actors -> AdderLabels \cup WorkerLabels]
  /\ \A x \in Adders : pc[x] \in AdderLabels /\ (pc[x] = "copy" => cslot[x] < Size)
  /\ pc[Worker] \in WorkerLabels
  /\ cbuf \in [Actors -> Bufs \cup {None}] /\ cslot \in [Actors -> 0 .. Cap]
  /\ new \in [Actors -> Bufs \cup Heads \cup {None}]
  /\ node \in [Actors -> Nodes \cup {None}]
  /\ hd \in [Actors -> Heads \cup {None}] /\ pv \in [Actors -> Nodes \cup Heads \cup {None}]

(* Two threads never copy into the same slot, and nobody has been given a  *)
(* slot of the active buffer that is still to be handed out.               *)
SlotsApart ==
  \A x \in Adders : pc[x] = "copy" =>
    /\ cbuf[x] = abuf => cslot[x] < taken
    /\ \A y \in Adders : y # x /\ pc[y] = "copy" => <<cbuf[y], cslot[y]>> # <<cbuf[x], cslot[x]>>

(* A full buffer is in the hands of one thread, which found it exactly     *)
(* full; it is put into the queue once, also when the worker swaps the     *)
(* active buffer at the same time.                                         *)
OneSwapper ==
  /\ \A x \in Adders : pc[x] \in Swapping =>
       /\ mem[cbuf[x]] = "live" /\ cslot[x] = Size
       /\ cbuf[x] = abuf => taken > Size
       /\ \A n \in Nodes : buffer[n] # cbuf[x]
       /\ \A y \in Adders : y # x /\ pc[y] \in Swapping => cbuf[y] # cbuf[x]
  /\ \A m, n \in Nodes : m # n /\ buffer[m] # None => buffer[m] # buffer[n]

(* Whatever the list has come to in a race between threads that link into  *)
(* it without a lock, the worker never flushes a buffer twice.             *)
FlushedOnce == status # "double free"

(* The nodes a walk from head h comes to: the least set that holds what is *)
(* after h, and with everything else in it what is after that.             *)
Closed(h, S) == next[h] \in S /\ \A m \in S \ {h} : next[m] \in S
Chain(h) ==
  {n \in (Nodes \cup Heads) \ {h} : \A S \in SUBSET (Nodes \cup Heads) : Closed(h, S) => n \in S}

(* As long as list operations on a head do not overlap, its list is whole: *)
(* the worker will find every node that was put there, and the count of    *)
(* the current head is their number.                                       *)
ListWhole ==
  \A h \in Heads :
    /\ mem[h] = "live" /\ h \notin mixed /\ Linking(h) = {} => Chain(h) = linked[h]
    /\ h = head => count = Cardinality(linked[h]) + Cardinality(Linking(h))

(* All calls of addEntry() return, unless the thread that had to replace   *)
(* the full buffer could not.                                              *)
AddEnds ==
  (\E x \in Adders : pc[x] # "idle") ~>
    (\A x \in Adders : pc[x] = "idle") \/ status # "running" \/ lost

(* The nodes that were queued without a race and are not flushed yet. *)
Waiting ==
  {n \in Nodes : /\ \E h \in Heads \ mixed : n \in linked[h]
                 /\ buffer[n] # None => mem[buffer[n]] # "freed"}

(* A buffer that was queued without a race is flushed, unless the tracer   *)
(* is being destroyed.                                                     *)
QueuedIsFlushed == Waiting # {} ~> Waiting = {} \/ interrupted \/ status # "running"
=============================================================================
