-------------------------- MODULE TraceQueueProofs --------------------------
(***************************************************************************)
(* Proofs about TraceQueue, for any number of threads, slots and records:  *)
(* every slot is given to one thread, a full buffer is queued once, the    *)
(* worker flushes it at most once, whatever the races on the list do to    *)
(* its links, and a list without such a race is complete.                  *)
(***************************************************************************)
EXTENDS TraceQueue, FiniteSetTheorems, TLAPS

-----------------------------------------------------------------------------
(* The inductive invariant.                                                *)

Links == {"read prev", "set prev", "set node", "set next"}

(* What an actor's locals hold where it uses them. *)
Labelled(x) ==
  /\ pc[x] \in Swapping \cup {"copy", "idle alloc"} => cbuf[x] \in Bufs
  /\ pc[x] = "exchange" => new[x] \in Bufs
  /\ pc[x] \in Links \cup {"head"} => node[x] \in Nodes
  /\ pc[x] \in Links \cup {"walk"} => hd[x] \in Heads
  /\ pc[x] \in (Links \cup {"walk"}) \ {"read prev"} => pv[x] \in Nodes \cup Heads

(* The worker does without a head only at the end. *)
WorkerOK ==
  /\ pc[Worker] = "swap head" => /\ new[Worker] \in Heads \cup {None}
                                 /\ new[Worker] = None => interrupted
  /\ head = None => interrupted /\ pc[Worker] \in {"walk", "top", "ended"}

LabelsOK == (\A x \in Actors : Labelled(x)) /\ WorkerOK

(* Memory in use is allocated, and the worker never has the end of a       *)
(* buffer.                                                                 *)
MemoryOK ==
  /\ mem[abuf] = "live"
  /\ \A x \in Actors : cbuf[x] # None => mem[cbuf[x]] # "unused"
  /\ \A n \in Nodes : buffer[n] # None => mem[buffer[n]] # "unused" /\ buffer[n] # abuf
  /\ pc[Worker] \in {"idle alloc", "exchange", "node"} => cslot[Worker] # Size

(* A new buffer is known to its maker alone. *)
NewApart ==
  \A x \in Actors : pc[x] = "exchange" =>
    /\ mem[new[x]] = "live" /\ new[x] # abuf
    /\ \A y \in Actors : /\ cbuf[y] # new[x]
                         /\ y # x /\ pc[y] = "exchange" => new[y] # new[x]
    /\ \A n \in Nodes : buffer[n] # new[x]

(* Whoever has exchanged the buffer it found full has another one active.  *)
Exchanged == \A x \in Adders : pc[x] = "node" => cbuf[x] # abuf

SlotInv == MemoryOK /\ NewApart /\ Exchanged /\ SlotsApart /\ OneSwapper

(* A node is in the hands of one actor, and points to itself until it is   *)
(* linked.                                                                 *)
NodesOK ==
  /\ \A x \in Actors : node[x] # None =>
       /\ mem[node[x]] # "unused"
       /\ \A y \in Actors : y # x => node[y] # node[x]
       /\ pc[x] \in {"head", "read prev", "set prev", "set node"} => prev[node[x]] = node[x]
       /\ pc[x] = "set next" => prev[node[x]] = pv[x]
  /\ \A n \in Nodes : mem[n] = "unused" => prev[n] = n /\ buffer[n] = None

(* The node after another points back to it: what list_add_tail() wrote    *)
(* into a node does not change any more.                                   *)
BackLinks == \A m \in Nodes \cup Heads : next[m] \in Nodes => prev[next[m]] = m

(* The nodes whose buffer was flushed. *)
Flushed == {n \in Nodes : buffer[n] # None /\ mem[buffer[n]] = "freed"}

(* The worker comes to a node from the node before it, and never back.     *)
WalkOK ==
  /\ head # None => mem[head] = "live"
  /\ pc[Worker] = "swap head" /\ new[Worker] # None =>
       mem[new[Worker]] = "live" /\ new[Worker] # head
  /\ \A n \in Flushed :
       /\ prev[n] # n
       /\ prev[n] \in Nodes => prev[n] \in Flushed
       /\ prev[n] \in Heads => \/ mem[prev[n]] = "freed"
                               \/ pc[Worker] = "walk" /\ prev[n] = hd[Worker]
  /\ pc[Worker] = "walk" =>
       /\ hd[Worker] # head
       /\ pv[Worker] \in Heads => pv[Worker] = hd[Worker]
       /\ pv[Worker] \in Nodes => pv[Worker] \in Flushed
       /\ \A n \in Flushed : prev[n] # pv[Worker]

ListInv == NodesOK /\ BackLinks /\ WalkOK

-----------------------------------------------------------------------------
(* Types.                                                                  *)

(* An address that was not used yet is found, if there is one. *)
LEMMA FreshFacts ==
  ASSUME NEW S, Unused(S) # {}
  PROVE  Fresh(S) \in S /\ mem[Fresh(S)] = "unused"
<1>1. Fresh(S) \in Unused(S)
  BY DEF Fresh
<1>2. QED
  BY <1>1 DEF Unused

(* The constructor leaves everything of its type. *)
LEMMA TypeStart ==
  ASSUME Init
  PROVE  TypeOK /\ LabelsOK
<1>a. /\ Size \in Nat \ {0} /\ Cap \in Nat /\ Cap > Size /\ MaxEntries \in Nat
      /\ Worker \notin Adders /\ None \notin Bufs /\ None \notin Heads
  BY QueueAssumption
<1>b. PICK b \in Bufs : b = CHOOSE a \in Bufs : TRUE
  BY QueueAssumption
<1>h. PICK h \in Heads : h = CHOOSE a \in Heads : TRUE
  BY QueueAssumption
<1>1. abuf \in Bufs /\ taken \in 0 .. Cap /\ head \in Heads /\ count \in Nat
  BY <1>a, <1>b, <1>h DEF Init
<1>m. mem \in [Bufs \cup Nodes \cup Heads -> {"unused", "live", "freed"}]
  <2>1. mem = [a \in Bufs \cup Nodes \cup Heads |-> IF a \in {b, h} THEN "live" ELSE "unused"]
    BY <1>b, <1>h DEF Init
  <2>2. QED
    BY <2>1
<1>2. /\ \A x \in Adders : pc[x] = "idle" /\ x \in Actors
      /\ pc[Worker] = "top" /\ Worker \in Actors
      /\ pc \in [Actors -> {"idle", "top"}]
  BY <1>a DEF Init, Actors
<1>3. /\ buffer \in [Nodes -> Bufs \cup {None}]
      /\ next \in [Nodes \cup Heads -> Nodes \cup Heads]
      /\ prev \in [Nodes \cup Heads -> Nodes \cup Heads]
      /\ mixed \subseteq Heads /\ linked \in [Heads -> SUBSET Nodes]
  BY DEF Init
<1>4. /\ interrupted \in BOOLEAN /\ entries \in 0 .. MaxEntries /\ lost \in BOOLEAN
      /\ status = "running"
  <2>1. interrupted = FALSE /\ entries = 0 /\ lost = FALSE /\ status = "running"
    BY Zenon DEF Init
  <2>2. 0 \in 0 .. MaxEntries
    BY <1>a
  <2>3. QED
    BY <2>1, <2>2, Zenon
<1>5. /\ cbuf \in [Actors -> Bufs \cup {None}] /\ cslot \in [Actors -> 0 .. Cap]
      /\ new \in [Actors -> Bufs \cup Heads \cup {None}]
      /\ node \in [Actors -> Nodes \cup {None}]
      /\ hd \in [Actors -> Heads \cup {None}]
      /\ pv \in [Actors -> Nodes \cup Heads \cup {None}]
  BY <1>a DEF Init
<1>6. TypeOK
  BY <1>1, <1>m, <1>2, <1>3, <1>4, <1>5 DEF TypeOK, AdderLabels, WorkerLabels
<1>7. LabelsOK
  BY <1>a, <1>1, <1>2 DEF LabelsOK, Labelled, WorkerOK, Swapping, Links, Actors
<1>8. QED
  BY <1>6, <1>7

(* A step keeps the types if it keeps each one. *)
LEMMA TypeKeep ==
  ASSUME TypeOK,
         abuf' = abuf \/ abuf' \in Bufs, taken' = taken \/ taken' \in 0 .. Cap,
         head' = head \/ head' \in Heads \cup {None}, count' = count \/ count' \in Nat,
         mem' = mem \/ mem' \in [Bufs \cup Nodes \cup Heads -> {"unused", "live", "freed"}],
         buffer' = buffer \/ buffer' \in [Nodes -> Bufs \cup {None}],
         next' = next \/ next' \in [Nodes \cup Heads -> Nodes \cup Heads],
         prev' = prev \/ prev' \in [Nodes \cup Heads -> Nodes \cup Heads],
         mixed' = mixed \/ mixed' \subseteq Heads,
         linked' = linked \/ linked' \in [Heads -> SUBSET Nodes],
         interrupted' = interrupted \/ interrupted' = TRUE,
         entries' = entries \/ entries' \in 0 .. MaxEntries, lost' = lost \/ lost' = TRUE,
         \/ status' = status
         \/ status' \in {"carry", "late copy", "terminate", "freed head", "wild pointer", "double free"},
         \/ pc' = pc
         \/ /\ pc' \in [Actors -> AdderLabels \cup WorkerLabels]
            /\ \A y \in Adders : pc'[y] \in AdderLabels
            /\ pc'[Worker] \in WorkerLabels,
         \A y \in Adders : pc'[y] = "copy" => cslot'[y] < Size,
         cbuf' = cbuf \/ cbuf' \in [Actors -> Bufs \cup {None}],
         cslot' = cslot \/ cslot' \in [Actors -> 0 .. Cap],
         new' = new \/ new' \in [Actors -> Bufs \cup Heads \cup {None}],
         node' = node \/ node' \in [Actors -> Nodes \cup {None}],
         hd' = hd \/ hd' \in [Actors -> Heads \cup {None}],
         pv' = pv \/ pv' \in [Actors -> Nodes \cup Heads \cup {None}]
  PROVE  TypeOK'
<1>1. abuf' \in Bufs /\ taken' \in 0 .. Cap /\ head' \in Heads \cup {None} /\ count' \in Nat
  BY DEF TypeOK
<1>2. /\ mem' \in [Bufs \cup Nodes \cup Heads -> {"unused", "live", "freed"}]
      /\ buffer' \in [Nodes -> Bufs \cup {None}]
      /\ next' \in [Nodes \cup Heads -> Nodes \cup Heads]
      /\ prev' \in [Nodes \cup Heads -> Nodes \cup Heads]
      /\ mixed' \subseteq Heads /\ linked' \in [Heads -> SUBSET Nodes]
  BY Zenon DEF TypeOK
<1>3. interrupted' \in BOOLEAN /\ entries' \in 0 .. MaxEntries /\ lost' \in BOOLEAN
  BY Zenon DEF TypeOK
<1>4. status' \in {"running", "carry", "late copy", "terminate", "freed head", "wild pointer",
                  "double free"}
  BY Zenon DEF TypeOK
<1>5. /\ pc' \in [Actors -> AdderLabels \cup WorkerLabels]
      /\ \A x \in Adders : pc'[x] \in AdderLabels
      /\ pc'[Worker] \in WorkerLabels
  BY Zenon DEF TypeOK
<1>6. /\ cbuf' \in [Actors -> Bufs \cup {None}] /\ cslot' \in [Actors -> 0 .. Cap]
      /\ new' \in [Actors -> Bufs \cup Heads \cup {None}]
      /\ node' \in [Actors -> Nodes \cup {None}]
      /\ hd' \in [Actors -> Heads \cup {None}]
      /\ pv' \in [Actors -> Nodes \cup Heads \cup {None}]
  BY Zenon DEF TypeOK
<1>7. QED
  BY <1>1, <1>2, <1>3, <1>4, <1>5, <1>6, Zenon DEF TypeOK

(* A step of one actor keeps the locals of the others. *)
LEMMA LabelsKeep ==
  ASSUME LabelsOK, NEW x \in Actors, Labelled(x)',
         \A y \in Actors : y # x => /\ pc'[y] = pc[y] /\ cbuf'[y] = cbuf[y] /\ new'[y] = new[y]
                                    /\ node'[y] = node[y] /\ hd'[y] = hd[y] /\ pv'[y] = pv[y],
         \/ head' = head /\ x # Worker /\ interrupted' = interrupted
         \/ WorkerOK'
  PROVE  LabelsOK'
<1>1. \A y \in Actors : y # x => Labelled(y)'
  BY DEF LabelsOK, Labelled
<1>2. Worker \in Actors
  BY DEF Actors
<1>3. WorkerOK'
  BY <1>2 DEF LabelsOK, WorkerOK
<1>4. QED
  BY <1>1, <1>3 DEF LabelsOK

(* A step that goes to another label keeps the type of pc. *)
LEMMA GotoType ==
  ASSUME TypeOK, NEW x \in Actors, NEW l, Goto(x, l),
         x \in Adders => l \in AdderLabels, x = Worker => l \in WorkerLabels
  PROVE  /\ pc' \in [Actors -> AdderLabels \cup WorkerLabels]
         /\ \A y \in Adders : pc'[y] \in AdderLabels
         /\ pc'[Worker] \in WorkerLabels
         /\ pc'[x] = l /\ \A y \in Actors : y # x => pc'[y] = pc[y]
<1>1. Worker \in Actors /\ Worker \notin Adders /\ \A y \in Adders : y \in Actors
  BY QueueAssumption DEF Actors
<1>2. x \in Adders \/ x = Worker
  BY DEF Actors
<1>3. pc' = [pc EXCEPT ![x] = l] /\ pc \in [Actors -> AdderLabels \cup WorkerLabels]
  BY DEF Goto, TypeOK
<1>4. pc'[x] = l /\ \A y \in Actors : y # x => pc'[y] = pc[y]
  BY <1>3
<1>5. \A y \in Adders : pc[y] \in AdderLabels
  BY DEF TypeOK
<1>6. pc[Worker] \in WorkerLabels
  BY DEF TypeOK
<1>7. QED
  BY <1>1, <1>2, <1>3, <1>4, <1>5, <1>6

(* Which labels are whose. *)
LEMMA Role ==
  ASSUME TypeOK, NEW x \in Actors
  PROVE  /\ x \in Adders \/ x = Worker
         /\ pc[x] \in {"idle", "add", "copy", "alloc"} => x \in Adders /\ x # Worker
         /\ pc[x] \in {"top", "look", "idle alloc", "peek", "new head", "swap head", "walk", "ended"}
              => x = Worker
<1>1. x \in Adders \/ x = Worker
  BY DEF Actors
<1>2. x \in Adders => pc[x] \in AdderLabels
  BY DEF TypeOK
<1>3. x = Worker => pc[x] \in WorkerLabels
  BY DEF TypeOK
<1>4. QED
  BY <1>1, <1>2, <1>3, QueueAssumption DEF AdderLabels, WorkerLabels, EnqueueLabels

(* Types of the variables that most actions change. *)
LEMMA LocalTypes ==
  ASSUME TypeOK
  PROVE  /\ cbuf \in [Actors -> Bufs \cup {None}] /\ cslot \in [Actors -> 0 .. Cap]
         /\ new \in [Actors -> Bufs \cup Heads \cup {None}]
         /\ node \in [Actors -> Nodes \cup {None}]
         /\ hd \in [Actors -> Heads \cup {None}]
         /\ pv \in [Actors -> Nodes \cup Heads \cup {None}]
         /\ pc \in [Actors -> AdderLabels \cup WorkerLabels]
         /\ mem \in [Bufs \cup Nodes \cup Heads -> {"unused", "live", "freed"}]
         /\ buffer \in [Nodes -> Bufs \cup {None}]
         /\ next \in [Nodes \cup Heads -> Nodes \cup Heads]
         /\ prev \in [Nodes \cup Heads -> Nodes \cup Heads]
         /\ abuf \in Bufs /\ taken \in 0 .. Cap /\ head \in Heads \cup {None}
         /\ \A y \in Adders : pc[y] = "copy" => cslot[y] < Size
BY Zenon DEF TypeOK

(* The first error ends everything else. *)
LEMMA TypeError ==
  ASSUME TypeOK, LabelsOK,
         NEW e \in {"carry", "late copy", "terminate", "freed head", "wild pointer", "double free"},
         Error(e)
  PROVE  TypeOK' /\ LabelsOK'
<1>1. /\ status' = e
      /\ UNCHANGED <<abuf, taken, head, count, mem, buffer, next, prev, mixed, linked, interrupted,
                     entries, lost, pc, cbuf, cslot, new, node, hd, pv>>
  BY DEF Error, active, list, rest, locals
<1>2. TypeOK'
  BY <1>1, LocalTypes, TypeKeep
<1>3. LabelsOK'
  BY <1>1 DEF LabelsOK, Labelled, WorkerOK
<1>4. QED
  BY <1>2, <1>3

(* addEntry() keeps the types. *)
LEMMA TypeAdd ==
  ASSUME TypeOK, LabelsOK, NEW x \in Actors, addEntry(x) \/ Carry(x) \/ Fetch(x) \/ Copy(x)
  PROVE  TypeOK' /\ LabelsOK'
<1> USE DEF active, list, rest, locals
<1>a. /\ Size \in Nat \ {0} /\ Cap \in Nat /\ Cap > Size /\ MaxEntries \in Nat
  BY QueueAssumption
<1>r. x \in Adders /\ x # Worker /\ \A y \in Adders : y \in Actors
  BY Role DEF addEntry, Carry, Fetch, Copy, Actors
<1>t. /\ cbuf \in [Actors -> Bufs \cup {None}] /\ cslot \in [Actors -> 0 .. Cap]
      /\ abuf \in Bufs /\ taken \in 0 .. Cap
      /\ \A y \in Adders : pc[y] = "copy" => cslot[y] < Size
  BY LocalTypes
<1>1. CASE addEntry(x)
  <2>1. /\ Goto(x, "add")
        /\ UNCHANGED <<abuf, taken, head, count, mem, buffer, next, prev, mixed, linked, interrupted,
                       lost, status, cbuf, cslot, new, node, hd, pv>>
    BY <1>1 DEF addEntry
  <2>2. entries' \in 0 .. MaxEntries
    <3>1. entries \in 0 .. MaxEntries
      BY DEF TypeOK
    <3>2. entries' = entries + 1 /\ entries < MaxEntries
      BY <1>1 DEF addEntry
    <3>3. QED
      BY <1>a, <3>1, <3>2
  <2>3. /\ pc' \in [Actors -> AdderLabels \cup WorkerLabels]
        /\ \A y \in Adders : pc'[y] \in AdderLabels
        /\ pc'[Worker] \in WorkerLabels
        /\ pc'[x] = "add" /\ \A y \in Actors : y # x => pc'[y] = pc[y]
    BY <1>r, <2>1, GotoType DEF AdderLabels
  <2>4. \A y \in Adders : pc'[y] = "copy" => cslot'[y] < Size
    BY <1>r, <1>t, <2>1, <2>3
  <2>5. TypeOK'
    BY <2>1, <2>2, <2>3, <2>4, TypeKeep
  <2>6. Labelled(x)'
    BY <2>3 DEF Labelled, Swapping, Links
  <2>7. interrupted' = interrupted /\ head' = head
    BY <2>1
  <2>8. LabelsOK'
    BY <1>r, <2>1, <2>3, <2>6, LabelsKeep
  <2>9. QED
    BY <2>5, <2>8
<1>2. CASE Fetch(x)
  <2>1. /\ UNCHANGED <<abuf, head, count, mem, buffer, next, prev, mixed, linked, interrupted,
                       entries, lost, status, new, node, hd, pv>>
        /\ taken' = IF taken < Cap THEN taken + 1 ELSE taken
    BY <1>2 DEF Fetch
  <2>2. taken' \in 0 .. Cap
    BY <1>a, <1>t, <2>1
  <2>3. CASE taken <= Size
    <3>1. PICK l \in {"alloc", "copy"} : Goto(x, l) /\ (l = "copy" => taken < Size)
      BY <1>2, <1>a, <1>t, <2>3 DEF Fetch
    <3>2. cbuf' = [cbuf EXCEPT ![x] = abuf] /\ cslot' = [cslot EXCEPT ![x] = taken]
      BY <1>2, <2>3 DEF Fetch
    <3>3. /\ cbuf' \in [Actors -> Bufs \cup {None}] /\ cslot' \in [Actors -> 0 .. Cap]
          /\ cbuf'[x] = abuf /\ cslot'[x] = taken
          /\ \A y \in Actors : y # x => cbuf'[y] = cbuf[y] /\ cslot'[y] = cslot[y]
      BY <1>t, <3>2
    <3>4. /\ pc' \in [Actors -> AdderLabels \cup WorkerLabels]
          /\ \A y \in Adders : pc'[y] \in AdderLabels
          /\ pc'[Worker] \in WorkerLabels
          /\ pc'[x] = l /\ \A y \in Actors : y # x => pc'[y] = pc[y]
      BY <1>r, <3>1, GotoType DEF AdderLabels
    <3>5. \A y \in Adders : pc'[y] = "copy" => cslot'[y] < Size
      BY <1>r, <1>t, <3>1, <3>3, <3>4
    <3>6. TypeOK'
      BY <2>1, <2>2, <3>3, <3>4, <3>5, TypeKeep
    <3>7. Labelled(x)'
      BY <1>t, <3>1, <3>3, <3>4 DEF Labelled, Swapping, Links
    <3>8. LabelsOK'
      BY <1>r, <2>1, <3>3, <3>4, <3>7, LabelsKeep
    <3>9. QED
      BY <3>6, <3>8
  <2>4. CASE ~(taken <= Size)
    <3>1. UNCHANGED <<cbuf, cslot, pc>>
      BY <1>2, <2>4 DEF Fetch
    <3>2. TypeOK'
      BY <1>t, <2>1, <2>2, <3>1, TypeKeep
    <3>3. LabelsOK'
      BY <2>1, <3>1 DEF LabelsOK, Labelled, WorkerOK
    <3>4. QED
      BY <3>2, <3>3
  <2>5. QED
    BY <2>3, <2>4
<1>3. CASE Copy(x) /\ mem[cbuf[x]] = "live"
  <2>1. /\ Goto(x, "idle")
        /\ cbuf' = [cbuf EXCEPT ![x] = None] /\ cslot' = [cslot EXCEPT ![x] = 0]
        /\ UNCHANGED <<abuf, taken, head, count, mem, buffer, next, prev, mixed, linked, interrupted,
                       entries, lost, status, new, node, hd, pv>>
    BY <1>3 DEF Copy
  <2>2. /\ cbuf' \in [Actors -> Bufs \cup {None}] /\ cslot' \in [Actors -> 0 .. Cap]
        /\ \A y \in Actors : y # x => cbuf'[y] = cbuf[y] /\ cslot'[y] = cslot[y]
    BY <1>a, <1>t, <2>1
  <2>3. /\ pc' \in [Actors -> AdderLabels \cup WorkerLabels]
        /\ \A y \in Adders : pc'[y] \in AdderLabels
        /\ pc'[Worker] \in WorkerLabels
        /\ pc'[x] = "idle" /\ \A y \in Actors : y # x => pc'[y] = pc[y]
    BY <1>r, <2>1, GotoType DEF AdderLabels
  <2>4. \A y \in Adders : pc'[y] = "copy" => cslot'[y] < Size
    BY <1>r, <1>t, <2>2, <2>3
  <2>5. TypeOK'
    BY <2>1, <2>2, <2>3, <2>4, TypeKeep
  <2>6. Labelled(x)'
    BY <2>3 DEF Labelled, Swapping, Links
  <2>7. LabelsOK'
    BY <1>r, <2>1, <2>2, <2>3, <2>6, LabelsKeep
  <2>8. QED
    BY <2>5, <2>7
<1>4. QED
  BY <1>1, <1>2, <1>3, TypeError DEF Carry, Copy

(* The slot an actor has when it has none. *)
LEMMA NoSlot == 0 \in 0 .. Cap
BY QueueAssumption

(* The locals of the actors that take no step. *)
Others(x) ==
  \A y \in Actors : y # x => /\ pc'[y] = pc[y] /\ cbuf'[y] = cbuf[y] /\ cslot'[y] = cslot[y]
                             /\ new'[y] = new[y] /\ node'[y] = node[y] /\ hd'[y] = hd[y]
                             /\ pv'[y] = pv[y]

(* A step of one actor to another label. *)
LEMMA TypeMove ==
  ASSUME TypeOK, LabelsOK, NEW x \in Actors, NEW l, Goto(x, l), l # "copy",
         x \in Adders => l \in AdderLabels, x = Worker => l \in WorkerLabels,
         UNCHANGED <<entries, status>>,
         interrupted' = interrupted \/ interrupted' = TRUE, lost' = lost \/ lost' = TRUE,
         abuf' = abuf \/ abuf' \in Bufs, taken' = taken \/ taken' \in 0 .. Cap,
         head' = head \/ head' \in Heads \cup {None}, count' = count \/ count' \in Nat,
         mem' = mem \/ mem' \in [Bufs \cup Nodes \cup Heads -> {"unused", "live", "freed"}],
         buffer' = buffer \/ buffer' \in [Nodes -> Bufs \cup {None}],
         next' = next \/ next' \in [Nodes \cup Heads -> Nodes \cup Heads],
         prev' = prev \/ prev' \in [Nodes \cup Heads -> Nodes \cup Heads],
         mixed' = mixed \/ mixed' \subseteq Heads,
         linked' = linked \/ linked' \in [Heads -> SUBSET Nodes],
         NEW b \in Bufs \cup {None}, cbuf' = cbuf \/ cbuf' = [cbuf EXCEPT ![x] = b],
         NEW s \in 0 .. Cap, cslot' = cslot \/ cslot' = [cslot EXCEPT ![x] = s],
         NEW w \in Bufs \cup Heads \cup {None}, new' = new \/ new' = [new EXCEPT ![x] = w],
         NEW n \in Nodes \cup {None}, node' = node \/ node' = [node EXCEPT ![x] = n],
         NEW h \in Heads \cup {None}, hd' = hd \/ hd' = [hd EXCEPT ![x] = h],
         NEW p \in Nodes \cup Heads \cup {None}, pv' = pv \/ pv' = [pv EXCEPT ![x] = p],
         pc'[x] = l /\ Others(x) => Labelled(x)',
         \/ head' = head /\ x # Worker /\ interrupted' = interrupted
         \/ pc'[x] = l /\ Others(x) => WorkerOK'
  PROVE  TypeOK' /\ LabelsOK' /\ pc'[x] = l /\ Others(x)
<1>1. /\ pc' \in [Actors -> AdderLabels \cup WorkerLabels]
      /\ \A y \in Adders : pc'[y] \in AdderLabels
      /\ pc'[Worker] \in WorkerLabels
      /\ pc'[x] = l /\ \A y \in Actors : y # x => pc'[y] = pc[y]
  BY GotoType
<1>2. cbuf' \in [Actors -> Bufs \cup {None}] /\ \A y \in Actors : y # x => cbuf'[y] = cbuf[y]
  BY LocalTypes
<1>3. cslot' \in [Actors -> 0 .. Cap] /\ \A y \in Actors : y # x => cslot'[y] = cslot[y]
  <2>1. cslot \in [Actors -> 0 .. Cap]
    BY LocalTypes
  <2>2. QED
    BY <2>1, Zenon
<1>4. new' \in [Actors -> Bufs \cup Heads \cup {None}] /\ \A y \in Actors : y # x => new'[y] = new[y]
  BY LocalTypes
<1>5. node' \in [Actors -> Nodes \cup {None}] /\ \A y \in Actors : y # x => node'[y] = node[y]
  BY LocalTypes
<1>6. hd' \in [Actors -> Heads \cup {None}] /\ \A y \in Actors : y # x => hd'[y] = hd[y]
  BY LocalTypes
<1>7. pv' \in [Actors -> Nodes \cup Heads \cup {None}] /\ \A y \in Actors : y # x => pv'[y] = pv[y]
  BY LocalTypes
<1>8. Others(x)
  BY <1>1, <1>2, <1>3, <1>4, <1>5, <1>6, <1>7 DEF Others
<1>9. \A y \in Adders : pc'[y] = "copy" => cslot'[y] < Size
  <2>1. \A y \in Adders : y \in Actors /\ (pc[y] = "copy" => cslot[y] < Size)
    BY LocalTypes DEF Actors
  <2>2. QED
    BY <1>1, <1>3, <2>1
<1>10. TypeOK'
  BY <1>1, <1>2, <1>3, <1>4, <1>5, <1>6, <1>7, <1>9, TypeKeep
<1>11. LabelsOK'
  BY <1>1, <1>8, LabelsKeep DEF Others
<1>12. QED
  BY <1>1, <1>8, <1>10, <1>11

Addresses == Bufs \cup Nodes \cup Heads

(* Address a is the only one whose memory changes, and it is now s. *)
Turns(a, s) == mem'[a] = s /\ \A c \in Addresses : c # a => mem'[c] = mem[c]

(* What a write of one address does. *)
LEMMA Write ==
  ASSUME TypeOK, NEW a \in Addresses, NEW s \in {"live", "freed"}, mem' = [mem EXCEPT ![a] = s]
  PROVE  Turns(a, s) /\ mem' \in [Bufs \cup Nodes \cup Heads -> {"unused", "live", "freed"}]
<1>1. mem \in [Bufs \cup Nodes \cup Heads -> {"unused", "live", "freed"}]
  BY LocalTypes
<1>2. QED
  BY <1>1 DEF Turns, Addresses

(* init_trace_buffer() *)
LEMMA AllocFacts ==
  ASSUME TypeOK, LabelsOK, NEW x \in Actors, Alloc(x)
  PROVE  /\ TypeOK' /\ LabelsOK' /\ Others(x) /\ pc'[x] = "exchange"
         /\ (pc[x] = "alloc" /\ x \in Adders) \/ (pc[x] = "idle alloc" /\ x = Worker)
         /\ UNCHANGED <<abuf, taken, head, count, buffer, next, prev, status, cbuf, cslot, node, hd, pv>>
         /\ \E b \in Bufs : mem[b] = "unused" /\ Turns(b, "live") /\ new'[x] = b
<1>1. /\ Goto(x, "exchange") /\ pc[x] \in {"alloc", "idle alloc"}
      /\ UNCHANGED <<abuf, taken, head, count, buffer, next, prev, mixed, linked, interrupted, entries,
                     lost, status, cbuf, cslot, node, hd, pv>>
  BY DEF Alloc, active, list, rest
<1>2. PICK b \in Bufs : /\ mem[b] = "unused" /\ mem' = [mem EXCEPT ![b] = "live"]
                        /\ new' = [new EXCEPT ![x] = b]
  BY FreshFacts DEF Alloc
<1>3. Turns(b, "live") /\ mem' \in [Bufs \cup Nodes \cup Heads -> {"unused", "live", "freed"}]
  BY <1>2, Write DEF Addresses
<1>4. new'[x] = b
  BY <1>2, LocalTypes
<1>5. cbuf'[x] \in Bufs
  BY <1>1 DEF LabelsOK, Labelled, Swapping
<1>6. pc'[x] = "exchange" => Labelled(x)'
  BY <1>4, <1>5 DEF Labelled, Swapping, Links
<1>7. \/ head' = head /\ x # Worker /\ interrupted' = interrupted
      \/ pc'[x] = "exchange" => WorkerOK'
  <2>1. CASE x = Worker
    BY <2>1, <1>1 DEF LabelsOK, WorkerOK
  <2>2. QED
    BY <1>1, <2>1
<1>8. "exchange" \in AdderLabels /\ "exchange" \in WorkerLabels
  BY DEF AdderLabels, WorkerLabels, EnqueueLabels
<1>9. TypeOK' /\ LabelsOK' /\ pc'[x] = "exchange" /\ Others(x)
  <2>1. 0 \in 0 .. Cap
    BY QueueAssumption
  <2>2. QED
    BY <1>1, <1>2, <1>3, <1>6, <1>7, <1>8, <2>1, TypeMove
<1>10. QED
  BY <1>1, <1>2, <1>3, <1>4, <1>9, Role

(* bad_alloc in an adder *)
LEMMA AllocThrowsFacts ==
  ASSUME TypeOK, LabelsOK, NEW x \in Actors, x # Worker, AllocThrows(x)
  PROVE  /\ TypeOK' /\ LabelsOK' /\ Others(x) /\ pc'[x] = "idle" /\ pc[x] = "alloc"
         /\ UNCHANGED <<abuf, taken, head, count, mem, buffer, next, prev, status, new, node, hd, pv>>
         /\ cbuf'[x] = None
<1>1. /\ Goto(x, "idle") /\ pc[x] \in {"alloc", "idle alloc"}
      /\ cbuf' = [cbuf EXCEPT ![x] = None] /\ cslot' = [cslot EXCEPT ![x] = 0] /\ lost' = TRUE
      /\ UNCHANGED <<abuf, taken, head, count, mem, buffer, next, prev, mixed, linked, interrupted,
                     entries, status, new, node, hd, pv>>
  BY DEF AllocThrows, active, list
<1>2. pc'[x] = "idle" => Labelled(x)'
  BY DEF Labelled, Swapping, Links
<1>3. "idle" \in AdderLabels
  BY DEF AdderLabels
<1>4. 0 \in 0 .. Cap
  BY QueueAssumption
<1>5. TypeOK' /\ LabelsOK' /\ pc'[x] = "idle" /\ Others(x)
  BY <1>1, <1>2, <1>3, <1>4, TypeMove
<1>6. pc[x] = "alloc" /\ cbuf'[x] = None
  BY <1>1, Role, LocalTypes
<1>7. QED
  BY <1>1, <1>5, <1>6

(* _active.exchange(newbuf) *)
LEMMA ExchangeFacts ==
  ASSUME TypeOK, LabelsOK, NEW x \in Actors, Exchange(x)
  PROVE  /\ TypeOK' /\ LabelsOK' /\ Others(x) /\ pc'[x] = "node" /\ pc[x] = "exchange"
         /\ UNCHANGED <<head, count, mem, buffer, next, prev, status, cbuf, cslot, node, hd, pv>>
         /\ abuf' = new[x] /\ new[x] \in Bufs /\ taken' = 0 /\ new'[x] = None
<1>1. /\ Goto(x, "node") /\ pc[x] = "exchange"
      /\ abuf' = new[x] /\ taken' = 0 /\ new' = [new EXCEPT ![x] = None]
      /\ UNCHANGED <<head, count, mem, buffer, next, prev, mixed, linked, interrupted, entries, lost,
                     status, cbuf, cslot, node, hd, pv>>
  BY DEF Exchange, list, rest
<1>2. new[x] \in Bufs /\ cbuf'[x] \in Bufs
  BY <1>1 DEF LabelsOK, Labelled, Swapping
<1>3. pc'[x] = "node" => Labelled(x)'
  BY <1>2 DEF Labelled, Swapping, Links
<1>4. \/ head' = head /\ x # Worker /\ interrupted' = interrupted
      \/ pc'[x] = "node" => WorkerOK'
  <2>1. CASE x = Worker
    BY <2>1, <1>1 DEF LabelsOK, WorkerOK
  <2>2. QED
    BY <1>1, <2>1
<1>5. "node" \in AdderLabels /\ "node" \in WorkerLabels
  BY DEF AdderLabels, WorkerLabels, EnqueueLabels
<1>6. 0 \in 0 .. Cap
  BY QueueAssumption
<1>7. TypeOK' /\ LabelsOK' /\ pc'[x] = "node" /\ Others(x)
  BY <1>1, <1>2, <1>3, <1>4, <1>5, <1>6, TypeMove
<1>8. new'[x] = None
  BY <1>1, LocalTypes
<1>9. QED
  BY <1>1, <1>2, <1>7, <1>8

(* malloc() of the node and the store of its buffer *)
LEMMA NodeFacts ==
  ASSUME TypeOK, LabelsOK, NEW x \in Actors, Node(x)
  PROVE  /\ TypeOK' /\ LabelsOK' /\ Others(x) /\ pc'[x] = "head" /\ pc[x] = "node"
         /\ UNCHANGED <<abuf, taken, head, count, next, prev, status, cbuf, cslot, new, hd, pv>>
         /\ \E n \in Nodes :
              /\ mem[n] = "unused" /\ Turns(n, "live") /\ node'[x] = n
              /\ buffer'[n] = IF cslot[x] = Size THEN cbuf[x] ELSE None
              /\ \A m \in Nodes : m # n => buffer'[m] = buffer[m]
<1>1. /\ Goto(x, "head") /\ pc[x] = "node"
      /\ UNCHANGED <<abuf, taken, head, count, next, prev, mixed, linked, interrupted, entries, lost,
                     status, cbuf, cslot, new, hd, pv>>
  BY DEF Node, active, rest
<1>2. PICK n \in Nodes :
        /\ mem[n] = "unused" /\ mem' = [mem EXCEPT ![n] = "live"]
        /\ node' = [node EXCEPT ![x] = n]
        /\ buffer' = [buffer EXCEPT ![n] = IF cslot[x] = Size THEN cbuf[x] ELSE None]
  BY FreshFacts DEF Node
<1>3. Turns(n, "live") /\ mem' \in [Bufs \cup Nodes \cup Heads -> {"unused", "live", "freed"}]
  BY <1>2, Write DEF Addresses
<1>4. node'[x] = n
  BY <1>2, LocalTypes
<1>5. /\ buffer' \in [Nodes -> Bufs \cup {None}]
      /\ buffer'[n] = IF cslot[x] = Size THEN cbuf[x] ELSE None
      /\ \A m \in Nodes : m # n => buffer'[m] = buffer[m]
  <2>1. buffer \in [Nodes -> Bufs \cup {None}] /\ cbuf[x] \in Bufs \cup {None}
    BY LocalTypes
  <2>2. QED
    BY <1>2, <2>1
<1>6. pc'[x] = "head" => Labelled(x)'
  BY <1>4 DEF Labelled, Swapping, Links
<1>7. \/ head' = head /\ x # Worker /\ interrupted' = interrupted
      \/ pc'[x] = "head" => WorkerOK'
  <2>1. CASE x = Worker
    BY <2>1, <1>1 DEF LabelsOK, WorkerOK
  <2>2. QED
    BY <1>1, <2>1
<1>8. "head" \in AdderLabels /\ "head" \in WorkerLabels
  BY DEF AdderLabels, WorkerLabels, EnqueueLabels
<1>9. 0 \in 0 .. Cap
  BY QueueAssumption
<1>10. TypeOK' /\ LabelsOK' /\ pc'[x] = "head" /\ Others(x)
  BY <1>1, <1>2, <1>3, <1>5, <1>6, <1>7, <1>8, <1>9, TypeMove
<1>11. QED
  BY <1>1, <1>2, <1>3, <1>4, <1>5, <1>10

(* The return from enqueueTraceBuffer() *)
LEMMA EnqueuedFacts ==
  ASSUME TypeOK, LabelsOK, NEW x \in Actors, Enqueued(x),
         UNCHANGED <<abuf, taken, head, mem, buffer, prev, interrupted, entries, lost, status, new>>,
         count' = count \/ count' \in Nat,
         next' = next \/ next' \in [Nodes \cup Heads -> Nodes \cup Heads],
         mixed' = mixed \/ mixed' \subseteq Heads,
         linked' = linked \/ linked' \in [Heads -> SUBSET Nodes],
         pc[x] \in EnqueueLabels
  PROVE  /\ TypeOK' /\ LabelsOK' /\ Others(x)
         /\ (pc'[x] = "peek" /\ x = Worker) \/ (pc'[x] = "add" /\ x \in Adders)
         /\ cbuf'[x] = None /\ node'[x] = None
<1>1. PICK l : l = IF x = Worker THEN "peek" ELSE "add"
  OBVIOUS
<1>2. /\ Goto(x, l)
      /\ cbuf' = [cbuf EXCEPT ![x] = None] /\ cslot' = [cslot EXCEPT ![x] = 0]
      /\ node' = [node EXCEPT ![x] = None] /\ hd' = [hd EXCEPT ![x] = None]
      /\ pv' = [pv EXCEPT ![x] = None]
  BY <1>1 DEF Enqueued
<1>3. pc'[x] = l => Labelled(x)'
  BY <1>1 DEF Labelled, Swapping, Links
<1>4. x \in Adders \/ x = Worker
  BY Role
<1>5. \/ head' = head /\ x # Worker /\ interrupted' = interrupted
      \/ pc'[x] = l => WorkerOK'
  <2>1. CASE x = Worker
    BY <2>1, <1>1 DEF LabelsOK, WorkerOK, EnqueueLabels
  <2>2. QED
    BY <2>1
<1>6. (x \in Adders => l \in AdderLabels) /\ (x = Worker => l \in WorkerLabels) /\ l # "copy"
  BY <1>1, QueueAssumption DEF AdderLabels, WorkerLabels
<1>7. 0 \in 0 .. Cap
  BY QueueAssumption
<1>8. TypeOK' /\ LabelsOK' /\ pc'[x] = l /\ Others(x)
  BY <1>2, <1>3, <1>5, <1>6, <1>7, TypeMove
<1>9. cbuf'[x] = None /\ node'[x] = None
  BY <1>2, LocalTypes
<1>10. QED
  BY <1>1, <1>4, <1>8, <1>9

(* A node that cannot be allocated *)
LEMMA NodeFailsFacts ==
  ASSUME TypeOK, LabelsOK, NEW x \in Actors, NodeFails(x)
  PROVE  /\ TypeOK' /\ LabelsOK' /\ Others(x) /\ pc[x] = "node"
         /\ (pc'[x] = "peek" /\ x = Worker) \/ (pc'[x] = "add" /\ x \in Adders)
         /\ cbuf'[x] = None /\ node'[x] = None
         /\ UNCHANGED <<abuf, taken, head, count, mem, buffer, next, prev, status, new>>
<1>1. /\ UNCHANGED <<abuf, taken, head, count, mem, buffer, next, prev, mixed, linked, interrupted,
                     entries, lost, status, new>>
      /\ pc[x] = "node" /\ Enqueued(x)
  BY DEF NodeFails, active, list, rest
<1>2. QED
  BY <1>1, EnqueuedFacts DEF EnqueueLabels

(* _head.fetch_add(1) *)
LEMMA HeadFacts ==
  ASSUME TypeOK, LabelsOK, NEW x \in Actors, Head(x)
  PROVE  /\ TypeOK' /\ LabelsOK' /\ Others(x) /\ pc[x] = "head"
         /\ UNCHANGED <<abuf, taken, head, mem, buffer, next, prev, status, new>>
         /\ \/ /\ (pc'[x] = "peek" /\ x = Worker) \/ (pc'[x] = "add" /\ x \in Adders)
               /\ cbuf'[x] = None /\ node'[x] = None
            \/ /\ pc'[x] = "read prev" /\ hd'[x] = head
               /\ UNCHANGED <<cbuf, cslot, node, pv>>
<1>1. /\ UNCHANGED <<abuf, taken, head, mem, buffer, next, prev, linked, interrupted,
                     entries, lost, status, new>>
      /\ pc[x] = "head" /\ count' = count + 1
      /\ mixed' = IF head # None /\ Linking(head) # {} THEN mixed \cup {head} ELSE mixed
  BY DEF Head, active, rest
<1>2. count' \in Nat
  <2>1. count \in Nat
    BY DEF TypeOK
  <2>2. QED
    BY <1>1, <2>1
<1>3. mixed' = mixed \/ mixed' \subseteq Heads
  <2>1. mixed \subseteq Heads /\ head \in Heads \cup {None}
    BY DEF TypeOK
  <2>2. QED
    BY <1>1, <2>1
<1>4. CASE head = None
  <2>1. Enqueued(x)
    BY <1>4 DEF Head
  <2>2. QED
    BY <1>1, <1>2, <1>3, <2>1, EnqueuedFacts DEF EnqueueLabels
<1>5. CASE head # None
  <2>1. /\ Goto(x, "read prev") /\ hd' = [hd EXCEPT ![x] = head]
        /\ UNCHANGED <<cbuf, cslot, node, pv>>
    BY <1>5 DEF Head
  <2>2. head \in Heads /\ hd'[x] = head
    BY <1>5, <2>1, LocalTypes
  <2>3. node'[x] \in Nodes
    BY <1>1, <2>1 DEF LabelsOK, Labelled, Links
  <2>4. pc'[x] = "read prev" => Labelled(x)'
    BY <2>2, <2>3 DEF Labelled, Swapping, Links
  <2>5. \/ head' = head /\ x # Worker /\ interrupted' = interrupted
        \/ pc'[x] = "read prev" => WorkerOK'
    <3>1. CASE x = Worker
      BY <3>1, <1>1, <1>5 DEF LabelsOK, WorkerOK
    <3>2. QED
      BY <1>1, <3>1
  <2>6. "read prev" \in AdderLabels /\ "read prev" \in WorkerLabels
    BY DEF AdderLabels, WorkerLabels, EnqueueLabels
  <2>7. 0 \in 0 .. Cap
    BY QueueAssumption
  <2>8. TypeOK' /\ LabelsOK' /\ pc'[x] = "read prev" /\ Others(x)
    BY <1>1, <1>2, <1>3, <2>1, <2>2, <2>4, <2>5, <2>6, <2>7, TypeMove
  <2>9. QED
    BY <1>1, <2>1, <2>2, <2>8
<1>6. QED
  BY <1>4, <1>5

(* list_add_tail() as long as the memory it writes to is there *)
LEMMA ReadPrevFacts ==
  ASSUME TypeOK, LabelsOK, NEW x \in Actors, ReadPrev(x), mem[hd[x]] = "live"
  PROVE  /\ TypeOK' /\ LabelsOK' /\ Others(x) /\ pc[x] = "read prev" /\ pc'[x] = "set prev"
         /\ UNCHANGED <<abuf, taken, head, count, mem, buffer, next, prev, status, cbuf, cslot, new,
                        node, hd>>
         /\ pv'[x] = prev[hd[x]] /\ hd[x] \in Heads
<1>1. /\ UNCHANGED <<abuf, taken, head, count, mem, buffer, next, prev, mixed, linked, interrupted,
                     entries, lost, status, cbuf, cslot, new, node, hd>>
      /\ pc[x] = "read prev" /\ Goto(x, "set prev") /\ pv' = [pv EXCEPT ![x] = prev[hd[x]]]
  BY DEF ReadPrev, active, list, rest
<1>2. hd[x] \in Heads /\ node[x] \in Nodes
  BY <1>1 DEF LabelsOK, Labelled, Links
<1>3. prev[hd[x]] \in Nodes \cup Heads /\ pv'[x] = prev[hd[x]]
  BY <1>1, <1>2, LocalTypes
<1>4. pc'[x] = "set prev" => Labelled(x)'
  BY <1>1, <1>2, <1>3 DEF Labelled, Swapping, Links
<1>5. \/ head' = head /\ x # Worker /\ interrupted' = interrupted
      \/ pc'[x] = "set prev" => WorkerOK'
  <2>1. CASE x = Worker
    BY <2>1, <1>1 DEF LabelsOK, WorkerOK
  <2>2. QED
    BY <1>1, <2>1
<1>6. "set prev" \in AdderLabels /\ "set prev" \in WorkerLabels
  BY DEF AdderLabels, WorkerLabels, EnqueueLabels
<1>7. 0 \in 0 .. Cap
  BY QueueAssumption
<1>8. TypeOK' /\ LabelsOK' /\ pc'[x] = "set prev" /\ Others(x)
  BY <1>1, <1>3, <1>4, <1>5, <1>6, <1>7, TypeMove
<1>9. QED
  BY <1>1, <1>2, <1>3, <1>8

(* next->prev = node *)
LEMMA SetPrevFacts ==
  ASSUME TypeOK, LabelsOK, NEW x \in Actors, SetPrev(x), mem[hd[x]] = "live"
  PROVE  /\ TypeOK' /\ LabelsOK' /\ Others(x) /\ pc[x] = "set prev" /\ pc'[x] = "set node"
         /\ UNCHANGED <<abuf, taken, head, count, mem, buffer, next, status, cbuf, cslot, new,
                        node, hd, pv>>
         /\ hd[x] \in Heads /\ \A a \in Nodes \cup Heads : a # hd[x] => prev'[a] = prev[a]
<1>1. /\ UNCHANGED <<abuf, taken, head, count, mem, buffer, next, mixed, linked, interrupted,
                     entries, lost, status, cbuf, cslot, new, node, hd, pv>>
      /\ pc[x] = "set prev" /\ Goto(x, "set node") /\ prev' = [prev EXCEPT ![hd[x]] = node[x]]
  BY DEF SetPrev, active, rest, locals
<1>2. hd[x] \in Heads /\ node[x] \in Nodes /\ pv[x] \in Nodes \cup Heads
  BY <1>1 DEF LabelsOK, Labelled, Links
<1>3. /\ prev' \in [Nodes \cup Heads -> Nodes \cup Heads]
      /\ \A a \in Nodes \cup Heads : a # hd[x] => prev'[a] = prev[a]
  <2>1. prev \in [Nodes \cup Heads -> Nodes \cup Heads]
    BY LocalTypes
  <2>2. QED
    BY <1>1, <1>2, <2>1
<1>4. pc'[x] = "set node" => Labelled(x)'
  BY <1>1, <1>2 DEF Labelled, Swapping, Links
<1>5. \/ head' = head /\ x # Worker /\ interrupted' = interrupted
      \/ pc'[x] = "set node" => WorkerOK'
  <2>1. CASE x = Worker
    BY <2>1, <1>1 DEF LabelsOK, WorkerOK
  <2>2. QED
    BY <1>1, <2>1
<1>6. "set node" \in AdderLabels /\ "set node" \in WorkerLabels
  BY DEF AdderLabels, WorkerLabels, EnqueueLabels
<1>7. 0 \in 0 .. Cap
  BY QueueAssumption
<1>8. TypeOK' /\ LabelsOK' /\ pc'[x] = "set node" /\ Others(x)
  BY <1>1, <1>3, <1>4, <1>5, <1>6, <1>7, TypeMove
<1>9. QED
  BY <1>1, <1>2, <1>3, <1>8

(* node->next = next, node->prev = prev *)
LEMMA SetNodeFacts ==
  ASSUME TypeOK, LabelsOK, NEW x \in Actors, SetNode(x)
  PROVE  /\ TypeOK' /\ LabelsOK' /\ Others(x) /\ pc[x] = "set node" /\ pc'[x] = "set next"
         /\ UNCHANGED <<abuf, taken, head, count, mem, buffer, status, cbuf, cslot, new,
                        node, hd, pv>>
         /\ node[x] \in Nodes /\ hd[x] \in Heads
         /\ prev'[node[x]] = pv[x] /\ next'[node[x]] = hd[x]
         /\ \A a \in Nodes \cup Heads : a # node[x] => prev'[a] = prev[a] /\ next'[a] = next[a]
<1>1. /\ UNCHANGED <<abuf, taken, head, count, mem, buffer, mixed, linked, interrupted,
                     entries, lost, status, cbuf, cslot, new, node, hd, pv>>
      /\ pc[x] = "set node" /\ Goto(x, "set next")
      /\ next' = [next EXCEPT ![node[x]] = hd[x]] /\ prev' = [prev EXCEPT ![node[x]] = pv[x]]
  BY DEF SetNode, active, rest, locals
<1>2. hd[x] \in Heads /\ node[x] \in Nodes /\ pv[x] \in Nodes \cup Heads
  BY <1>1 DEF LabelsOK, Labelled, Links
<1>3. /\ prev' \in [Nodes \cup Heads -> Nodes \cup Heads]
      /\ next' \in [Nodes \cup Heads -> Nodes \cup Heads]
      /\ prev'[node[x]] = pv[x] /\ next'[node[x]] = hd[x]
      /\ \A a \in Nodes \cup Heads : a # node[x] => prev'[a] = prev[a] /\ next'[a] = next[a]
  <2>1. /\ prev \in [Nodes \cup Heads -> Nodes \cup Heads]
        /\ next \in [Nodes \cup Heads -> Nodes \cup Heads]
    BY LocalTypes
  <2>2. QED
    BY <1>1, <1>2, <2>1
<1>4. pc'[x] = "set next" => Labelled(x)'
  BY <1>1, <1>2 DEF Labelled, Swapping, Links
<1>5. \/ head' = head /\ x # Worker /\ interrupted' = interrupted
      \/ pc'[x] = "set next" => WorkerOK'
  <2>1. CASE x = Worker
    BY <2>1, <1>1 DEF LabelsOK, WorkerOK
  <2>2. QED
    BY <1>1, <2>1
<1>6. "set next" \in AdderLabels /\ "set next" \in WorkerLabels
  BY DEF AdderLabels, WorkerLabels, EnqueueLabels
<1>7. 0 \in 0 .. Cap
  BY QueueAssumption
<1>8. TypeOK' /\ LabelsOK' /\ pc'[x] = "set next" /\ Others(x)
  BY <1>1, <1>3, <1>4, <1>5, <1>6, <1>7, TypeMove
<1>9. QED
  BY <1>1, <1>2, <1>3, <1>8

(* prev->next = node *)
LEMMA SetNextFacts ==
  ASSUME TypeOK, LabelsOK, NEW x \in Actors, SetNext(x), mem[pv[x]] = "live"
  PROVE  /\ TypeOK' /\ LabelsOK' /\ Others(x) /\ pc[x] = "set next"
         /\ UNCHANGED <<abuf, taken, head, count, mem, buffer, prev, status, new>>
         /\ (pc'[x] = "peek" /\ x = Worker) \/ (pc'[x] = "add" /\ x \in Adders)
         /\ cbuf'[x] = None /\ node'[x] = None
         /\ node[x] \in Nodes /\ pv[x] \in Nodes \cup Heads /\ next'[pv[x]] = node[x]
         /\ \A a \in Nodes \cup Heads : a # pv[x] => next'[a] = next[a]
<1>1. /\ UNCHANGED <<abuf, taken, head, count, mem, buffer, prev, mixed, interrupted,
                     entries, lost, status, new>>
      /\ pc[x] = "set next" /\ Enqueued(x)
      /\ next' = [next EXCEPT ![pv[x]] = node[x]]
      /\ linked' = [linked EXCEPT ![hd[x]] = @ \cup {node[x]}]
  BY DEF SetNext, active, rest
<1>2. hd[x] \in Heads /\ node[x] \in Nodes /\ pv[x] \in Nodes \cup Heads
  BY <1>1 DEF LabelsOK, Labelled, Links
<1>3. /\ next' \in [Nodes \cup Heads -> Nodes \cup Heads]
      /\ next'[pv[x]] = node[x]
      /\ \A a \in Nodes \cup Heads : a # pv[x] => next'[a] = next[a]
  <2>1. next \in [Nodes \cup Heads -> Nodes \cup Heads]
    BY LocalTypes
  <2>2. QED
    BY <1>1, <1>2, <2>1
<1>4. linked' \in [Heads -> SUBSET Nodes]
  <2>1. linked \in [Heads -> SUBSET Nodes]
    BY DEF TypeOK
  <2>2. linked[hd[x]] \cup {node[x]} \in SUBSET Nodes
    BY <1>2, <2>1
  <2>3. QED
    BY <1>1, <2>1, <2>2
<1>5. QED
  BY <1>1, <1>2, <1>3, <1>4, EnqueuedFacts DEF EnqueueLabels

(* run() between two looks at the list *)
LEMMA TopFacts ==
  ASSUME TypeOK, LabelsOK, NEW x \in Actors, Top(x) \/ Peek(x)
  PROVE  /\ TypeOK' /\ LabelsOK' /\ Others(x) /\ x = Worker
         /\ pc'[x] \in {"top", "ended", "peek", "look", "new head"}
         /\ UNCHANGED <<abuf, taken, head, count, mem, buffer, next, prev, status, cbuf, cslot, new,
                        node, hd, pv>>
<1>1. /\ UNCHANGED <<abuf, taken, head, count, mem, buffer, next, prev, mixed, linked, interrupted,
                     entries, lost, status, cbuf, cslot, new, node, hd, pv>>
      /\ pc[x] \in {"top", "peek"}
  BY DEF Top, Peek, active, list, rest, locals
<1>2. PICK l \in {"top", "ended", "peek", "look", "new head"} :
        Goto(x, l) /\ (pc[x] = "top" /\ interrupted => l = "ended")
  BY DEF Top, Peek
<1>3. x = Worker /\ x \notin Adders
  BY <1>1, Role, QueueAssumption
<1>4. pc'[x] = l => Labelled(x)'
  BY DEF Labelled, Swapping, Links
<1>5. pc'[x] = l => WorkerOK'
  BY <1>1, <1>2, <1>3 DEF LabelsOK, WorkerOK
<1>6. l \in WorkerLabels /\ l # "copy" /\ 0 \in 0 .. Cap
  BY <1>2, NoSlot DEF WorkerLabels
<1>7. TypeOK' /\ LabelsOK' /\ pc'[x] = l /\ Others(x)
  BY <1>1, <1>2, <1>3, <1>4, <1>5, <1>6, TypeMove
<1>8. QED
  BY <1>1, <1>3, <1>7

(* The look at the active buffer takes it only when it is not exactly full. *)
LEMMA IdlePeekFacts ==
  ASSUME TypeOK, LabelsOK, NEW x \in Actors, IdlePeek(x)
  PROVE  /\ TypeOK' /\ LabelsOK' /\ Others(x) /\ x = Worker /\ pc[x] = "look"
         /\ UNCHANGED <<abuf, taken, head, count, mem, buffer, next, prev, status, new, node, hd, pv>>
         /\ \/ pc'[x] = "peek" /\ UNCHANGED <<cbuf, cslot>>
            \/ pc'[x] = "idle alloc" /\ cbuf'[x] = abuf /\ cslot'[x] # Size
<1>1. /\ UNCHANGED <<abuf, taken, head, count, mem, buffer, next, prev, mixed, linked, interrupted,
                     entries, lost, status, new, node, hd, pv>>
      /\ pc[x] = "look"
  BY DEF IdlePeek, active, list, rest
<1>2. x = Worker /\ x \notin Adders
  BY <1>1, Role, QueueAssumption
<1>t. abuf \in Bufs /\ taken \in 0 .. Cap /\ Cap \in Nat /\ Size \in Nat \ {0}
  BY LocalTypes, QueueAssumption
<1>3. CASE taken > Size \/ 2 * (Size - taken) > Size
  <2>1. /\ cbuf' = [cbuf EXCEPT ![x] = abuf] /\ cslot' = [cslot EXCEPT ![x] = taken]
        /\ Goto(x, "idle alloc")
    BY <1>3 DEF IdlePeek
  <2>2. taken # Size
    BY <1>3, <1>t
  <2>3. cbuf'[x] = abuf /\ cslot'[x] = taken
    BY <2>1, LocalTypes
  <2>4. pc'[x] = "idle alloc" => Labelled(x)'
    BY <1>t, <2>3 DEF Labelled, Swapping, Links
  <2>5. pc'[x] = "idle alloc" => WorkerOK'
    BY <1>1, <1>2 DEF LabelsOK, WorkerOK
  <2>6. "idle alloc" \in WorkerLabels
    BY DEF WorkerLabels
  <2>7. TypeOK' /\ LabelsOK' /\ pc'[x] = "idle alloc" /\ Others(x)
    BY <1>1, <1>2, <1>t, <2>1, <2>4, <2>5, <2>6, TypeMove
  <2>8. QED
    BY <1>1, <1>2, <2>2, <2>3, <2>7
<1>4. CASE ~(taken > Size \/ 2 * (Size - taken) > Size)
  <2>1. UNCHANGED <<cbuf, cslot>> /\ Goto(x, "peek")
    BY <1>4 DEF IdlePeek
  <2>2. pc'[x] = "peek" => Labelled(x)'
    BY DEF Labelled, Swapping, Links
  <2>3. pc'[x] = "peek" => WorkerOK'
    BY <1>1, <1>2 DEF LabelsOK, WorkerOK
  <2>4. "peek" \in WorkerLabels
    BY DEF WorkerLabels
  <2>5. TypeOK' /\ LabelsOK' /\ pc'[x] = "peek" /\ Others(x)
    BY <1>1, <1>2, <1>t, <2>1, <2>2, <2>3, <2>4, TypeMove
  <2>6. QED
    BY <1>1, <1>2, <2>1, <2>5
<1>5. QED
  BY <1>3, <1>4

(* A new head, or none at the end *)
LEMMA NewHeadFacts ==
  ASSUME TypeOK, LabelsOK, NEW x \in Actors, NewHead(x)
  PROVE  /\ TypeOK' /\ LabelsOK' /\ Others(x) /\ x = Worker
         /\ pc[x] = "new head" /\ pc'[x] = "swap head"
         /\ UNCHANGED <<abuf, taken, head, count, buffer, status, cbuf, cslot, node, hd, pv>>
         /\ \/ new'[x] = None /\ UNCHANGED <<mem, next, prev>>
            \/ \E h \in Heads :
                 /\ mem[h] = "unused" /\ Turns(h, "live") /\ new'[x] = h
                 /\ next'[h] = h
                 /\ \A a \in Nodes \cup Heads : a # h => next'[a] = next[a] /\ prev'[a] = prev[a]
<1>1. /\ UNCHANGED <<abuf, taken, head, count, buffer, mixed, linked, interrupted,
                     entries, lost, status, cbuf, cslot, node, hd, pv>>
      /\ pc[x] = "new head" /\ Goto(x, "swap head")
  BY DEF NewHead, active, rest
<1>2. x = Worker /\ x \notin Adders
  BY <1>1, Role, QueueAssumption
<1>3. pc'[x] = "swap head" => Labelled(x)'
  BY DEF Labelled, Swapping, Links
<1>4. "swap head" \in WorkerLabels /\ 0 \in 0 .. Cap
  BY QueueAssumption DEF WorkerLabels
<1>5. CASE interrupted
  <2>1. new' = [new EXCEPT ![x] = None] /\ UNCHANGED <<mem, next, prev>>
    BY <1>5 DEF NewHead
  <2>2. new'[x] = None
    BY <2>1, LocalTypes
  <2>3. pc'[x] = "swap head" => WorkerOK'
    BY <1>1, <1>2, <1>5, <2>2 DEF LabelsOK, WorkerOK
  <2>4. TypeOK' /\ LabelsOK' /\ pc'[x] = "swap head" /\ Others(x)
    BY <1>1, <1>2, <1>3, <1>4, <2>1, <2>3, TypeMove
  <2>5. QED
    BY <1>1, <1>2, <2>1, <2>2, <2>4
<1>6. CASE ~interrupted
  <2>1. PICK h \in Heads :
          /\ mem[h] = "unused" /\ mem' = [mem EXCEPT ![h] = "live"]
          /\ next' = [next EXCEPT ![h] = h] /\ prev' = [prev EXCEPT ![h] = h]
          /\ new' = [new EXCEPT ![x] = h]
    BY <1>6, FreshFacts DEF NewHead
  <2>2. new'[x] = h /\ h # None
    BY <2>1, LocalTypes, QueueAssumption
  <2>3. Turns(h, "live") /\ mem' \in [Bufs \cup Nodes \cup Heads -> {"unused", "live", "freed"}]
    BY <2>1, Write DEF Addresses
  <2>4. /\ prev' \in [Nodes \cup Heads -> Nodes \cup Heads]
        /\ next' \in [Nodes \cup Heads -> Nodes \cup Heads]
        /\ next'[h] = h
        /\ \A a \in Nodes \cup Heads : a # h => next'[a] = next[a] /\ prev'[a] = prev[a]
    <3>1. /\ prev \in [Nodes \cup Heads -> Nodes \cup Heads]
          /\ next \in [Nodes \cup Heads -> Nodes \cup Heads]
      BY LocalTypes
    <3>2. QED
      BY <2>1, <3>1
  <2>5. pc'[x] = "swap head" => WorkerOK'
    BY <1>1, <1>2, <2>2 DEF LabelsOK, WorkerOK
  <2>6. TypeOK' /\ LabelsOK' /\ pc'[x] = "swap head" /\ Others(x)
    BY <1>1, <1>2, <1>3, <1>4, <2>1, <2>3, <2>4, <2>5, TypeMove, ZenonT(60)
  <2>7. QED
    BY <1>1, <1>2, <2>1, <2>2, <2>3, <2>4, <2>6
<1>7. QED
  BY <1>5, <1>6

(* _head.exchange(new_tbh) *)
LEMMA SwapHeadFacts ==
  ASSUME TypeOK, LabelsOK, NEW x \in Actors, SwapHead(x)
  PROVE  /\ TypeOK' /\ LabelsOK' /\ Others(x) /\ x = Worker
         /\ pc[x] = "swap head" /\ pc'[x] = "walk"
         /\ UNCHANGED <<abuf, taken, mem, buffer, next, prev, status, cbuf, cslot, new, node>>
         /\ head' = new[x] /\ head \in Heads /\ hd'[x] = head /\ pv'[x] = head
<1>1. /\ UNCHANGED <<abuf, taken, mem, buffer, next, prev, linked, interrupted,
                     entries, lost, status, cbuf, cslot, new, node>>
      /\ pc[x] = "swap head" /\ Goto(x, "walk") /\ head' = new[x] /\ count' = 0
      /\ hd' = [hd EXCEPT ![x] = head] /\ pv' = [pv EXCEPT ![x] = head]
      /\ mixed' = IF Linking(head) # {} THEN mixed \cup {head} ELSE mixed
  BY DEF SwapHead, active, rest
<1>2. x = Worker /\ x \notin Adders
  BY <1>1, Role, QueueAssumption
<1>3. head \in Heads /\ new[x] \in Heads \cup {None} /\ (new[x] = None => interrupted)
  BY <1>1, <1>2, LocalTypes DEF LabelsOK, WorkerOK
<1>4. mixed' = mixed \/ mixed' \subseteq Heads
  <2>1. mixed \subseteq Heads
    BY DEF TypeOK
  <2>2. QED
    BY <1>1, <1>3, <2>1
<1>5. hd'[x] = head /\ pv'[x] = head
  BY <1>1, LocalTypes
<1>6. pc'[x] = "walk" => Labelled(x)'
  BY <1>3, <1>5 DEF Labelled, Swapping, Links
<1>7. pc'[x] = "walk" => WorkerOK'
  BY <1>1, <1>2, <1>3 DEF LabelsOK, WorkerOK
<1>8. "walk" \in WorkerLabels /\ 0 \in 0 .. Cap /\ count' \in Nat
  <2>1. 0 \in 0 .. Cap /\ 0 \in Nat
    BY QueueAssumption
  <2>2. QED
    BY <1>1, <2>1 DEF WorkerLabels
<1>9. TypeOK' /\ LabelsOK' /\ pc'[x] = "walk" /\ Others(x)
  BY <1>1, <1>2, <1>3, <1>4, <1>6, <1>7, <1>8, TypeMove
<1>10. QED
  BY <1>1, <1>2, <1>3, <1>5, <1>9

(* The end of the walk *)
LEMMA FreeHeadFacts ==
  ASSUME TypeOK, LabelsOK, NEW x \in Actors, FreeHead(x)
  PROVE  /\ TypeOK' /\ LabelsOK' /\ Others(x) /\ x = Worker
         /\ pc[x] = "walk" /\ pc'[x] = "top" /\ hd[x] \in Heads /\ Turns(hd[x], "freed")
         /\ UNCHANGED <<abuf, taken, head, count, buffer, next, prev, status, cbuf, cslot, node>>
<1>1. /\ UNCHANGED <<abuf, taken, head, count, buffer, next, prev, mixed, linked, interrupted,
                     entries, lost, status, cbuf, cslot, node>>
      /\ pc[x] = "walk" /\ Goto(x, "top") /\ mem' = [mem EXCEPT ![hd[x]] = "freed"]
      /\ hd' = [hd EXCEPT ![x] = None] /\ pv' = [pv EXCEPT ![x] = None]
      /\ new' = [new EXCEPT ![x] = None]
  BY DEF FreeHead, active, list, rest
<1>2. x = Worker /\ x \notin Adders
  BY <1>1, Role, QueueAssumption
<1>3. hd[x] \in Heads
  BY <1>1 DEF LabelsOK, Labelled
<1>4. Turns(hd[x], "freed") /\ mem' \in [Bufs \cup Nodes \cup Heads -> {"unused", "live", "freed"}]
  BY <1>1, <1>3, Write DEF Addresses
<1>5. pc'[x] = "top" => Labelled(x)'
  BY DEF Labelled, Swapping, Links
<1>6. pc'[x] = "top" => WorkerOK'
  BY <1>1, <1>2 DEF LabelsOK, WorkerOK
<1>7. "top" \in WorkerLabels /\ 0 \in 0 .. Cap
  BY QueueAssumption DEF WorkerLabels
<1>8. TypeOK' /\ LabelsOK' /\ pc'[x] = "top" /\ Others(x)
  BY <1>1, <1>2, <1>4, <1>5, <1>6, <1>7, TypeMove
<1>9. QED
  BY <1>1, <1>2, <1>3, <1>4, <1>8

(* A node of the walk *)
LEMMA WalkFacts ==
  ASSUME TypeOK, LabelsOK, NEW x \in Actors, Walk(x), status = "running", status' = "running"
  PROVE  /\ TypeOK' /\ LabelsOK' /\ Others(x) /\ x = Worker
         /\ pc[x] = "walk" /\ pv[x] \in Nodes \cup Heads
         /\ UNCHANGED <<abuf, taken, head, count, buffer, next, prev, pc, cbuf, cslot, new, node, hd>>
         /\ \E n \in Nodes :
              /\ n = next[pv[x]] /\ buffer[n] \in Bufs /\ mem[buffer[n]] = "live"
              /\ Turns(buffer[n], "freed") /\ pv'[x] = n
<1>1. pc[x] = "walk"
  BY DEF Walk
<1>2. x = Worker /\ x \notin Adders
  BY <1>1, Role, QueueAssumption
<1>3. pv[x] \in Nodes \cup Heads /\ hd[x] \in Heads
  BY <1>1 DEF LabelsOK, Labelled
<1>4. PICK n \in Nodes \cup Heads : n = next[pv[x]]
  BY <1>3, LocalTypes
<1>5. PICK b : b = IF n \in Nodes THEN buffer[n] ELSE None
  OBVIOUS
<1>6. \/ b = None /\ Error("wild pointer")
      \/ mem[b] # "live" /\ Error("double free")
      \/ /\ b # None /\ mem[b] = "live" /\ mem' = [mem EXCEPT ![b] = "freed"]
         /\ pv' = [pv EXCEPT ![x] = n]
         /\ UNCHANGED <<abuf, taken, head, count, buffer, next, prev, mixed, linked, interrupted,
                        entries, lost, status, pc, cbuf, cslot, new, node, hd>>
  BY <1>4, <1>5 DEF Walk, active, list, rest
<1>7. CASE /\ b # None /\ mem[b] = "live" /\ mem' = [mem EXCEPT ![b] = "freed"]
           /\ pv' = [pv EXCEPT ![x] = n]
           /\ UNCHANGED <<abuf, taken, head, count, buffer, next, prev, mixed, linked, interrupted,
                          entries, lost, status, pc, cbuf, cslot, new, node, hd>>
  <2>1. n \in Nodes /\ b = buffer[n] /\ b \in Bufs
    BY <1>5, <1>7, LocalTypes
  <2>2. Turns(b, "freed") /\ mem' \in [Bufs \cup Nodes \cup Heads -> {"unused", "live", "freed"}]
    BY <1>7, <2>1, Write DEF Addresses
  <2>3. /\ pv' \in [Actors -> Nodes \cup Heads \cup {None}] /\ pv'[x] = n
        /\ \A y \in Actors : y # x => pv'[y] = pv[y]
    BY <1>7, LocalTypes
  <2>4. TypeOK'
    BY <1>7, <2>2, <2>3, LocalTypes, TypeKeep
  <2>5. Labelled(x)'
    BY <1>1, <1>3, <1>7, <2>1, <2>3 DEF Labelled, Swapping, Links
  <2>6. WorkerOK'
    BY <1>7 DEF LabelsOK, WorkerOK
  <2>7. LabelsOK'
    BY <1>7, <2>3, <2>5, <2>6, LabelsKeep
  <2>8. Others(x)
    BY <1>7, <2>3 DEF Others
  <2>9. QED
    BY <1>1, <1>2, <1>3, <1>4, <1>7, <2>1, <2>2, <2>3, <2>4, <2>7, <2>8
<1>8. QED
  BY <1>6, <1>7 DEF Error

(* addEntry() with a slot, with the last one, or with none *)
LEMMA FetchFacts ==
  ASSUME TypeOK, LabelsOK, NEW x \in Actors, Fetch(x)
  PROVE  /\ TypeOK' /\ LabelsOK' /\ Others(x) /\ x \in Adders /\ pc[x] = "add"
         /\ UNCHANGED <<abuf, head, count, mem, buffer, next, prev, status, new, node, hd, pv>>
         /\ \/ /\ taken < Size /\ taken' = taken + 1 /\ pc'[x] = "copy"
               /\ cbuf'[x] = abuf /\ cslot'[x] = taken
            \/ /\ taken = Size /\ taken' = taken + 1 /\ pc'[x] = "alloc"
               /\ cbuf'[x] = abuf /\ cslot'[x] = taken
            \/ /\ taken > Size /\ taken' >= taken /\ taken' \in Int
               /\ UNCHANGED <<cbuf, cslot, pc>>
<1>1. /\ TypeOK' /\ LabelsOK' /\ pc[x] = "add"
      /\ taken' = IF taken < Cap THEN taken + 1 ELSE taken
      /\ UNCHANGED <<abuf, head, count, mem, buffer, next, prev, status, new, node, hd, pv>>
  BY TypeAdd DEF Fetch, list, rest
<1>2. /\ taken \in 0 .. Cap /\ Cap \in Nat /\ Size \in Nat \ {0} /\ Cap > Size
      /\ cbuf \in [Actors -> Bufs \cup {None}] /\ cslot \in [Actors -> 0 .. Cap]
      /\ pc \in [Actors -> AdderLabels \cup WorkerLabels]
  BY LocalTypes, QueueAssumption
<1>3. x \in Adders
  BY <1>1, Role
<1>4. CASE taken <= Size
  <2>1. PICK l : /\ pc' = [pc EXCEPT ![x] = l] /\ (taken = Size => l = "alloc")
                 /\ (taken < Size => l = "copy")
    BY <1>2, <1>4 DEF Fetch, Goto
  <2>2. cbuf' = [cbuf EXCEPT ![x] = abuf] /\ cslot' = [cslot EXCEPT ![x] = taken]
    BY <1>4 DEF Fetch
  <2>3. /\ pc'[x] = l /\ cbuf'[x] = abuf /\ cslot'[x] = taken
        /\ \A y \in Actors : y # x => pc'[y] = pc[y] /\ cbuf'[y] = cbuf[y] /\ cslot'[y] = cslot[y]
    BY <1>2, <2>1, <2>2
  <2>4. Others(x)
    BY <1>1, <2>3 DEF Others
  <2>5. taken' = taken + 1 /\ (taken = Size \/ taken < Size)
    BY <1>1, <1>2, <1>4
  <2>6. QED
    BY <1>1, <1>3, <2>1, <2>3, <2>4, <2>5
<1>5. CASE ~(taken <= Size)
  <2>1. UNCHANGED <<cbuf, cslot, pc>>
    BY <1>5 DEF Fetch
  <2>2. taken > Size /\ taken' >= taken /\ taken' \in Int
    BY <1>1, <1>2, <1>5
  <2>3. Others(x)
    BY <1>1, <2>1 DEF Others
  <2>4. QED
    BY <1>1, <1>3, <2>1, <2>2, <2>3
<1>6. QED
  BY <1>4, <1>5

(* The copy into a slot, and the call of addEntry() *)
LEMMA CopyFacts ==
  ASSUME TypeOK, LabelsOK, NEW x \in Actors, addEntry(x) \/ (Copy(x) /\ mem[cbuf[x]] = "live")
  PROVE  /\ TypeOK' /\ LabelsOK' /\ Others(x) /\ x \in Adders /\ pc'[x] \in {"idle", "add"}
         /\ UNCHANGED <<abuf, taken, head, count, mem, buffer, next, prev, status, new, node, hd, pv>>
         /\ cbuf'[x] = None \/ UNCHANGED <<cbuf, cslot>>
<1>1. /\ TypeOK' /\ LabelsOK' /\ pc[x] \in {"idle", "copy"}
      /\ UNCHANGED <<abuf, taken, head, count, mem, buffer, next, prev, status, new, node, hd, pv>>
  BY TypeAdd DEF Copy, addEntry, active, list, rest, locals
<1>2. /\ cbuf \in [Actors -> Bufs \cup {None}] /\ cslot \in [Actors -> 0 .. Cap]
      /\ pc \in [Actors -> AdderLabels \cup WorkerLabels]
  BY LocalTypes
<1>3. PICK l \in {"idle", "add"} : pc' = [pc EXCEPT ![x] = l]
  BY DEF Copy, addEntry, Goto
<1>4. \/ UNCHANGED <<cbuf, cslot>>
      \/ cbuf' = [cbuf EXCEPT ![x] = None] /\ cslot' = [cslot EXCEPT ![x] = 0]
  BY DEF Copy, addEntry, locals
<1>5. /\ pc'[x] = l /\ (cbuf'[x] = None \/ UNCHANGED <<cbuf, cslot>>)
      /\ \A y \in Actors : y # x => pc'[y] = pc[y] /\ cbuf'[y] = cbuf[y] /\ cslot'[y] = cslot[y]
  BY <1>2, <1>3, <1>4
<1>6. Others(x)
  BY <1>1, <1>5 DEF Others
<1>7. x \in Adders
  BY <1>1, Role
<1>8. QED
  BY <1>1, <1>3, <1>5, <1>6, <1>7

(* The steps of an actor that end no behaviour. *)
Acts(x) ==
  \/ addEntry(x)
  \/ Copy(x) /\ mem[cbuf[x]] = "live"
  \/ Fetch(x) \/ Alloc(x) \/ Exchange(x) \/ Node(x) \/ NodeFails(x) \/ Head(x) \/ SetNode(x)
  \/ x # Worker /\ AllocThrows(x)
  \/ ReadPrev(x) /\ mem[hd[x]] = "live"
  \/ SetPrev(x) /\ mem[hd[x]] = "live"
  \/ SetNext(x) /\ mem[pv[x]] = "live"
  \/ Top(x) \/ Peek(x) \/ IdlePeek(x) \/ NewHead(x) \/ SwapHead(x) \/ FreeHead(x)
  \/ Walk(x) /\ status' = "running"

(* Every step is one of these, or changes nothing but status. *)
LEMMA NextCases ==
  ASSUME TypeOK, Next, UNCHANGED vars => FALSE
  PROVE  /\ status = "running"
         /\ \/ \E x \in Actors : Acts(x)
            \/ Interrupt
            \/ \E x \in Actors : Walk(x) /\ Error("double free")
            \/ \E e \in {"carry", "late copy", "terminate", "freed head", "wild pointer"} : Error(e)
<1>1. status = "running" /\ ~Done
  BY DEF Next, Step, Done
<1>2. \A x \in Adders : x \in Actors
  BY DEF Actors
<1>3. CASE \E x \in Actors : Step(x)
  <2>1. PICK x \in Actors : Step(x)
    BY <1>3
  <2>2. CASE Walk(x)
    BY <1>1, <2>2 DEF Walk, Acts
  <2>3. CASE ~Walk(x)
    <3>1. CASE Copy(x)
      BY <1>1, <3>1 DEF Acts, Copy
    <3>2. CASE AllocThrows(x)
      BY <1>1, <3>2 DEF Acts, AllocThrows
    <3>3. CASE ReadPrev(x) \/ SetPrev(x) \/ SetNext(x)
      BY <1>1, <3>3 DEF Acts, ReadPrev, SetPrev, SetNext
    <3>4. CASE NewHeadThrows(x)
      BY <1>1, <3>4 DEF NewHeadThrows
    <3>5. QED
      BY <1>1, <2>1, <2>3, <3>1, <3>2, <3>3, <3>4 DEF Step, Enqueue, Acts
  <2>4. QED
    BY <2>2, <2>3
<1>4. CASE \E x \in Adders : addEntry(x) \/ Carry(x)
  BY <1>1, <1>2, <1>4 DEF Carry, Acts
<1>5. QED
  BY <1>1, <1>3, <1>4 DEF Next

(* interrupt() *)
LEMMA InterruptFacts ==
  ASSUME TypeOK, LabelsOK, Interrupt
  PROVE  /\ TypeOK' /\ LabelsOK'
         /\ UNCHANGED <<abuf, taken, head, count, mem, buffer, next, prev, status, pc, cbuf, cslot, new,
                        node, hd, pv>>
<1>1. /\ interrupted' = TRUE
      /\ UNCHANGED <<abuf, taken, head, count, mem, buffer, next, prev, mixed, linked, entries, lost,
                     status, pc, cbuf, cslot, new, node, hd, pv>>
  BY DEF Interrupt, active, list, locals
<1>2. TypeOK'
  BY <1>1, LocalTypes, TypeKeep
<1>3. LabelsOK'
  BY <1>1 DEF LabelsOK, Labelled, WorkerOK
<1>4. QED
  BY <1>1, <1>2, <1>3

(* Every step keeps the types. *)
LEMMA TypeNext ==
  ASSUME TypeOK, LabelsOK, [Next]_vars
  PROVE  TypeOK' /\ LabelsOK'
<1>1. CASE UNCHANGED vars
  <2>1. UNCHANGED <<abuf, taken, head, count, mem, buffer, next, prev, mixed, linked, interrupted,
                    entries, lost, status, pc, cbuf, cslot, new, node, hd, pv>>
    BY <1>1 DEF vars, active, list, rest, locals
  <2>2. TypeOK'
    BY <2>1, LocalTypes, TypeKeep
  <2>3. LabelsOK'
    BY <2>1 DEF LabelsOK, Labelled, WorkerOK
  <2>4. QED
    BY <2>2, <2>3
<1>2. CASE Next /\ ~UNCHANGED vars
  <2>1. /\ status = "running"
        /\ \/ \E x \in Actors : Acts(x)
           \/ Interrupt
           \/ \E e \in {"carry", "late copy", "terminate", "freed head", "wild pointer",
                        "double free"} : Error(e)
    BY <1>2, NextCases
  <2>2. ASSUME NEW x \in Actors, Acts(x)
        PROVE  TypeOK' /\ LabelsOK'
    <3>1. CASE Fetch(x) \/ addEntry(x) \/ Copy(x)
      BY <3>1, TypeAdd
    <3>2. CASE Alloc(x) \/ Exchange(x) \/ Node(x) \/ NodeFails(x) \/ Head(x) \/ SetNode(x)
      BY <3>2, AllocFacts, ExchangeFacts, NodeFacts, NodeFailsFacts, HeadFacts, SetNodeFacts
    <3>3. CASE \/ x # Worker /\ AllocThrows(x)
               \/ ReadPrev(x) /\ mem[hd[x]] = "live"
               \/ SetPrev(x) /\ mem[hd[x]] = "live"
               \/ SetNext(x) /\ mem[pv[x]] = "live"
      BY <3>3, AllocThrowsFacts, ReadPrevFacts, SetPrevFacts, SetNextFacts
    <3>4. CASE Top(x) \/ Peek(x) \/ IdlePeek(x) \/ NewHead(x) \/ SwapHead(x) \/ FreeHead(x)
      BY <3>4, TopFacts, IdlePeekFacts, NewHeadFacts, SwapHeadFacts, FreeHeadFacts
    <3>5. CASE Walk(x) /\ status' = "running"
      BY <2>1, <3>5, WalkFacts
    <3>6. QED
      BY <2>2, <3>1, <3>2, <3>3, <3>4, <3>5 DEF Acts
  <2>3. QED
    BY <2>1, <2>2, InterruptFacts, TypeError
<1>3. QED
  BY <1>1, <1>2

(* Every variable of the tracer keeps its type, and every actor has what   *)
(* it is about to use: addEntry() copies to a slot of a buffer, and only   *)
(* the worker runs run().                                                  *)
THEOREM QueueTypes == Spec => []TypeOK
<1>1. Init => TypeOK /\ LabelsOK
  BY TypeStart
<1>2. TypeOK /\ LabelsOK /\ [Next]_vars => TypeOK' /\ LabelsOK'
  BY TypeNext
<1>3. QED
  BY <1>1, <1>2, PTL DEF Spec

-----------------------------------------------------------------------------
(* Slots and buffers.                                                      *)

(* What the proofs about buffers use of the types. *)
LEMMA BufferTypes ==
  ASSUME TypeOK, LabelsOK
  PROVE  /\ abuf \in Bufs /\ taken \in Int /\ None \notin Bufs
         /\ Worker \in Actors /\ Worker \notin Adders /\ \A y \in Adders : y \in Actors
         /\ \A y \in Actors : /\ cbuf[y] \in Bufs \cup {None} /\ cslot[y] \in Int
                              /\ pc[y] \in Swapping \cup {"copy", "idle alloc"} => cbuf[y] \in Bufs
                              /\ pc[y] = "exchange" => new[y] \in Bufs
         /\ \A n \in Nodes : buffer[n] \in Bufs \cup {None}
<1>1. /\ cbuf \in [Actors -> Bufs \cup {None}] /\ cslot \in [Actors -> 0 .. Cap]
      /\ buffer \in [Nodes -> Bufs \cup {None}] /\ abuf \in Bufs /\ taken \in 0 .. Cap
  BY LocalTypes
<1>2. /\ Worker \in Actors /\ Worker \notin Adders /\ \A y \in Adders : y \in Actors
      /\ None \notin Bufs /\ Cap \in Nat
  BY QueueAssumption DEF Actors
<1>3. \A y \in Actors : /\ pc[y] \in Swapping \cup {"copy", "idle alloc"} => cbuf[y] \in Bufs
                        /\ pc[y] = "exchange" => new[y] \in Bufs
  BY DEF LabelsOK, Labelled
<1>4. \A y \in Actors : cbuf[y] \in Bufs \cup {None} /\ cslot[y] \in Int
  BY <1>1, <1>2
<1>5. taken \in Int /\ \A n \in Nodes : buffer[n] \in Bufs \cup {None}
  BY <1>1, <1>2
<1>6. QED
  BY <1>1, <1>2, <1>3, <1>4, <1>5, Zenon

(* A step away from the buffers keeps the invariant. *)
LEMMA SlotKeep ==
  ASSUME TypeOK, LabelsOK, SlotInv, NEW x \in Actors, Others(x),
         UNCHANGED <<abuf, taken, buffer>>, \A b \in Bufs : mem'[b] = mem[b],
         pc'[x] \notin Swapping \cup {"copy", "idle alloc"},
         cbuf'[x] = None \/ cbuf'[x] = cbuf[x]
  PROVE  SlotInv'
<1>t. /\ abuf \in Bufs /\ None \notin Bufs
      /\ Worker \in Actors /\ \A y \in Adders : y \in Actors
      /\ \A y \in Actors : /\ cbuf[y] \in Bufs \cup {None}
                           /\ pc[y] \in Swapping \cup {"copy", "idle alloc"} => cbuf[y] \in Bufs
                           /\ pc[y] = "exchange" => new[y] \in Bufs
      /\ \A n \in Nodes : buffer[n] \in Bufs \cup {None}
  BY BufferTypes
<1>c. \A y \in Actors : cbuf'[y] = None \/ cbuf'[y] = cbuf[y]
  BY DEF Others
<1>p. \A y \in Actors : pc'[y] \in Swapping \cup {"copy", "idle alloc"} =>
        /\ y # x /\ pc'[y] = pc[y] /\ cbuf'[y] = cbuf[y] /\ cslot'[y] = cslot[y] /\ new'[y] = new[y]
        /\ cbuf[y] \in Bufs /\ mem'[cbuf[y]] = mem[cbuf[y]]
  BY <1>t DEF Others
<1>1. MemoryOK'
  <2>1. mem'[abuf'] = "live"
    BY <1>t DEF SlotInv, MemoryOK
  <2>2. ASSUME NEW y \in Actors, cbuf'[y] # None
        PROVE  mem'[cbuf'[y]] # "unused"
    <3>1. cbuf'[y] = cbuf[y] /\ cbuf[y] \in Bufs
      BY <1>t, <1>c, <2>2
    <3>2. QED
      BY <2>2, <3>1 DEF SlotInv, MemoryOK
  <2>3. \A n \in Nodes : buffer'[n] # None => mem'[buffer'[n]] # "unused" /\ buffer'[n] # abuf'
    BY <1>t DEF SlotInv, MemoryOK
  <2>4. pc'[Worker] \in {"idle alloc", "exchange", "node"} => cslot'[Worker] # Size
    BY <1>t, <1>p DEF SlotInv, MemoryOK, Swapping
  <2>5. QED
    BY <2>1, <2>2, <2>3, <2>4 DEF MemoryOK
<1>2. NewApart'
  <2>1. ASSUME NEW y \in Actors, pc'[y] = "exchange"
        PROVE  /\ mem'[new'[y]] = "live" /\ new'[y] # abuf'
               /\ \A z \in Actors : /\ cbuf'[z] # new'[y]
                                    /\ z # y /\ pc'[z] = "exchange" => new'[z] # new'[y]
               /\ \A n \in Nodes : buffer'[n] # new'[y]
    <3>1. pc[y] = "exchange" /\ new'[y] = new[y] /\ new[y] \in Bufs
      BY <1>t, <1>p, <2>1 DEF Swapping
    <3>2. /\ mem[new[y]] = "live" /\ new[y] # abuf
          /\ \A z \in Actors : /\ cbuf[z] # new[y]
                               /\ z # y /\ pc[z] = "exchange" => new[z] # new[y]
          /\ \A n \in Nodes : buffer[n] # new[y]
      BY <3>1 DEF SlotInv, NewApart
    <3>3. \A z \in Actors : pc'[z] = "exchange" => pc[z] = "exchange" /\ new'[z] = new[z]
      BY <1>p DEF Swapping
    <3>4. mem'[new'[y]] = "live" /\ new'[y] # abuf' /\ \A n \in Nodes : buffer'[n] # new'[y]
      BY <3>1, <3>2
    <3>5. ASSUME NEW z \in Actors
          PROVE  /\ cbuf'[z] # new'[y]
                 /\ z # y /\ pc'[z] = "exchange" => new'[z] # new'[y]
      <4>1. cbuf[z] # new[y] /\ (cbuf'[z] = None \/ cbuf'[z] = cbuf[z])
        BY <1>c, <3>2
      <4>2. cbuf'[z] # new'[y]
        BY <1>t, <3>1, <4>1
      <4>3. z # y /\ pc'[z] = "exchange" => new'[z] # new'[y]
        <5>1. z # y /\ pc[z] = "exchange" => new[z] # new[y]
          BY <3>2
        <5>2. QED
          BY <3>1, <3>3, <5>1
      <4>4. QED
        BY <4>2, <4>3
    <3>6. QED
      BY <3>4, <3>5
  <2>2. QED
    BY <2>1 DEF NewApart
<1>3. Exchanged'
  BY <1>t, <1>p DEF SlotInv, Exchanged, Swapping
<1>4. SlotsApart'
  <2>1. \A y \in Adders : pc'[y] = "copy" => pc[y] = "copy" /\ cbuf'[y] = cbuf[y] /\ cslot'[y] = cslot[y]
    BY <1>t, <1>p
  <2>2. QED
    BY <2>1, ZenonT(60) DEF SlotInv, SlotsApart
<1>5. OneSwapper'
  <2>1. \A y \in Adders : pc'[y] \in Swapping =>
          /\ pc[y] \in Swapping /\ cbuf'[y] = cbuf[y] /\ cslot'[y] = cslot[y]
          /\ mem'[cbuf[y]] = mem[cbuf[y]]
    BY <1>t, <1>p
  <2>2. /\ \A y \in Adders : pc[y] \in Swapping =>
             /\ mem[cbuf[y]] = "live" /\ cslot[y] = Size
             /\ cbuf[y] = abuf => taken > Size
             /\ \A n \in Nodes : buffer[n] # cbuf[y]
             /\ \A z \in Adders : z # y /\ pc[z] \in Swapping => cbuf[z] # cbuf[y]
        /\ \A m, n \in Nodes : m # n /\ buffer[m] # None => buffer[m] # buffer[n]
    BY DEF SlotInv, OneSwapper
  <2>3. ASSUME NEW y \in Adders, pc'[y] \in Swapping
        PROVE  /\ mem'[cbuf'[y]] = "live" /\ cslot'[y] = Size
               /\ cbuf'[y] = abuf' => taken' > Size
               /\ \A n \in Nodes : buffer'[n] # cbuf'[y]
               /\ \A z \in Adders : z # y /\ pc'[z] \in Swapping => cbuf'[z] # cbuf'[y]
    <3>1. /\ pc[y] \in Swapping /\ cbuf'[y] = cbuf[y] /\ cslot'[y] = cslot[y]
          /\ mem'[cbuf[y]] = mem[cbuf[y]]
      BY <2>1, <2>3
    <3>2. ASSUME NEW z \in Adders, z # y, pc'[z] \in Swapping
          PROVE  cbuf'[z] # cbuf'[y]
      <4>1. pc[z] \in Swapping /\ cbuf'[z] = cbuf[z]
        BY <2>1, <3>2
      <4>2. cbuf[z] # cbuf[y]
        BY <3>1, <3>2, <4>1 DEF SlotInv, OneSwapper
      <4>3. QED
        BY <3>1, <4>1, <4>2
    <3>3. QED
      BY <2>2, <3>1, <3>2, ZenonT(60)
  <2>4. \A m, n \in Nodes : m # n /\ buffer'[m] # None => buffer'[m] # buffer'[n]
    BY <2>2
  <2>5. QED
    BY <2>3, <2>4 DEF OneSwapper
<1>6. QED
  BY <1>1, <1>2, <1>3, <1>4, <1>5 DEF SlotInv

(* A slot, or the end of the buffer, is given to one caller. *)
LEMMA SlotFetch ==
  ASSUME TypeOK, LabelsOK, SlotInv, NEW x \in Actors, Fetch(x)
  PROVE  SlotInv'
<1>t. /\ abuf \in Bufs /\ taken \in Int /\ None \notin Bufs
      /\ Worker \in Actors /\ Worker \notin Adders /\ \A y \in Adders : y \in Actors
      /\ \A y \in Actors : cbuf[y] \in Bufs \cup {None} /\ cslot[y] \in Int
      /\ \A n \in Nodes : buffer[n] \in Bufs \cup {None}
      /\ Size \in Nat
  BY BufferTypes, QueueAssumption
<1>f. /\ Others(x) /\ x \in Adders /\ pc[x] = "add"
      /\ UNCHANGED <<abuf, mem, buffer, new>>
      /\ \/ /\ taken < Size /\ taken' = taken + 1 /\ pc'[x] = "copy"
            /\ cbuf'[x] = abuf /\ cslot'[x] = taken
         \/ /\ taken = Size /\ taken' = taken + 1 /\ pc'[x] = "alloc"
            /\ cbuf'[x] = abuf /\ cslot'[x] = taken
         \/ taken > Size /\ taken' >= taken /\ taken' \in Int /\ UNCHANGED <<cbuf, cslot, pc>>
  BY FetchFacts
<1>1. MemoryOK'
  <2>1. mem'[abuf'] = "live"
    BY <1>f DEF SlotInv, MemoryOK
  <2>2. ASSUME NEW y \in Actors, cbuf'[y] # None
        PROVE  mem'[cbuf'[y]] # "unused"
    <3>1. cbuf'[y] = cbuf[y] \/ cbuf'[y] = abuf
      BY <1>f DEF Others
    <3>2. QED
      BY <1>f, <2>2, <3>1 DEF SlotInv, MemoryOK
  <2>3. \A n \in Nodes : buffer'[n] # None => mem'[buffer'[n]] # "unused" /\ buffer'[n] # abuf'
    BY <1>t, <1>f DEF SlotInv, MemoryOK
  <2>4. pc'[Worker] \in {"idle alloc", "exchange", "node"} => cslot'[Worker] # Size
    BY <1>t, <1>f DEF SlotInv, MemoryOK, Others
  <2>5. QED
    BY <2>1, <2>2, <2>3, <2>4 DEF MemoryOK
<1>2. NewApart'
  <2>1. \A y \in Actors : (pc'[y] = "exchange" => pc[y] = "exchange") /\ (y = x \/ cbuf'[y] = cbuf[y])
    BY <1>f DEF Others
  <2>2. cbuf'[x] = abuf \/ cbuf'[x] = cbuf[x]
    BY <1>f
  <2>3. QED
    BY <1>t, <1>f, <2>1, <2>2 DEF SlotInv, NewApart
<1>3. Exchanged'
  BY <1>t, <1>f DEF SlotInv, Exchanged, Others
<1>4. SlotsApart'
  <2>1. taken' >= taken /\ (taken < Size => taken' = taken + 1)
    BY <1>t, <1>f
  <2>2. CASE taken < Size
    <3>1. ASSUME NEW y \in Adders, pc'[y] = "copy"
          PROVE  /\ cbuf'[y] = abuf => cslot'[y] < taken'
                 /\ y # x => pc[y] = "copy" /\ cbuf'[y] = cbuf[y] /\ cslot'[y] = cslot[y]
                             /\ (cbuf[y] = abuf => cslot[y] < taken)
      BY <1>t, <1>f, <2>2, <3>1 DEF SlotInv, SlotsApart, Others
    <3>2. cbuf'[x] = abuf /\ cslot'[x] = taken
      BY <1>t, <1>f, <2>2
    <3>3. ASSUME NEW y \in Adders, NEW z \in Adders, pc'[y] = "copy", pc'[z] = "copy", y # z
          PROVE  <<cbuf'[z], cslot'[z]>> # <<cbuf'[y], cslot'[y]>>
      <4>1. CASE y # x /\ z # x
        BY <3>1, <3>3, <4>1 DEF SlotInv, SlotsApart
      <4>2. CASE y = x
        BY <1>t, <3>1, <3>2, <3>3, <4>2
      <4>3. CASE z = x
        BY <1>t, <3>1, <3>2, <3>3, <4>3
      <4>4. QED
        BY <4>1, <4>2, <4>3
    <3>4. QED
      BY <1>f, <3>1, <3>3 DEF SlotsApart
  <2>3. CASE ~(taken < Size)
    <3>1. \A y \in Adders : pc'[y] = "copy" =>
            pc[y] = "copy" /\ cbuf'[y] = cbuf[y] /\ cslot'[y] = cslot[y]
      BY <1>t, <1>f, <2>3 DEF Others
    <3>2. \A y \in Adders : pc'[y] = "copy" /\ cbuf'[y] = abuf => cslot'[y] < taken'
      <4>1. \A y \in Adders : pc[y] = "copy" /\ cbuf[y] = abuf => cslot[y] < taken
        BY DEF SlotInv, SlotsApart
      <4>2. taken' \in Int
        BY <1>t, <1>f
      <4>3. QED
        BY <1>t, <2>1, <3>1, <4>1, <4>2
    <3>3. QED
      BY <1>f, <3>1, <3>2 DEF SlotInv, SlotsApart
  <2>4. QED
    BY <2>2, <2>3
<1>5. OneSwapper'
  <2>1. \A y \in Adders : pc'[y] \in Swapping =>
          \/ y # x /\ pc[y] \in Swapping /\ cbuf'[y] = cbuf[y] /\ cslot'[y] = cslot[y]
          \/ y = x /\ cbuf'[y] = abuf /\ cslot'[y] = Size /\ taken = Size /\ taken' = taken + 1
    BY <1>t, <1>f DEF Others, Swapping
  <2>2. ASSUME NEW y \in Adders, pc'[y] \in Swapping
        PROVE  /\ mem'[cbuf'[y]] = "live" /\ cslot'[y] = Size
               /\ cbuf'[y] = abuf' => taken' > Size
               /\ \A n \in Nodes : buffer'[n] # cbuf'[y]
    <3>1. CASE y # x
      <4>1. pc[y] \in Swapping /\ cbuf'[y] = cbuf[y] /\ cslot'[y] = cslot[y]
        BY <2>1, <2>2, <3>1
      <4>2. /\ mem[cbuf[y]] = "live" /\ cslot[y] = Size
            /\ cbuf[y] = abuf => taken > Size
            /\ \A n \in Nodes : buffer[n] # cbuf[y]
        BY <4>1 DEF SlotInv, OneSwapper
      <4>3. taken > Size => taken' > Size
        BY <1>t, <1>f
      <4>4. QED
        BY <1>f, <4>1, <4>2, <4>3
    <3>2. CASE y = x
      <4>1. cbuf'[y] = abuf /\ cslot'[y] = Size /\ taken' > Size
        BY <1>t, <2>1, <2>2, <3>2
      <4>2. mem[abuf] = "live" /\ \A n \in Nodes : buffer[n] # abuf
        BY <1>t DEF SlotInv, MemoryOK
      <4>3. QED
        BY <1>f, <4>1, <4>2
    <3>3. QED
      BY <3>1, <3>2
  <2>3. ASSUME NEW y \in Adders, NEW z \in Adders, pc'[y] \in Swapping, pc'[z] \in Swapping, y # z
        PROVE  cbuf'[y] # cbuf'[z]
    <3>1. \A w \in Adders : pc[w] \in Swapping => (cbuf[w] = abuf => taken > Size)
      BY DEF SlotInv, OneSwapper
    <3>2. CASE y # x /\ z # x
      BY <2>1, <2>3, <3>2 DEF SlotInv, OneSwapper
    <3>3. CASE y = x
      BY <1>t, <2>1, <2>3, <3>1, <3>3
    <3>4. CASE z = x
      BY <1>t, <2>1, <2>3, <3>1, <3>4
    <3>5. QED
      BY <3>2, <3>3, <3>4
  <2>4. \A m, n \in Nodes : m # n /\ buffer'[m] # None => buffer'[m] # buffer'[n]
    BY <1>f DEF SlotInv, OneSwapper
  <2>5. QED
    BY <2>2, <2>3, <2>4 DEF OneSwapper
<1>6. QED
  BY <1>1, <1>2, <1>3, <1>4, <1>5 DEF SlotInv

(* What an adder that swaps a buffer knows. *)
LEMMA SwapperFacts ==
  ASSUME SlotInv, NEW y \in Adders, pc[y] \in Swapping
  PROVE  /\ mem[cbuf[y]] = "live" /\ cslot[y] = Size
         /\ cbuf[y] = abuf => taken > Size
         /\ \A n \in Nodes : buffer[n] # cbuf[y]
         /\ \A z \in Adders : z # y /\ pc[z] \in Swapping => cbuf[z] # cbuf[y]
BY DEF SlotInv, OneSwapper

(* What an actor with a new buffer knows. *)
LEMMA MakerFacts ==
  ASSUME SlotInv, NEW y \in Actors, pc[y] = "exchange"
  PROVE  /\ mem[new[y]] = "live" /\ new[y] # abuf
         /\ \A z \in Actors : cbuf[z] # new[y]
         /\ \A z \in Actors : z # y /\ pc[z] = "exchange" => new[z] # new[y]
         /\ \A n \in Nodes : buffer[n] # new[y]
BY DEF SlotInv, NewApart

(* A new buffer is apart from all others. *)
LEMMA SlotAlloc ==
  ASSUME TypeOK, LabelsOK, SlotInv, NEW x \in Actors, Alloc(x)
  PROVE  SlotInv'
<1>t. /\ abuf \in Bufs /\ None \notin Bufs
      /\ Worker \in Actors /\ Worker \notin Adders /\ \A y \in Adders : y \in Actors
      /\ \A y \in Actors : /\ cbuf[y] \in Bufs \cup {None}
                           /\ pc[y] \in Swapping \cup {"copy", "idle alloc"} => cbuf[y] \in Bufs
                           /\ pc[y] = "exchange" => new[y] \in Bufs
      /\ \A n \in Nodes : buffer[n] \in Bufs \cup {None}
  BY BufferTypes
<1>f. /\ Others(x) /\ pc'[x] = "exchange"
      /\ (pc[x] = "alloc" /\ x \in Adders) \/ (pc[x] = "idle alloc" /\ x = Worker)
      /\ UNCHANGED <<abuf, taken, buffer, cbuf, cslot>>
  BY AllocFacts
<1>b. PICK b \in Bufs : mem[b] = "unused" /\ Turns(b, "live") /\ new'[x] = b
  BY AllocFacts
<1>m. mem'[b] = "live" /\ \A c \in Bufs : c # b => mem'[c] = mem[c]
  BY <1>b DEF Turns, Addresses
<1>u. /\ abuf # b /\ (\A y \in Actors : cbuf[y] # b) /\ (\A n \in Nodes : buffer[n] # b)
      /\ \A y \in Actors : pc[y] = "exchange" => new[y] # b
  <2>1. abuf # b
    BY <1>b DEF SlotInv, MemoryOK
  <2>2. \A y \in Actors : cbuf[y] # b
    BY <1>t, <1>b DEF SlotInv, MemoryOK
  <2>3. \A n \in Nodes : buffer[n] # b
    BY <1>t, <1>b DEF SlotInv, MemoryOK
  <2>4. \A y \in Actors : pc[y] = "exchange" => new[y] # b
    BY <1>b, MakerFacts
  <2>5. QED
    BY <2>1, <2>2, <2>3, <2>4
<1>p. \A y \in Actors : y # x => pc'[y] = pc[y] /\ new'[y] = new[y]
  BY <1>f DEF Others
<1>1. MemoryOK'
  <2>1. mem'[abuf'] = "live"
    BY <1>t, <1>f, <1>m, <1>u DEF SlotInv, MemoryOK
  <2>2. ASSUME NEW y \in Actors, cbuf'[y] # None
        PROVE  mem'[cbuf'[y]] # "unused"
    <3>1. cbuf'[y] = cbuf[y] /\ cbuf[y] \in Bufs /\ mem'[cbuf[y]] = mem[cbuf[y]]
      BY <1>t, <1>f, <1>m, <1>u, <2>2
    <3>2. QED
      BY <2>2, <3>1 DEF SlotInv, MemoryOK
  <2>3. ASSUME NEW n \in Nodes, buffer'[n] # None
        PROVE  mem'[buffer'[n]] # "unused" /\ buffer'[n] # abuf'
    <3>1. buffer'[n] = buffer[n] /\ buffer[n] \in Bufs /\ mem'[buffer[n]] = mem[buffer[n]]
      BY <1>t, <1>f, <1>m, <1>u, <2>3
    <3>2. QED
      BY <1>f, <2>3, <3>1 DEF SlotInv, MemoryOK
  <2>4. pc'[Worker] \in {"idle alloc", "exchange", "node"} => cslot'[Worker] # Size
    BY <1>t, <1>f, <1>p DEF SlotInv, MemoryOK
  <2>5. QED
    BY <2>1, <2>2, <2>3, <2>4 DEF MemoryOK
<1>2. NewApart'
  <2>1. ASSUME NEW y \in Actors, pc'[y] = "exchange"
        PROVE  /\ mem'[new'[y]] = "live" /\ new'[y] # abuf'
               /\ \A z \in Actors : cbuf'[z] # new'[y]
               /\ \A z \in Actors : z # y /\ pc'[z] = "exchange" => new'[z] # new'[y]
               /\ \A n \in Nodes : buffer'[n] # new'[y]
    <3>1. CASE y = x
      <4>1. \A z \in Actors : z # y /\ pc'[z] = "exchange" => new'[z] # b
        BY <1>p, <1>u, <3>1
      <4>2. QED
        BY <1>b, <1>f, <1>m, <1>u, <3>1, <4>1
    <3>2. CASE y # x
      <4>1. pc[y] = "exchange" /\ new'[y] = new[y] /\ new[y] \in Bufs /\ new[y] # b
        BY <1>t, <1>p, <1>u, <2>1, <3>2
      <4>2. /\ mem[new[y]] = "live" /\ new[y] # abuf
            /\ \A z \in Actors : cbuf[z] # new[y]
            /\ \A z \in Actors : z # y /\ pc[z] = "exchange" => new[z] # new[y]
            /\ \A n \in Nodes : buffer[n] # new[y]
        BY <4>1, MakerFacts
      <4>3. \A z \in Actors : z # y /\ pc'[z] = "exchange" => new'[z] # new[y]
        BY <1>b, <1>p, <4>1, <4>2
      <4>4. QED
        BY <1>f, <1>m, <4>1, <4>2, <4>3
    <3>3. QED
      BY <3>1, <3>2
  <2>2. QED
    BY <2>1 DEF NewApart
<1>3. Exchanged'
  BY <1>t, <1>f, <1>p DEF SlotInv, Exchanged
<1>4. SlotsApart'
  <2>1. \A y \in Adders : pc'[y] = "copy" => pc[y] = "copy"
    BY <1>t, <1>f, <1>p
  <2>2. QED
    BY <1>f, <2>1 DEF SlotInv, SlotsApart
<1>5. OneSwapper'
  <2>1. \A y \in Adders : pc'[y] \in Swapping => pc[y] \in Swapping
    BY <1>t, <1>f, <1>p DEF Swapping
  <2>2. ASSUME NEW y \in Adders, pc'[y] \in Swapping
        PROVE  /\ mem'[cbuf'[y]] = "live" /\ cslot'[y] = Size
               /\ cbuf'[y] = abuf' => taken' > Size
               /\ \A n \in Nodes : buffer'[n] # cbuf'[y]
               /\ \A z \in Adders : z # y /\ pc'[z] \in Swapping => cbuf'[z] # cbuf'[y]
    <3>1. cbuf[y] \in Bufs /\ cbuf[y] # b /\ pc[y] \in Swapping
      BY <1>t, <1>u, <2>1, <2>2
    <3>2. /\ mem[cbuf[y]] = "live" /\ cslot[y] = Size
          /\ cbuf[y] = abuf => taken > Size
          /\ \A n \in Nodes : buffer[n] # cbuf[y]
          /\ \A z \in Adders : z # y /\ pc[z] \in Swapping => cbuf[z] # cbuf[y]
      BY <3>1, SwapperFacts
    <3>3. QED
      BY <1>f, <1>m, <2>1, <3>1, <3>2
  <2>3. \A m, n \in Nodes : m # n /\ buffer'[m] # None => buffer'[m] # buffer'[n]
    BY <1>f DEF SlotInv, OneSwapper
  <2>4. QED
    BY <2>2, <2>3 DEF OneSwapper
<1>6. QED
  BY <1>1, <1>2, <1>3, <1>4, <1>5 DEF SlotInv

(* The new buffer becomes the active one, and nobody has a slot of it. *)
LEMMA SlotExchange ==
  ASSUME TypeOK, LabelsOK, SlotInv, NEW x \in Actors, Exchange(x)
  PROVE  SlotInv'
<1>t. /\ Worker \in Actors /\ Worker \notin Adders /\ \A y \in Adders : y \in Actors
  BY BufferTypes
<1>f. /\ Others(x) /\ pc[x] = "exchange" /\ pc'[x] = "node"
      /\ UNCHANGED <<mem, buffer, cbuf, cslot>>
      /\ abuf' = new[x] /\ taken' = 0 /\ new[x] \in Bufs
  BY ExchangeFacts
<1>p. \A y \in Actors : y # x => pc'[y] = pc[y] /\ new'[y] = new[y]
  BY <1>f DEF Others
<1>u. /\ mem[new[x]] = "live"
      /\ \A z \in Actors : cbuf[z] # new[x]
      /\ \A z \in Actors : z # x /\ pc[z] = "exchange" => new[z] # new[x]
      /\ \A n \in Nodes : buffer[n] # new[x]
  BY <1>f, MakerFacts
<1>1. MemoryOK'
  <2>1. mem'[abuf'] = "live"
    BY <1>f, <1>u
  <2>2. \A y \in Actors : cbuf'[y] # None => mem'[cbuf'[y]] # "unused"
    BY <1>f DEF SlotInv, MemoryOK
  <2>3. \A n \in Nodes : buffer'[n] # None => mem'[buffer'[n]] # "unused" /\ buffer'[n] # abuf'
    BY <1>f, <1>u DEF SlotInv, MemoryOK
  <2>4. pc'[Worker] \in {"idle alloc", "exchange", "node"} => cslot'[Worker] # Size
    BY <1>t, <1>f, <1>p DEF SlotInv, MemoryOK
  <2>5. QED
    BY <2>1, <2>2, <2>3, <2>4 DEF MemoryOK
<1>2. NewApart'
  <2>1. ASSUME NEW y \in Actors, pc'[y] = "exchange"
        PROVE  /\ mem'[new'[y]] = "live" /\ new'[y] # abuf'
               /\ \A z \in Actors : cbuf'[z] # new'[y]
               /\ \A z \in Actors : z # y /\ pc'[z] = "exchange" => new'[z] # new'[y]
               /\ \A n \in Nodes : buffer'[n] # new'[y]
    <3>1. y # x /\ pc[y] = "exchange" /\ new'[y] = new[y] /\ new[y] # new[x]
      BY <1>f, <1>p, <1>u, <2>1
    <3>2. /\ mem[new[y]] = "live"
          /\ \A z \in Actors : cbuf[z] # new[y]
          /\ \A z \in Actors : z # y /\ pc[z] = "exchange" => new[z] # new[y]
          /\ \A n \in Nodes : buffer[n] # new[y]
      BY <3>1, MakerFacts
    <3>3. \A z \in Actors : z # y /\ pc'[z] = "exchange" => new'[z] # new[y]
      BY <1>f, <1>p, <3>1, <3>2
    <3>4. QED
      BY <1>f, <3>1, <3>2, <3>3
  <2>2. QED
    BY <2>1 DEF NewApart
<1>3. Exchanged'
  BY <1>t, <1>f, <1>u DEF Exchanged
<1>4. SlotsApart'
  <2>1. \A y \in Adders : pc'[y] = "copy" => pc[y] = "copy"
    BY <1>t, <1>f, <1>p
  <2>2. \A y \in Adders : cbuf'[y] # abuf'
    BY <1>t, <1>f, <1>u
  <2>3. QED
    BY <1>f, <2>1, <2>2 DEF SlotInv, SlotsApart
<1>5. OneSwapper'
  <2>1. \A y \in Adders : /\ pc'[y] \in Swapping => pc[y] \in Swapping
                          /\ cbuf'[y] # abuf'
    BY <1>t, <1>f, <1>p, <1>u DEF Swapping
  <2>2. ASSUME NEW y \in Adders, pc'[y] \in Swapping
        PROVE  /\ mem'[cbuf'[y]] = "live" /\ cslot'[y] = Size
               /\ cbuf'[y] = abuf' => taken' > Size
               /\ \A n \in Nodes : buffer'[n] # cbuf'[y]
               /\ \A z \in Adders : z # y /\ pc'[z] \in Swapping => cbuf'[z] # cbuf'[y]
    <3>1. /\ mem[cbuf[y]] = "live" /\ cslot[y] = Size
          /\ \A n \in Nodes : buffer[n] # cbuf[y]
          /\ \A z \in Adders : z # y /\ pc[z] \in Swapping => cbuf[z] # cbuf[y]
      BY <2>1, <2>2, SwapperFacts
    <3>2. QED
      BY <1>f, <2>1, <3>1
  <2>3. \A m, n \in Nodes : m # n /\ buffer'[m] # None => buffer'[m] # buffer'[n]
    BY <1>f DEF SlotInv, OneSwapper
  <2>4. QED
    BY <2>2, <2>3 DEF OneSwapper
<1>6. QED
  BY <1>1, <1>2, <1>3, <1>4, <1>5 DEF SlotInv

(* The full buffer goes from its thread to one node. *)
LEMMA SlotNode ==
  ASSUME TypeOK, LabelsOK, SlotInv, NEW x \in Actors, Node(x)
  PROVE  SlotInv'
<1>t. /\ abuf \in Bufs /\ None \notin Bufs
      /\ Worker \in Actors /\ Worker \notin Adders /\ \A y \in Adders : y \in Actors
      /\ \A y \in Actors : /\ cbuf[y] \in Bufs \cup {None}
                           /\ pc[y] \in Swapping \cup {"copy", "idle alloc"} => cbuf[y] \in Bufs
                           /\ pc[y] = "exchange" => new[y] \in Bufs
  BY BufferTypes
<1>f. /\ Others(x) /\ pc[x] = "node" /\ pc'[x] = "head"
      /\ UNCHANGED <<abuf, taken, cbuf, cslot, new>>
  BY NodeFacts
<1>n. PICK n \in Nodes :
        /\ Turns(n, "live")
        /\ buffer'[n] = IF cslot[x] = Size THEN cbuf[x] ELSE None
        /\ \A m \in Nodes : m # n => buffer'[m] = buffer[m]
  BY NodeFacts
<1>m. \A c \in Bufs : mem'[c] = mem[c]
  BY <1>n, QueueAssumption DEF Turns, Addresses
<1>p. \A y \in Actors : y # x => pc'[y] = pc[y]
  BY <1>f DEF Others
<1>r. x \in Adders \/ x = Worker
  BY Role
<1>b. \/ buffer'[n] = None
      \/ /\ x \in Adders /\ buffer'[n] = cbuf[x] /\ cbuf[x] \in Bufs /\ mem[cbuf[x]] = "live"
         /\ cbuf[x] # abuf
         /\ \A k \in Nodes : buffer[k] # cbuf[x]
         /\ \A z \in Adders : z # x /\ pc[z] \in Swapping => cbuf[z] # cbuf[x]
  <2>1. CASE x = Worker
    <3>1. cslot[x] # Size
      BY <1>f, <2>1 DEF SlotInv, MemoryOK
    <3>2. QED
      BY <1>n, <3>1
  <2>2. CASE x \in Adders
    <3>1. pc[x] \in Swapping /\ cbuf[x] # abuf
      BY <1>f, <2>2 DEF SlotInv, Exchanged, Swapping
    <3>2. QED
      BY <1>t, <1>n, <2>2, <3>1, SwapperFacts
  <2>3. QED
    BY <1>r, <2>1, <2>2
<1>1. MemoryOK'
  <2>1. mem'[abuf'] = "live"
    BY <1>t, <1>f, <1>m DEF SlotInv, MemoryOK
  <2>2. ASSUME NEW y \in Actors, cbuf'[y] # None
        PROVE  mem'[cbuf'[y]] # "unused"
    <3>1. cbuf'[y] = cbuf[y] /\ cbuf[y] \in Bufs /\ mem'[cbuf[y]] = mem[cbuf[y]]
      BY <1>t, <1>f, <1>m, <2>2
    <3>2. QED
      BY <2>2, <3>1 DEF SlotInv, MemoryOK
  <2>3. ASSUME NEW k \in Nodes, buffer'[k] # None
        PROVE  mem'[buffer'[k]] # "unused" /\ buffer'[k] # abuf'
    <3>1. CASE k = n
      BY <1>b, <1>f, <1>m, <2>3, <3>1
    <3>2. CASE k # n
      <4>1. buffer'[k] = buffer[k] /\ buffer[k] \in Bufs
        BY <1>n, <2>3, <3>2, BufferTypes
      <4>2. QED
        BY <1>f, <1>m, <2>3, <4>1 DEF SlotInv, MemoryOK
    <3>3. QED
      BY <3>1, <3>2
  <2>4. pc'[Worker] \in {"idle alloc", "exchange", "node"} => cslot'[Worker] # Size
    BY <1>t, <1>f, <1>p DEF SlotInv, MemoryOK
  <2>5. QED
    BY <2>1, <2>2, <2>3, <2>4 DEF MemoryOK
<1>2. NewApart'
  <2>1. ASSUME NEW y \in Actors, pc'[y] = "exchange"
        PROVE  /\ mem'[new'[y]] = "live" /\ new'[y] # abuf'
               /\ \A z \in Actors : cbuf'[z] # new'[y]
               /\ \A z \in Actors : z # y /\ pc'[z] = "exchange" => new'[z] # new'[y]
               /\ \A k \in Nodes : buffer'[k] # new'[y]
    <3>1. y # x /\ pc[y] = "exchange" /\ new[y] \in Bufs
      BY <1>t, <1>f, <1>p, <2>1
    <3>2. /\ mem[new[y]] = "live" /\ new[y] # abuf
          /\ \A z \in Actors : cbuf[z] # new[y]
          /\ \A z \in Actors : z # y /\ pc[z] = "exchange" => new[z] # new[y]
          /\ \A k \in Nodes : buffer[k] # new[y]
      BY <3>1, MakerFacts
    <3>3. \A z \in Actors : pc'[z] = "exchange" => pc[z] = "exchange"
      BY <1>f, <1>p
    <3>4. buffer'[n] # new[y]
      BY <1>t, <1>b, <3>1, <3>2
    <3>5. QED
      BY <1>f, <1>m, <1>n, <3>1, <3>2, <3>3, <3>4
  <2>2. QED
    BY <2>1 DEF NewApart
<1>3. Exchanged'
  BY <1>t, <1>f, <1>p DEF SlotInv, Exchanged
<1>4. SlotsApart'
  <2>1. \A y \in Adders : pc'[y] = "copy" => pc[y] = "copy"
    BY <1>t, <1>f, <1>p
  <2>2. QED
    BY <1>f, <2>1 DEF SlotInv, SlotsApart
<1>5. OneSwapper'
  <2>1. \A y \in Adders : pc'[y] \in Swapping => pc[y] \in Swapping /\ y # x
    BY <1>t, <1>f, <1>p DEF Swapping
  <2>2. ASSUME NEW y \in Adders, pc'[y] \in Swapping
        PROVE  /\ mem'[cbuf'[y]] = "live" /\ cslot'[y] = Size
               /\ cbuf'[y] = abuf' => taken' > Size
               /\ \A k \in Nodes : buffer'[k] # cbuf'[y]
               /\ \A z \in Adders : z # y /\ pc'[z] \in Swapping => cbuf'[z] # cbuf'[y]
    <3>1. cbuf[y] \in Bufs /\ pc[y] \in Swapping /\ y # x
      BY <1>t, <2>1, <2>2
    <3>2. /\ mem[cbuf[y]] = "live" /\ cslot[y] = Size
          /\ cbuf[y] = abuf => taken > Size
          /\ \A k \in Nodes : buffer[k] # cbuf[y]
          /\ \A z \in Adders : z # y /\ pc[z] \in Swapping => cbuf[z] # cbuf[y]
      BY <3>1, SwapperFacts
    <3>3. buffer'[n] # cbuf[y]
      BY <1>t, <1>b, <3>1
    <3>4. QED
      BY <1>f, <1>m, <1>n, <2>1, <3>1, <3>2, <3>3
  <2>3. ASSUME NEW k \in Nodes, NEW l \in Nodes, k # l, buffer'[k] # None
        PROVE  buffer'[k] # buffer'[l]
    <3>1. k # n /\ l # n => buffer'[k] # buffer'[l]
      BY <1>n, <2>3 DEF SlotInv, OneSwapper
    <3>2. QED
      BY <1>b, <1>n, <2>3, <3>1
  <2>4. QED
    BY <2>2, <2>3 DEF OneSwapper
<1>6. QED
  BY <1>1, <1>2, <1>3, <1>4, <1>5 DEF SlotInv

(* The worker never has the end of a buffer. *)
LEMMA SlotIdlePeek ==
  ASSUME TypeOK, LabelsOK, SlotInv, NEW x \in Actors, IdlePeek(x)
  PROVE  SlotInv'
<1>t. /\ Worker \in Actors /\ Worker \notin Adders /\ \A y \in Adders : y \in Actors
  BY BufferTypes
<1>f. /\ Others(x) /\ x = Worker /\ pc[x] = "look"
      /\ UNCHANGED <<abuf, taken, mem, buffer, new>>
      /\ \/ pc'[x] = "peek" /\ UNCHANGED <<cbuf, cslot>>
         \/ pc'[x] = "idle alloc" /\ cbuf'[x] = abuf /\ cslot'[x] # Size
  BY IdlePeekFacts
<1>p. \A y \in Actors : y # x => pc'[y] = pc[y] /\ cbuf'[y] = cbuf[y] /\ cslot'[y] = cslot[y]
  BY <1>f DEF Others
<1>c. \A y \in Actors : cbuf'[y] = cbuf[y] \/ cbuf'[y] = abuf
  BY <1>f, <1>p
<1>a. \A y \in Adders : pc'[y] = pc[y] /\ cbuf'[y] = cbuf[y] /\ cslot'[y] = cslot[y]
  BY <1>t, <1>f, <1>p
<1>1. MemoryOK'
  <2>1. mem'[abuf'] = "live"
    BY <1>f DEF SlotInv, MemoryOK
  <2>2. \A y \in Actors : cbuf'[y] # None => mem'[cbuf'[y]] # "unused"
    BY <1>f, <1>c DEF SlotInv, MemoryOK
  <2>3. \A n \in Nodes : buffer'[n] # None => mem'[buffer'[n]] # "unused" /\ buffer'[n] # abuf'
    BY <1>f DEF SlotInv, MemoryOK
  <2>4. pc'[Worker] \in {"idle alloc", "exchange", "node"} => cslot'[Worker] # Size
    BY <1>f
  <2>5. QED
    BY <2>1, <2>2, <2>3, <2>4 DEF MemoryOK
<1>2. NewApart'
  <2>1. \A y \in Actors : pc'[y] = "exchange" => pc[y] = "exchange"
    BY <1>f, <1>p
  <2>2. QED
    BY <1>f, <1>c, <2>1 DEF SlotInv, NewApart
<1>3. Exchanged'
  BY <1>f, <1>a DEF SlotInv, Exchanged
<1>4. SlotsApart'
  BY <1>f, <1>a, ZenonT(60) DEF SlotInv, SlotsApart
<1>5. OneSwapper'
  <2>1. ASSUME NEW y \in Adders, pc'[y] \in Swapping
        PROVE  /\ mem'[cbuf'[y]] = "live" /\ cslot'[y] = Size
               /\ cbuf'[y] = abuf' => taken' > Size
               /\ \A n \in Nodes : buffer'[n] # cbuf'[y]
               /\ \A z \in Adders : z # y /\ pc'[z] \in Swapping => cbuf'[z] # cbuf'[y]
    <3>1. pc[y] \in Swapping /\ cbuf'[y] = cbuf[y] /\ cslot'[y] = cslot[y]
      BY <1>a, <2>1
    <3>2. /\ mem[cbuf[y]] = "live" /\ cslot[y] = Size
          /\ cbuf[y] = abuf => taken > Size
          /\ \A n \in Nodes : buffer[n] # cbuf[y]
          /\ \A z \in Adders : z # y /\ pc[z] \in Swapping => cbuf[z] # cbuf[y]
      BY <3>1, SwapperFacts
    <3>3. \A z \in Adders : z # y /\ pc'[z] \in Swapping => cbuf'[z] # cbuf[y]
      BY <1>a, <3>2
    <3>4. QED
      BY <1>f, <3>1, <3>2, <3>3
  <2>2. \A m, n \in Nodes : m # n /\ buffer'[m] # None => buffer'[m] # buffer'[n]
    BY <1>f DEF SlotInv, OneSwapper
  <2>3. QED
    BY <2>1, <2>2 DEF OneSwapper
<1>6. QED
  BY <1>1, <1>2, <1>3, <1>4, <1>5 DEF SlotInv

(* The worker frees a buffer that nobody is about to queue. *)
LEMMA SlotWalk ==
  ASSUME TypeOK, LabelsOK, SlotInv, NEW x \in Actors, Walk(x), status = "running", status' = "running"
  PROVE  SlotInv'
<1>t. /\ abuf \in Bufs /\ None \notin Bufs
      /\ Worker \in Actors /\ Worker \notin Adders /\ \A y \in Adders : y \in Actors
      /\ \A y \in Actors : /\ cbuf[y] \in Bufs \cup {None}
                           /\ pc[y] \in Swapping \cup {"copy", "idle alloc"} => cbuf[y] \in Bufs
                           /\ pc[y] = "exchange" => new[y] \in Bufs
      /\ \A n \in Nodes : buffer[n] \in Bufs \cup {None}
  BY BufferTypes
<1>f. UNCHANGED <<abuf, taken, buffer, pc, cbuf, cslot, new>>
  BY WalkFacts
<1>n. PICK n \in Nodes : buffer[n] \in Bufs /\ Turns(buffer[n], "freed")
  BY WalkFacts
<1>m. /\ mem'[buffer[n]] = "freed" /\ \A c \in Bufs : c # buffer[n] => mem'[c] = mem[c]
      /\ \A c \in Bufs : mem'[c] = "unused" => mem[c] = "unused"
  BY <1>n DEF Turns, Addresses
<1>1. MemoryOK'
  <2>1. mem'[abuf'] = "live"
    <3>1. buffer[n] # abuf
      BY <1>t, <1>n DEF SlotInv, MemoryOK
    <3>2. QED
      BY <1>t, <1>f, <1>m, <3>1 DEF SlotInv, MemoryOK
  <2>2. ASSUME NEW y \in Actors, cbuf'[y] # None
        PROVE  mem'[cbuf'[y]] # "unused"
    <3>1. cbuf'[y] = cbuf[y] /\ cbuf[y] \in Bufs
      BY <1>t, <1>f, <2>2
    <3>2. QED
      BY <1>m, <2>2, <3>1 DEF SlotInv, MemoryOK
  <2>3. ASSUME NEW k \in Nodes, buffer'[k] # None
        PROVE  mem'[buffer'[k]] # "unused" /\ buffer'[k] # abuf'
    <3>1. buffer'[k] = buffer[k] /\ buffer[k] \in Bufs
      BY <1>t, <1>f, <2>3
    <3>2. QED
      BY <1>f, <1>m, <2>3, <3>1 DEF SlotInv, MemoryOK
  <2>4. pc'[Worker] \in {"idle alloc", "exchange", "node"} => cslot'[Worker] # Size
    BY <1>f DEF SlotInv, MemoryOK
  <2>5. QED
    BY <2>1, <2>2, <2>3, <2>4 DEF MemoryOK
<1>2. NewApart'
  <2>1. \A y \in Actors : pc[y] = "exchange" => mem'[new[y]] = mem[new[y]]
    <3>1. ASSUME NEW y \in Actors, pc[y] = "exchange"
          PROVE  mem'[new[y]] = mem[new[y]]
      <4>1. new[y] \in Bufs /\ buffer[n] # new[y]
        BY <1>t, <3>1, MakerFacts
      <4>2. QED
        BY <1>m, <4>1
    <3>2. QED
      BY <3>1
  <2>2. QED
    BY <1>f, <2>1 DEF SlotInv, NewApart
<1>3. Exchanged'
  BY <1>f DEF SlotInv, Exchanged
<1>4. SlotsApart'
  BY <1>f DEF SlotInv, SlotsApart
<1>5. OneSwapper'
  <2>1. \A y \in Adders : pc[y] \in Swapping => mem'[cbuf[y]] = mem[cbuf[y]]
    <3>1. ASSUME NEW y \in Adders, pc[y] \in Swapping
          PROVE  mem'[cbuf[y]] = mem[cbuf[y]]
      <4>1. cbuf[y] \in Bufs /\ buffer[n] # cbuf[y]
        BY <1>t, <3>1, SwapperFacts
      <4>2. QED
        BY <1>m, <4>1
    <3>2. QED
      BY <3>1
  <2>2. QED
    BY <1>f, <2>1 DEF SlotInv, OneSwapper
<1>6. QED
  BY <1>1, <1>2, <1>3, <1>4, <1>5 DEF SlotInv

(* The constructor gives out no slot. *)
LEMMA SlotStart ==
  ASSUME Init
  PROVE  SlotInv
<1>1. /\ None \notin Bufs /\ Worker \in Actors /\ Worker \notin Adders
      /\ \A y \in Adders : y \in Actors
  BY QueueAssumption DEF Actors
<1>2. PICK b \in Bufs : b = CHOOSE a \in Bufs : TRUE
  BY QueueAssumption
<1>3. abuf = b /\ mem[b] = "live"
  BY <1>2 DEF Init
<1>4. /\ \A n \in Nodes : buffer[n] = None
      /\ \A y \in Actors : cbuf[y] = None /\ pc[y] \in {"top", "idle"}
  BY DEF Init
<1>5. MemoryOK /\ NewApart /\ Exchanged
  BY <1>1, <1>3, <1>4 DEF MemoryOK, NewApart, Exchanged
<1>6. SlotsApart /\ OneSwapper
  BY <1>1, <1>4 DEF SlotsApart, OneSwapper, Swapping
<1>7. QED
  BY <1>5, <1>6 DEF SlotInv

(* Every step keeps the slots apart. *)
LEMMA SlotNext ==
  ASSUME TypeOK, LabelsOK, SlotInv, [Next]_vars
  PROVE  SlotInv'
<1>1. ASSUME UNCHANGED <<abuf, taken, mem, buffer, pc, cbuf, cslot, new>>
      PROVE  SlotInv'
  BY <1>1 DEF SlotInv, MemoryOK, NewApart, Exchanged, SlotsApart, OneSwapper
<1>2. CASE UNCHANGED vars
  BY <1>1, <1>2 DEF vars, active, list, locals
<1>3. CASE Next /\ ~UNCHANGED vars
  <2>1. /\ status = "running"
        /\ \/ \E x \in Actors : Acts(x)
           \/ Interrupt
           \/ \E e \in {"carry", "late copy", "terminate", "freed head", "wild pointer",
                        "double free"} : Error(e)
    BY <1>3, NextCases
  <2>2. ASSUME NEW x \in Actors, Acts(x)
        PROVE  SlotInv'
    <3>1. CASE addEntry(x) \/ (Copy(x) /\ mem[cbuf[x]] = "live")
      BY <3>1, CopyFacts, SlotKeep DEF Swapping
    <3>2. CASE Fetch(x) \/ Alloc(x) \/ Exchange(x) \/ Node(x) \/ IdlePeek(x)
      BY <3>2, SlotFetch, SlotAlloc, SlotExchange, SlotNode, SlotIdlePeek
    <3>3. CASE NodeFails(x) \/ (x # Worker /\ AllocThrows(x))
      BY <3>3, NodeFailsFacts, AllocThrowsFacts, SlotKeep DEF Swapping
    <3>4. CASE Head(x)
      BY <3>4, HeadFacts, SlotKeep DEF Swapping
    <3>5. CASE ReadPrev(x) /\ mem[hd[x]] = "live"
      BY <3>5, ReadPrevFacts, SlotKeep DEF Swapping
    <3>6. CASE SetPrev(x) /\ mem[hd[x]] = "live"
      BY <3>6, SetPrevFacts, SlotKeep DEF Swapping
    <3>7. CASE SetNode(x)
      BY <3>7, SetNodeFacts, SlotKeep DEF Swapping
    <3>8. CASE SetNext(x) /\ mem[pv[x]] = "live"
      BY <3>8, SetNextFacts, SlotKeep DEF Swapping
    <3>9. CASE Top(x) \/ Peek(x)
      BY <3>9, TopFacts, SlotKeep DEF Swapping
    <3>10. CASE NewHead(x)
      <4>1. \A b \in Bufs : mem'[b] = mem[b]
        BY <3>10, NewHeadFacts, QueueAssumption DEF Turns, Addresses
      <4>2. QED
        BY <3>10, <4>1, NewHeadFacts, SlotKeep DEF Swapping
    <3>11. CASE SwapHead(x)
      BY <3>11, SwapHeadFacts, SlotKeep DEF Swapping
    <3>12. CASE FreeHead(x)
      <4>1. \A b \in Bufs : mem'[b] = mem[b]
        BY <3>12, FreeHeadFacts, QueueAssumption DEF Turns, Addresses
      <4>2. QED
        BY <3>12, <4>1, FreeHeadFacts, SlotKeep DEF Swapping
    <3>13. CASE Walk(x) /\ status' = "running"
      BY <2>1, <3>13, SlotWalk
    <3>14. QED
      BY <2>2, <3>1, <3>2, <3>3, <3>4, <3>5, <3>6, <3>7, <3>8, <3>9, <3>10, <3>11, <3>12, <3>13
      DEF Acts
  <2>3. CASE Interrupt
    BY <1>1, <2>3, InterruptFacts
  <2>4. CASE \E e \in {"carry", "late copy", "terminate", "freed head", "wild pointer",
                       "double free"} : Error(e)
    BY <1>1, <2>4 DEF Error, active, list, locals
  <2>5. QED
    BY <2>1, <2>2, <2>3, <2>4
<1>4. QED
  BY <1>2, <1>3

(* Memory in use is allocated, a new buffer is known to its maker alone,   *)
(* and what is below follows: the inductive invariant of addEntry().       *)
THEOREM QueueSlots == Spec => []SlotInv
<1>1. Init => TypeOK /\ LabelsOK /\ SlotInv
  BY TypeStart, SlotStart
<1>2. TypeOK /\ LabelsOK /\ SlotInv /\ [Next]_vars => TypeOK' /\ LabelsOK' /\ SlotInv'
  BY TypeNext, SlotNext
<1>3. QED
  BY <1>1, <1>2, PTL DEF Spec

(* For any number of threads: two calls of addEntry() never have the same  *)
(* slot of a buffer, and no slot that was given out is given out again.    *)
THEOREM EverySlotOnce == Spec => []SlotsApart
<1>1. SlotInv => SlotsApart
  BY DEF SlotInv
<1>2. QED
  BY <1>1, QueueSlots, PTL

(* For any number of threads: a full buffer is in the hands of the one     *)
(* thread that found it exactly full, and then of one node, also when the  *)
(* worker exchanges the active buffer at the same time.                    *)
THEOREM EveryBufferQueuedOnce == Spec => []OneSwapper
<1>1. SlotInv => OneSwapper
  BY DEF SlotInv
<1>2. QED
  BY <1>1, QueueSlots, PTL

-----------------------------------------------------------------------------
(* The list.                                                               *)

Unlinked == {"head", "read prev", "set prev", "set node"}

(* A step keeps what is known of nodes if it changes none that was linked. *)
LEMMA NodesKeep ==
  ASSUME NodesOK, NEW x \in Actors, Others(x),
         \A n \in Nodes : mem'[n] = mem[n] /\ prev'[n] = prev[n] /\ buffer'[n] = buffer[n],
         \A y \in Actors : node[y] \in Nodes \cup {None},
         \/ node'[x] = None
         \/ /\ node'[x] = node[x] /\ (pc'[x] \in Unlinked => pc[x] \in Unlinked)
            /\ pc'[x] # "set next"
  PROVE  NodesOK'
<1>1. ASSUME NEW y \in Actors, node'[y] # None
      PROVE  /\ mem'[node'[y]] # "unused"
             /\ \A z \in Actors : z # y => node'[z] # node'[y]
             /\ pc'[y] \in Unlinked => prev'[node'[y]] = node'[y]
             /\ pc'[y] = "set next" => prev'[node'[y]] = pv'[y]
  <2>1. /\ node'[y] = node[y] /\ node[y] \in Nodes
        /\ pc'[y] \in Unlinked => pc[y] \in Unlinked
        /\ pc'[y] = "set next" => pc[y] = "set next" /\ pv'[y] = pv[y]
    BY <1>1 DEF Others
  <2>2. /\ mem[node[y]] # "unused"
        /\ \A z \in Actors : z # y => node[z] # node[y]
        /\ pc[y] \in Unlinked => prev[node[y]] = node[y]
        /\ pc[y] = "set next" => prev[node[y]] = pv[y]
    BY <1>1, <2>1 DEF NodesOK, Unlinked
  <2>3. ASSUME NEW z \in Actors, z # y
        PROVE  node'[z] # node'[y]
    <3>1. node'[z] = None \/ node'[z] = node[z]
      BY DEF Others
    <3>2. node[z] # node[y]
      BY <2>2, <2>3
    <3>3. QED
      BY <1>1, <2>1, <3>1, <3>2
  <2>4. QED
    BY <2>1, <2>2, <2>3
<1>2. \A n \in Nodes : mem'[n] = "unused" => prev'[n] = n /\ buffer'[n] = None
  BY DEF NodesOK
<1>3. QED
  BY <1>1, <1>2 DEF NodesOK, Unlinked

(* A step keeps what is known of the walk if it flushes nothing, and       *)
(* neither frees a head nor begins a walk.                                 *)
LEMMA WalkKeep ==
  ASSUME WalkOK, UNCHANGED head, Flushed' = Flushed,
         head \in Heads \cup {None},
         \A n \in Nodes : prev'[n] = prev[n] \/ n \notin Flushed,
         \A h \in Heads : mem'[h] = mem[h],
         \/ /\ pc'[Worker] = pc[Worker] /\ new'[Worker] = new[Worker]
            /\ hd'[Worker] = hd[Worker] /\ pv'[Worker] = pv[Worker]
         \/ pc[Worker] # "walk" /\ pc'[Worker] \notin {"walk", "swap head"},
         pc[Worker] = "swap head" => new[Worker] \in Heads \cup {None}
  PROVE  WalkOK'
<1>1. \A n \in Flushed : n \in Nodes /\ prev'[n] = prev[n]
  BY DEF Flushed
<1>2. head' # None => mem'[head'] = "live"
  BY DEF WalkOK
<1>3. pc'[Worker] = "swap head" /\ new'[Worker] # None =>
        mem'[new'[Worker]] = "live" /\ new'[Worker] # head'
  BY DEF WalkOK
<1>4. ASSUME NEW n \in Flushed
      PROVE  /\ prev'[n] # n
             /\ prev'[n] \in Nodes => prev'[n] \in Flushed
             /\ prev'[n] \in Heads => \/ mem'[prev'[n]] = "freed"
                                      \/ pc'[Worker] = "walk" /\ prev'[n] = hd'[Worker]
  BY <1>1 DEF WalkOK
<1>5. pc'[Worker] = "walk" =>
        /\ hd'[Worker] # head'
        /\ pv'[Worker] \in Heads => pv'[Worker] = hd'[Worker]
        /\ pv'[Worker] \in Nodes => pv'[Worker] \in Flushed
        /\ \A n \in Flushed : prev'[n] # pv'[Worker]
  BY <1>1, ZenonT(60) DEF WalkOK
<1>6. QED
  BY <1>2, <1>3, <1>4, <1>5 DEF WalkOK

(* What the proofs about the list use of the types. *)
LEMMA ListTypes ==
  ASSUME TypeOK, LabelsOK
  PROVE  /\ head \in Heads \cup {None} /\ Worker \in Actors
         /\ pc[Worker] = "swap head" => new[Worker] \in Heads \cup {None}
         /\ \A y \in Actors : node[y] \in Nodes \cup {None}
         /\ \A n \in Nodes : buffer[n] \in Bufs \cup {None}
         /\ \A a \in Nodes \cup Heads : prev[a] \in Nodes \cup Heads /\ next[a] \in Nodes \cup Heads
         /\ None \notin Bufs /\ None \notin Nodes /\ None \notin Heads
         /\ Nodes \cap Heads = {} /\ Bufs \cap (Nodes \cup Heads) = {}
<1>1. /\ node \in [Actors -> Nodes \cup {None}] /\ buffer \in [Nodes -> Bufs \cup {None}]
      /\ next \in [Nodes \cup Heads -> Nodes \cup Heads]
      /\ prev \in [Nodes \cup Heads -> Nodes \cup Heads] /\ head \in Heads \cup {None}
  BY LocalTypes
<1>2. Worker \in Actors
  BY DEF Actors
<1>3. pc[Worker] = "swap head" => new[Worker] \in Heads \cup {None}
  BY DEF LabelsOK, WorkerOK
<1>4. /\ \A y \in Actors : node[y] \in Nodes \cup {None}
      /\ \A n \in Nodes : buffer[n] \in Bufs \cup {None}
  BY <1>1
<1>5. \A a \in Nodes \cup Heads : prev[a] \in Nodes \cup Heads /\ next[a] \in Nodes \cup Heads
  BY <1>1
<1>6. QED
  BY <1>1, <1>2, <1>3, <1>4, <1>5, QueueAssumption

(* A step that changes no node and no link between nodes. *)
LEMMA ListKeep ==
  ASSUME TypeOK, LabelsOK, ListInv, NEW x \in Actors, Others(x), UNCHANGED <<head, buffer, next>>,
         \A n \in Nodes : prev'[n] = prev[n],
         \A a \in Nodes \cup Heads : mem'[a] = mem[a], Flushed' = Flushed,
         \/ node'[x] = None
         \/ /\ node'[x] = node[x] /\ (pc'[x] \in Unlinked => pc[x] \in Unlinked)
            /\ pc'[x] # "set next",
         x = Worker => pc[x] # "walk" /\ pc'[x] \notin {"walk", "swap head"}
  PROVE  ListInv'
<1>1. NodesOK'
  BY ListTypes, NodesKeep DEF ListInv
<1>2. BackLinks'
  BY DEF ListInv, BackLinks
<1>3. WalkOK'
  <2>1. \/ /\ pc'[Worker] = pc[Worker] /\ new'[Worker] = new[Worker]
           /\ hd'[Worker] = hd[Worker] /\ pv'[Worker] = pv[Worker]
        \/ pc[Worker] # "walk" /\ pc'[Worker] \notin {"walk", "swap head"}
    BY ListTypes DEF Others
  <2>2. QED
    BY <2>1, ListTypes, WalkKeep DEF ListInv
<1>4. QED
  BY <1>1, <1>2, <1>3 DEF ListInv

(* A new node is nobody else's. *)
LEMMA ListNode ==
  ASSUME TypeOK, LabelsOK, SlotInv, ListInv, NEW x \in Actors, Node(x)
  PROVE  ListInv'
<1>t. /\ head \in Heads \cup {None} /\ Worker \in Actors
      /\ pc[Worker] = "swap head" => new[Worker] \in Heads \cup {None}
      /\ \A y \in Actors : node[y] \in Nodes \cup {None}
      /\ None \notin Bufs /\ None \notin Nodes
      /\ Nodes \cap Heads = {} /\ Bufs \cap (Nodes \cup Heads) = {}
      /\ \A n \in Nodes : buffer[n] \in Bufs \cup {None}
  BY ListTypes
<1>f. /\ Others(x) /\ pc[x] = "node" /\ pc'[x] = "head"
      /\ UNCHANGED <<head, next, prev, new, hd, pv>>
  BY NodeFacts
<1>n. PICK n \in Nodes :
        /\ mem[n] = "unused" /\ Turns(n, "live") /\ node'[x] = n
        /\ buffer'[n] = IF cslot[x] = Size THEN cbuf[x] ELSE None
        /\ \A m \in Nodes : m # n => buffer'[m] = buffer[m]
  BY NodeFacts
<1>m. /\ mem'[n] = "live" /\ \A c \in Bufs \cup Heads : mem'[c] = mem[c]
      /\ \A c \in Nodes : c # n => mem'[c] = mem[c]
  BY <1>n, <1>t DEF Turns, Addresses
<1>b. buffer'[n] = None \/ (buffer'[n] \in Bufs /\ mem[buffer'[n]] = "live")
  <2>1. CASE x = Worker
    <3>1. cslot[x] # Size
      BY <1>f, <2>1 DEF SlotInv, MemoryOK
    <3>2. QED
      BY <1>n, <3>1
  <2>2. CASE x \in Adders
    <3>1. mem[cbuf[x]] = "live" /\ cbuf[x] \in Bufs
      BY <1>f, <2>2, SwapperFacts, BufferTypes DEF Swapping
    <3>2. QED
      BY <1>n, <3>1
  <2>3. QED
    BY <2>1, <2>2, Role
<1>o. prev[n] = n /\ buffer[n] = None
  BY <1>n DEF ListInv, NodesOK
<1>1. NodesOK'
  <2>1. ASSUME NEW y \in Actors, node'[y] # None
        PROVE  /\ mem'[node'[y]] # "unused"
               /\ \A z \in Actors : z # y => node'[z] # node'[y]
               /\ pc'[y] \in Unlinked => prev'[node'[y]] = node'[y]
               /\ pc'[y] = "set next" => prev'[node'[y]] = pv'[y]
    <3>1. \A z \in Actors : z # x => node'[z] = node[z] /\ node[z] # n
      <4>1. ASSUME NEW z \in Actors, z # x
            PROVE  node'[z] = node[z] /\ node[z] # n
        <5>1. node[z] # None => mem[node[z]] # "unused"
          BY DEF ListInv, NodesOK
        <5>2. QED
          BY <1>t, <1>f, <1>n, <4>1, <5>1 DEF Others
      <4>2. QED
        BY <4>1
    <3>2. CASE y = x
      BY <1>f, <1>n, <1>m, <1>o, <3>1, <3>2
    <3>3. CASE y # x
      <4>1. node'[y] = node[y] /\ node[y] \in Nodes /\ node[y] # n /\ pc'[y] = pc[y] /\ pv'[y] = pv[y]
        BY <1>t, <1>f, <2>1, <3>1, <3>3 DEF Others
      <4>2. /\ mem[node[y]] # "unused"
            /\ \A z \in Actors : z # y => node[z] # node[y]
            /\ pc[y] \in Unlinked => prev[node[y]] = node[y]
            /\ pc[y] = "set next" => prev[node[y]] = pv[y]
        BY <2>1, <4>1 DEF ListInv, NodesOK, Unlinked
      <4>3. \A z \in Actors : z # y => node'[z] # node[y]
        BY <1>n, <3>1, <4>1, <4>2
      <4>4. QED
        BY <1>f, <1>m, <4>1, <4>2, <4>3
    <3>4. QED
      BY <3>2, <3>3
  <2>2. \A k \in Nodes : mem'[k] = "unused" => prev'[k] = k /\ buffer'[k] = None
    BY <1>f, <1>n, <1>m DEF ListInv, NodesOK
  <2>3. QED
    BY <2>1, <2>2 DEF NodesOK, Unlinked
<1>2. BackLinks'
  BY <1>f DEF ListInv, BackLinks
<1>3. WalkOK'
  <2>1. Flushed' = Flushed
    <3>1. \A k \in Nodes : (buffer'[k] # None /\ mem'[buffer'[k]] = "freed") <=>
                           (buffer[k] # None /\ mem[buffer[k]] = "freed")
      <4>1. ASSUME NEW k \in Nodes
            PROVE  (buffer'[k] # None /\ mem'[buffer'[k]] = "freed") <=>
                   (buffer[k] # None /\ mem[buffer[k]] = "freed")
        <5>1. CASE k = n
          BY <1>b, <1>m, <1>o, <5>1
        <5>2. CASE k # n
          BY <1>t, <1>n, <1>m, <5>2
        <5>3. QED
          BY <5>1, <5>2
      <4>2. QED
        BY <4>1
    <3>2. QED
      BY <3>1 DEF Flushed
  <2>2. \/ /\ pc'[Worker] = pc[Worker] /\ new'[Worker] = new[Worker]
           /\ hd'[Worker] = hd[Worker] /\ pv'[Worker] = pv[Worker]
        \/ pc[Worker] # "walk" /\ pc'[Worker] \notin {"walk", "swap head"}
    BY <1>t, <1>f DEF Others
  <2>3. QED
    BY <1>t, <1>f, <1>m, <2>1, <2>2, WalkKeep DEF ListInv
<1>4. QED
  BY <1>1, <1>2, <1>3 DEF ListInv

(* A node that is linked was not flushed: it pointed to itself. *)
LEMMA ListSetNode ==
  ASSUME TypeOK, LabelsOK, ListInv, NEW x \in Actors, SetNode(x)
  PROVE  ListInv'
<1>t. /\ head \in Heads \cup {None} /\ Worker \in Actors
      /\ pc[Worker] = "swap head" => new[Worker] \in Heads \cup {None}
      /\ \A y \in Actors : node[y] \in Nodes \cup {None}
      /\ None \notin Nodes /\ Nodes \cap Heads = {}
  BY ListTypes
<1>f. /\ Others(x) /\ pc[x] = "set node" /\ pc'[x] = "set next"
      /\ UNCHANGED <<head, mem, buffer, node, new, hd, pv>>
      /\ node[x] \in Nodes /\ hd[x] \in Heads
      /\ prev'[node[x]] = pv[x] /\ next'[node[x]] = hd[x]
      /\ \A a \in Nodes \cup Heads : a # node[x] => prev'[a] = prev[a] /\ next'[a] = next[a]
  BY SetNodeFacts
<1>o. prev[node[x]] = node[x] /\ mem[node[x]] # "unused"
  BY <1>t, <1>f DEF ListInv, NodesOK
<1>1. NodesOK'
  <2>1. ASSUME NEW y \in Actors, node'[y] # None
        PROVE  /\ mem'[node'[y]] # "unused"
               /\ \A z \in Actors : z # y => node'[z] # node'[y]
               /\ pc'[y] \in Unlinked => prev'[node'[y]] = node'[y]
               /\ pc'[y] = "set next" => prev'[node'[y]] = pv'[y]
    <3>1. /\ node[y] \in Nodes /\ mem[node[y]] # "unused"
          /\ \A z \in Actors : z # y => node[z] # node[y]
          /\ pc[y] \in Unlinked => prev[node[y]] = node[y]
          /\ pc[y] = "set next" => prev[node[y]] = pv[y]
      BY <1>t, <1>f, <2>1 DEF ListInv, NodesOK, Unlinked
    <3>2. CASE y = x
      BY <1>f, <3>1, <3>2 DEF Unlinked
    <3>3. CASE y # x
      <4>1. pc'[y] = pc[y] /\ node[y] # node[x] /\ prev'[node[y]] = prev[node[y]]
        BY <1>f, <3>1, <3>3 DEF Others
      <4>2. QED
        BY <1>f, <3>1, <4>1
    <3>4. QED
      BY <3>2, <3>3
  <2>2. \A k \in Nodes : mem'[k] = "unused" => prev'[k] = k /\ buffer'[k] = None
    BY <1>f, <1>o DEF ListInv, NodesOK
  <2>3. QED
    BY <2>1, <2>2 DEF NodesOK, Unlinked
<1>2. BackLinks'
  <2>1. ASSUME NEW m \in Nodes \cup Heads, next'[m] \in Nodes
        PROVE  prev'[next'[m]] = m
    <3>1. m # node[x] /\ next'[m] = next[m]
      BY <1>t, <1>f, <2>1
    <3>2. prev[next[m]] = m
      BY <2>1, <3>1 DEF ListInv, BackLinks
    <3>3. next[m] # node[x]
      BY <1>o, <3>1, <3>2
    <3>4. QED
      BY <1>f, <2>1, <3>1, <3>2, <3>3
  <2>2. QED
    BY <2>1 DEF BackLinks
<1>3. WalkOK'
  <2>1. Flushed' = Flushed
    BY <1>f DEF Flushed
  <2>2. node[x] \notin Flushed
    BY <1>o DEF ListInv, WalkOK
  <2>3. \A n \in Nodes : prev'[n] = prev[n] \/ n \notin Flushed
    BY <1>f, <2>2
  <2>4. \/ /\ pc'[Worker] = pc[Worker] /\ new'[Worker] = new[Worker]
           /\ hd'[Worker] = hd[Worker] /\ pv'[Worker] = pv[Worker]
        \/ pc[Worker] # "walk" /\ pc'[Worker] \notin {"walk", "swap head"}
    BY <1>t, <1>f DEF Others
  <2>5. QED
    BY <1>t, <1>f, <2>1, <2>3, <2>4, WalkKeep DEF ListInv
<1>4. QED
  BY <1>1, <1>2, <1>3 DEF ListInv

(* A node is linked behind the one it points back to. *)
LEMMA ListSetNext ==
  ASSUME TypeOK, LabelsOK, ListInv, NEW x \in Actors, SetNext(x), mem[pv[x]] = "live"
  PROVE  ListInv'
<1>t. /\ head \in Heads \cup {None} /\ Worker \in Actors
      /\ pc[Worker] = "swap head" => new[Worker] \in Heads \cup {None}
      /\ \A y \in Actors : node[y] \in Nodes \cup {None}
      /\ None \notin Nodes
  BY ListTypes
<1>f. /\ Others(x) /\ pc[x] = "set next" /\ UNCHANGED <<head, mem, buffer, prev, new>>
      /\ (pc'[x] = "peek" /\ x = Worker) \/ (pc'[x] = "add" /\ x \in Adders)
      /\ node'[x] = None
      /\ node[x] \in Nodes /\ pv[x] \in Nodes \cup Heads /\ next'[pv[x]] = node[x]
      /\ \A a \in Nodes \cup Heads : a # pv[x] => next'[a] = next[a]
  BY SetNextFacts
<1>1. NodesOK'
  BY <1>t, <1>f, NodesKeep DEF ListInv
<1>2. BackLinks'
  <2>1. prev[node[x]] = pv[x]
    BY <1>t, <1>f DEF ListInv, NodesOK
  <2>2. ASSUME NEW m \in Nodes \cup Heads, next'[m] \in Nodes
        PROVE  prev'[next'[m]] = m
    BY <1>f, <2>1, <2>2 DEF ListInv, BackLinks
  <2>3. QED
    BY <2>2 DEF BackLinks
<1>3. WalkOK'
  <2>1. Flushed' = Flushed
    BY <1>f DEF Flushed
  <2>2. \/ /\ pc'[Worker] = pc[Worker] /\ new'[Worker] = new[Worker]
           /\ hd'[Worker] = hd[Worker] /\ pv'[Worker] = pv[Worker]
        \/ pc[Worker] # "walk" /\ pc'[Worker] \notin {"walk", "swap head"}
    BY <1>t, <1>f DEF Others
  <2>3. QED
    BY <1>t, <1>f, <2>1, <2>2, WalkKeep DEF ListInv
<1>4. QED
  BY <1>1, <1>2, <1>3 DEF ListInv

(* A new buffer is no node's. *)
LEMMA ListAlloc ==
  ASSUME TypeOK, LabelsOK, SlotInv, ListInv, NEW x \in Actors, Alloc(x)
  PROVE  ListInv'
<1>t. /\ None \notin Bufs /\ Bufs \cap (Nodes \cup Heads) = {}
      /\ \A n \in Nodes : buffer[n] \in Bufs \cup {None}
  BY ListTypes
<1>f. /\ Others(x) /\ pc'[x] = "exchange" /\ pc[x] # "walk"
      /\ UNCHANGED <<head, buffer, next, prev, node>>
  BY AllocFacts
<1>b. PICK b \in Bufs : mem[b] = "unused" /\ Turns(b, "live")
  BY AllocFacts
<1>m. /\ mem'[b] = "live" /\ \A c \in Bufs : c # b => mem'[c] = mem[c]
      /\ \A a \in Nodes \cup Heads : mem'[a] = mem[a]
  BY <1>t, <1>b DEF Turns, Addresses
<1>1. \A n \in Nodes : buffer[n] # None => buffer[n] # b
  BY <1>b DEF SlotInv, MemoryOK
<1>2. Flushed' = Flushed
  <2>1. \A n \in Nodes : buffer[n] # None => mem'[buffer[n]] = mem[buffer[n]]
    BY <1>t, <1>m, <1>1
  <2>2. QED
    BY <1>f, <2>1 DEF Flushed
<1>3. QED
  BY <1>f, <1>m, <1>2, ListKeep DEF Unlinked

(* A new head is not the current one. *)
LEMMA ListNewHead ==
  ASSUME TypeOK, LabelsOK, ListInv, NEW x \in Actors, NewHead(x)
  PROVE  ListInv'
<1>t. /\ head \in Heads \cup {None} /\ Worker \in Actors
      /\ \A y \in Actors : node[y] \in Nodes \cup {None}
      /\ \A n \in Nodes : buffer[n] \in Bufs \cup {None}
      /\ \A a \in Nodes \cup Heads : prev[a] \in Nodes \cup Heads /\ next[a] \in Nodes \cup Heads
      /\ None \notin Bufs /\ None \notin Heads
      /\ Nodes \cap Heads = {} /\ Bufs \cap (Nodes \cup Heads) = {}
  BY ListTypes
<1>f. /\ Others(x) /\ x = Worker /\ pc[x] = "new head" /\ pc'[x] = "swap head"
      /\ UNCHANGED <<head, buffer, node, hd, pv>>
  BY NewHeadFacts
<1>n. /\ \A n \in Nodes : mem'[n] = mem[n] /\ prev'[n] = prev[n] /\ buffer'[n] = buffer[n]
      /\ \A b \in Bufs : mem'[b] = mem[b]
      /\ \A m \in Nodes \cup Heads : next'[m] \in Nodes => next'[m] = next[m]
      /\ \A h \in Heads : mem[h] # "unused" => mem'[h] = mem[h]
      /\ new'[x] # None => mem[new'[x]] = "unused" /\ mem'[new'[x]] = "live"
  <2>1. CASE new'[x] = None /\ UNCHANGED <<mem, next, prev>>
    BY <1>f, <2>1
  <2>2. CASE \E h \in Heads :
               /\ mem[h] = "unused" /\ Turns(h, "live") /\ new'[x] = h
               /\ next'[h] = h
               /\ \A a \in Nodes \cup Heads : a # h => next'[a] = next[a] /\ prev'[a] = prev[a]
    <3>1. PICK h \in Heads :
               /\ mem[h] = "unused" /\ Turns(h, "live") /\ new'[x] = h
               /\ next'[h] = h
               /\ \A a \in Nodes \cup Heads : a # h => next'[a] = next[a] /\ prev'[a] = prev[a]
      BY <2>2
    <3>2. mem'[h] = "live" /\ \A c \in Addresses : c # h => mem'[c] = mem[c]
      BY <3>1 DEF Turns
    <3>3. QED
      BY <1>t, <1>f, <3>1, <3>2 DEF Addresses
  <2>3. QED
    BY <2>1, <2>2, NewHeadFacts
<1>1. NodesOK'
  BY <1>t, <1>f, <1>n, NodesKeep DEF ListInv, Unlinked
<1>2. BackLinks'
  <2>1. ASSUME NEW m \in Nodes \cup Heads, next'[m] \in Nodes
        PROVE  prev'[next'[m]] = m
    <3>1. next[m] \in Nodes /\ next'[m] = next[m] /\ prev'[next[m]] = prev[next[m]]
      BY <1>n, <2>1
    <3>2. QED
      BY <3>1 DEF ListInv, BackLinks
  <2>2. QED
    BY <2>1 DEF BackLinks
<1>3. WalkOK'
  <2>1. Flushed' = Flushed
    <3>1. \A n \in Nodes : buffer[n] # None => mem'[buffer[n]] = mem[buffer[n]]
      BY <1>t, <1>n
    <3>2. QED
      BY <1>f, <3>1 DEF Flushed
  <2>2. head # None => mem[head] = "live" /\ mem'[head] = "live"
    BY <1>t, <1>n DEF ListInv, WalkOK
  <2>3. new'[x] # None => mem'[new'[x]] = "live" /\ new'[x] # head
    BY <1>t, <1>n, <2>2
  <2>4. ASSUME NEW n \in Flushed
        PROVE  /\ prev'[n] # n
               /\ prev'[n] \in Nodes => prev'[n] \in Flushed
               /\ prev'[n] \in Heads => mem'[prev'[n]] = "freed"
    <3>1. n \in Nodes /\ prev'[n] = prev[n]
      BY <1>n DEF Flushed
    <3>2. /\ prev[n] # n
          /\ prev[n] \in Nodes => prev[n] \in Flushed
          /\ prev[n] \in Heads => mem[prev[n]] = "freed"
      BY <1>f DEF ListInv, WalkOK
    <3>3. QED
      BY <1>n, <3>1, <3>2
  <2>5. QED
    BY <1>f, <2>1, <2>2, <2>3, <2>4 DEF WalkOK
<1>4. QED
  BY <1>1, <1>2, <1>3 DEF ListInv

(* A walk begins at a head that is still there, where nobody was before. *)
LEMMA ListSwapHead ==
  ASSUME TypeOK, LabelsOK, ListInv, NEW x \in Actors, SwapHead(x)
  PROVE  ListInv'
<1>t. /\ Worker \in Actors /\ (pc[Worker] = "swap head" => new[Worker] \in Heads \cup {None})
      /\ \A y \in Actors : node[y] \in Nodes \cup {None}
      /\ None \notin Heads /\ Nodes \cap Heads = {}
  BY ListTypes
<1>f. /\ Others(x) /\ x = Worker /\ pc[x] = "swap head" /\ pc'[x] = "walk"
      /\ UNCHANGED <<mem, buffer, next, prev, new, node>>
      /\ head' = new[x] /\ head \in Heads /\ hd'[x] = head /\ pv'[x] = head
  BY SwapHeadFacts
<1>1. NodesOK'
  BY <1>t, <1>f, NodesKeep DEF ListInv, Unlinked
<1>2. BackLinks'
  BY <1>f DEF ListInv, BackLinks
<1>3. WalkOK'
  <2>1. Flushed' = Flushed
    BY <1>f DEF Flushed
  <2>2. /\ mem[head] = "live"
        /\ head' # None => mem[head'] = "live" /\ head' # head
    BY <1>t, <1>f DEF ListInv, WalkOK
  <2>3. ASSUME NEW n \in Flushed
        PROVE  /\ prev[n] # n
               /\ prev[n] \in Nodes => prev[n] \in Flushed
               /\ prev[n] \in Heads => mem[prev[n]] = "freed"
    BY <1>f DEF ListInv, WalkOK
  <2>4. \A n \in Flushed : prev[n] # head
    BY <1>f, <2>2, <2>3
  <2>5. hd'[Worker] # head' /\ pv'[Worker] = hd'[Worker] /\ pv'[Worker] \notin Nodes
    BY <1>t, <1>f, <2>2
  <2>6. QED
    BY <1>f, <2>1, <2>2, <2>3, <2>4, <2>5, ZenonT(60) DEF WalkOK
<1>4. QED
  BY <1>1, <1>2, <1>3 DEF ListInv

(* The worker is never at a node it has flushed: the node points back to   *)
(* where the worker stands, and no flushed node does.                      *)
LEMMA NotFlushed ==
  ASSUME TypeOK, LabelsOK, ListInv, pc[Worker] = "walk", next[pv[Worker]] \in Nodes
  PROVE  /\ next[pv[Worker]] \notin Flushed
         /\ prev[next[pv[Worker]]] = pv[Worker]
<1>1. Worker \in Actors
  BY DEF Actors
<1>2. pv[Worker] \in Nodes \cup Heads
  BY <1>1 DEF LabelsOK, Labelled
<1>3. prev[next[pv[Worker]]] = pv[Worker]
  BY <1>2 DEF ListInv, BackLinks
<1>4. QED
  BY <1>3 DEF ListInv, WalkOK

(* The worker flushes the node and stands there. *)
LEMMA ListWalk ==
  ASSUME TypeOK, LabelsOK, SlotInv, ListInv, NEW x \in Actors, Walk(x),
         status = "running", status' = "running"
  PROVE  ListInv'
<1>t. /\ head \in Heads \cup {None} /\ Worker \in Actors
      /\ \A y \in Actors : node[y] \in Nodes \cup {None}
      /\ \A n \in Nodes : buffer[n] \in Bufs \cup {None}
      /\ None \notin Bufs /\ Nodes \cap Heads = {} /\ Bufs \cap (Nodes \cup Heads) = {}
  BY ListTypes
<1>f. /\ Others(x) /\ x = Worker /\ pc[x] = "walk" /\ pv[x] \in Nodes \cup Heads
      /\ UNCHANGED <<head, buffer, next, prev, pc, new, node, hd>>
  BY WalkFacts
<1>n. PICK n \in Nodes :
        /\ n = next[pv[x]] /\ buffer[n] \in Bufs /\ mem[buffer[n]] = "live"
        /\ Turns(buffer[n], "freed") /\ pv'[x] = n
  BY WalkFacts
<1>m. /\ mem'[buffer[n]] = "freed" /\ \A c \in Bufs : c # buffer[n] => mem'[c] = mem[c]
      /\ \A a \in Nodes \cup Heads : mem'[a] = mem[a]
  BY <1>t, <1>n DEF Turns, Addresses
<1>o. n \notin Flushed /\ prev[n] = pv[x]
  BY <1>f, <1>n, NotFlushed
<1>1. NodesOK'
  BY <1>t, <1>f, <1>m, NodesKeep DEF ListInv, Unlinked
<1>2. BackLinks'
  BY <1>f DEF ListInv, BackLinks
<1>3. WalkOK'
  <2>1. Flushed' = Flushed \cup {n}
    <3>1. \A k \in Nodes : k # n => buffer[k] # buffer[n]
      BY <1>t, <1>n DEF SlotInv, OneSwapper
    <3>2. \A k \in Nodes : k # n /\ buffer[k] # None => mem'[buffer[k]] = mem[buffer[k]]
      BY <1>t, <1>m, <3>1
    <3>3. buffer[n] # None /\ mem'[buffer[n]] = "freed"
      BY <1>t, <1>n, <1>m
    <3>4. QED
      BY <1>f, <3>2, <3>3 DEF Flushed
  <2>2. /\ head # None => mem[head] = "live"
        /\ hd[Worker] # head
        /\ pv[Worker] \in Heads => pv[Worker] = hd[Worker]
        /\ pv[Worker] \in Nodes => pv[Worker] \in Flushed
        /\ \A k \in Flushed : /\ prev[k] # k
                              /\ prev[k] \in Nodes => prev[k] \in Flushed
                              /\ prev[k] \in Heads => \/ mem[prev[k]] = "freed"
                                                      \/ prev[k] = hd[Worker]
    BY <1>f DEF ListInv, WalkOK
  <2>3. pv[x] # n
    BY <1>f, <1>o, <2>2
  <2>4. ASSUME NEW k \in Flushed \cup {n}
        PROVE  /\ prev[k] # k
               /\ prev[k] \in Nodes => prev[k] \in Flushed \cup {n}
               /\ prev[k] \in Heads => \/ mem'[prev[k]] = "freed"
                                       \/ prev[k] = hd[Worker]
               /\ prev[k] # n
    <3>1. CASE k = n
      BY <1>f, <1>o, <2>2, <2>3, <3>1
    <3>2. CASE k # n
      BY <1>m, <1>o, <2>2, <2>4, <3>2
    <3>3. QED
      BY <3>1, <3>2
  <2>5. head' # None => mem'[head'] = "live"
    BY <1>t, <1>f, <1>m, <2>2
  <2>6. n \notin Heads /\ n \in Flushed \cup {n}
    BY <1>t, <1>n
  <2>7. QED
    BY <1>f, <1>n, <2>1, <2>2, <2>4, <2>5, <2>6 DEF WalkOK
<1>4. QED
  BY <1>1, <1>2, <1>3 DEF ListInv

(* The head that is freed is not the current one. *)
LEMMA ListFreeHead ==
  ASSUME TypeOK, LabelsOK, ListInv, NEW x \in Actors, FreeHead(x)
  PROVE  ListInv'
<1>t. /\ head \in Heads \cup {None} /\ Worker \in Actors
      /\ \A y \in Actors : node[y] \in Nodes \cup {None}
      /\ \A n \in Nodes : buffer[n] \in Bufs \cup {None}
      /\ None \notin Bufs /\ Nodes \cap Heads = {} /\ Bufs \cap (Nodes \cup Heads) = {}
  BY ListTypes
<1>f. /\ Others(x) /\ x = Worker /\ pc[x] = "walk" /\ pc'[x] = "top" /\ hd[x] \in Heads
      /\ Turns(hd[x], "freed") /\ UNCHANGED <<head, buffer, next, prev, node>>
  BY FreeHeadFacts
<1>m. /\ mem'[hd[x]] = "freed" /\ \A h \in Heads : h # hd[x] => mem'[h] = mem[h]
      /\ \A a \in Nodes \cup Bufs : mem'[a] = mem[a]
  BY <1>t, <1>f DEF Turns, Addresses
<1>1. NodesOK'
  BY <1>t, <1>f, <1>m, NodesKeep DEF ListInv, Unlinked
<1>2. BackLinks'
  BY <1>f DEF ListInv, BackLinks
<1>3. WalkOK'
  <2>1. Flushed' = Flushed
    <3>1. \A n \in Nodes : buffer[n] # None => mem'[buffer[n]] = mem[buffer[n]]
      BY <1>t, <1>m
    <3>2. QED
      BY <1>f, <3>1 DEF Flushed
  <2>2. head # None => mem'[head] = "live"
    BY <1>t, <1>f, <1>m DEF ListInv, WalkOK
  <2>3. ASSUME NEW n \in Flushed
        PROVE  /\ prev[n] # n
               /\ prev[n] \in Nodes => prev[n] \in Flushed
               /\ prev[n] \in Heads => mem'[prev[n]] = "freed"
    <3>1. /\ prev[n] # n
          /\ prev[n] \in Nodes => prev[n] \in Flushed
          /\ prev[n] \in Heads => mem[prev[n]] = "freed" \/ prev[n] = hd[Worker]
      BY DEF ListInv, WalkOK
    <3>2. QED
      BY <1>f, <1>m, <3>1
  <2>4. QED
    BY <1>f, <2>1, <2>2, <2>3 DEF WalkOK
<1>4. QED
  BY <1>1, <1>2, <1>3 DEF ListInv

(* The constructor's list is empty. *)
LEMMA ListStart ==
  ASSUME Init
  PROVE  ListInv
<1>1. /\ None \notin Heads /\ Nodes \cap Heads = {} /\ Worker \in Actors
  BY QueueAssumption DEF Actors
<1>2. PICK h \in Heads : h = CHOOSE a \in Heads : TRUE
  BY QueueAssumption
<1>3. head = h /\ mem[h] = "live"
  BY <1>2 DEF Init
<1>4. /\ \A n \in Nodes : buffer[n] = None
      /\ \A a \in Nodes \cup Heads : next[a] = a /\ prev[a] = a
      /\ \A y \in Actors : node[y] = None /\ pc[y] \in {"top", "idle"}
  BY DEF Init
<1>5. Flushed = {}
  BY <1>4 DEF Flushed
<1>6. NodesOK /\ BackLinks
  BY <1>4 DEF NodesOK, BackLinks
<1>7. WalkOK
  BY <1>1, <1>3, <1>4, <1>5 DEF WalkOK
<1>8. QED
  BY <1>6, <1>7 DEF ListInv

(* Every step keeps the list as the worker relies on it. *)
LEMMA ListNext ==
  ASSUME TypeOK, LabelsOK, SlotInv, ListInv, [Next]_vars
  PROVE  ListInv'
<1>1. ASSUME UNCHANGED <<head, mem, buffer, next, prev, pc, new, node, hd, pv>>
      PROVE  ListInv'
  <2>1. NodesOK' /\ BackLinks'
    BY <1>1 DEF ListInv, NodesOK, BackLinks
  <2>2. Flushed' = Flushed
    BY <1>1 DEF Flushed
  <2>3. WalkOK'
    BY <1>1, <2>2 DEF ListInv, WalkOK
  <2>4. QED
    BY <2>1, <2>3 DEF ListInv
<1>2. CASE UNCHANGED vars
  BY <1>1, <1>2 DEF vars, list, locals
<1>3. CASE Next /\ ~UNCHANGED vars
  <2>1. /\ status = "running"
        /\ \/ \E x \in Actors : Acts(x)
           \/ Interrupt
           \/ \E e \in {"carry", "late copy", "terminate", "freed head", "wild pointer",
                        "double free"} : Error(e)
    BY <1>3, NextCases
  <2>2. ASSUME NEW x \in Actors, Acts(x)
        PROVE  ListInv'
    <3>0. UNCHANGED <<mem, buffer>> => Flushed' = Flushed
      BY DEF Flushed
    <3>1. CASE addEntry(x) \/ (Copy(x) /\ mem[cbuf[x]] = "live")
      BY <3>0, <3>1, CopyFacts, ListKeep, BufferTypes DEF Unlinked
    <3>2. CASE Fetch(x)
      BY <3>0, <3>2, FetchFacts, ListKeep, BufferTypes DEF Unlinked
    <3>3. CASE Alloc(x) \/ Node(x) \/ SetNode(x) \/ (SetNext(x) /\ mem[pv[x]] = "live")
      BY <3>3, ListAlloc, ListNode, ListSetNode, ListSetNext
    <3>4. CASE Exchange(x)
      BY <3>0, <3>4, ExchangeFacts, ListKeep DEF Unlinked
    <3>5. CASE NodeFails(x)
      BY <3>0, <3>5, NodeFailsFacts, ListKeep DEF Unlinked
    <3>6. CASE x # Worker /\ AllocThrows(x)
      BY <3>0, <3>6, AllocThrowsFacts, ListKeep DEF Unlinked
    <3>7. CASE Head(x)
      BY <3>0, <3>7, HeadFacts, ListKeep DEF Unlinked
    <3>8. CASE ReadPrev(x) /\ mem[hd[x]] = "live"
      BY <3>0, <3>8, ReadPrevFacts, ListKeep DEF Unlinked
    <3>9. CASE SetPrev(x) /\ mem[hd[x]] = "live"
      <4>1. \A n \in Nodes : prev'[n] = prev[n]
        <5>1. /\ hd[x] \in Heads /\ Nodes \cap Heads = {}
              /\ \A a \in Nodes \cup Heads : a # hd[x] => prev'[a] = prev[a]
          BY <3>9, SetPrevFacts, QueueAssumption
        <5>2. QED
          BY <5>1
      <4>2. QED
        BY <3>0, <3>9, <4>1, SetPrevFacts, ListKeep DEF Unlinked
    <3>10. CASE Top(x) \/ Peek(x)
      <4>1. pc[x] # "walk"
        BY <3>10 DEF Top, Peek
      <4>2. QED
        BY <3>0, <3>10, <4>1, TopFacts, ListKeep DEF Unlinked
    <3>11. CASE IdlePeek(x)
      BY <3>0, <3>11, IdlePeekFacts, ListKeep DEF Unlinked
    <3>12. CASE NewHead(x) \/ SwapHead(x) \/ FreeHead(x)
      BY <3>12, ListNewHead, ListSwapHead, ListFreeHead
    <3>13. CASE Walk(x) /\ status' = "running"
      BY <2>1, <3>13, ListWalk
    <3>14. QED
      BY <2>2, <3>1, <3>2, <3>3, <3>4, <3>5, <3>6, <3>7, <3>8, <3>9, <3>10, <3>11, <3>12, <3>13
      DEF Acts
  <2>3. CASE Interrupt
    BY <1>1, <2>3, InterruptFacts
  <2>4. CASE \E e \in {"carry", "late copy", "terminate", "freed head", "wild pointer",
                       "double free"} : Error(e)
    BY <1>1, <2>4 DEF Error, list, locals
  <2>5. QED
    BY <2>1, <2>2, <2>3, <2>4
<1>4. QED
  BY <1>2, <1>3

(* The worker does not come to a buffer that is freed. *)
LEMMA NoDoubleFree ==
  ASSUME TypeOK, LabelsOK, SlotInv, ListInv, FlushedOnce, [Next]_vars
  PROVE  FlushedOnce'
<1>1. CASE status' = status
  BY <1>1 DEF FlushedOnce
<1>2. CASE status' # status
  <2>1. ~UNCHANGED vars
    BY <1>2 DEF vars
  <2>2. /\ status = "running"
        /\ \/ \E x \in Actors : Acts(x)
           \/ Interrupt
           \/ \E x \in Actors : Walk(x) /\ Error("double free")
           \/ \E e \in {"carry", "late copy", "terminate", "freed head", "wild pointer"} : Error(e)
    BY <2>1, NextCases
  <2>3. ASSUME NEW x \in Actors, Walk(x), Error("double free")
        PROVE  FALSE
    <3>1. x = Worker /\ pc[x] = "walk"
      BY <2>3, Role DEF Walk
    <3>2. PICK n : n = next[pv[x]]
      OBVIOUS
    <3>3. PICK b : b = IF n \in Nodes THEN buffer[n] ELSE None
      OBVIOUS
    <3>4. mem[b] # "live" /\ b # None
      BY <2>3, <2>2, <3>2, <3>3 DEF Walk, Error
    <3>5. n \in Nodes /\ b = buffer[n] /\ b \in Bufs
      BY <3>3, <3>4, ListTypes
    <3>6. mem[b] # "freed"
      BY <3>1, <3>2, <3>4, <3>5, NotFlushed DEF Flushed
    <3>7. mem[b] # "unused"
      BY <3>4, <3>5 DEF SlotInv, MemoryOK
    <3>8. mem[b] \in {"unused", "live", "freed"}
      BY <3>5, LocalTypes
    <3>9. QED
      BY <3>4, <3>6, <3>7, <3>8
  <2>4. ASSUME NEW x \in Actors, Acts(x)
        PROVE  status' # "double free"
    BY <2>2, <2>4, CopyFacts, FetchFacts, AllocFacts, ExchangeFacts, NodeFacts, NodeFailsFacts,
       HeadFacts, SetNodeFacts, AllocThrowsFacts, ReadPrevFacts, SetPrevFacts, SetNextFacts,
       TopFacts, IdlePeekFacts, NewHeadFacts, SwapHeadFacts, FreeHeadFacts DEF Acts
  <2>5. QED
    BY <2>2, <2>3, <2>4 DEF FlushedOnce, Interrupt, Error
<1>3. QED
  BY <1>1, <1>2

(* Nodes are linked behind what they point back to, and what the worker    *)
(* has flushed it does not come to again: the inductive invariant of the   *)
(* list, which holds whatever the races between list operations lose.      *)
THEOREM QueueList == Spec => [](SlotInv /\ ListInv)
<1>1. Init => TypeOK /\ LabelsOK /\ SlotInv /\ ListInv
  BY TypeStart, SlotStart, ListStart
<1>2. TypeOK /\ LabelsOK /\ SlotInv /\ ListInv /\ [Next]_vars
      => TypeOK' /\ LabelsOK' /\ SlotInv' /\ ListInv'
  BY TypeNext, SlotNext, ListNext
<1>3. QED
  BY <1>1, <1>2, PTL DEF Spec

(* For any number of threads and any races on the list: the worker never   *)
(* flushes and frees a buffer a second time.                               *)
THEOREM NothingFlushedTwice == Spec => []FlushedOnce
<1>1. Init => TypeOK /\ LabelsOK /\ SlotInv /\ ListInv /\ FlushedOnce
  BY TypeStart, SlotStart, ListStart DEF Init, FlushedOnce
<1>2. TypeOK /\ LabelsOK /\ SlotInv /\ ListInv /\ FlushedOnce /\ [Next]_vars
      => TypeOK' /\ LabelsOK' /\ SlotInv' /\ ListInv' /\ FlushedOnce'
  BY TypeNext, SlotNext, ListNext, NoDoubleFree
<1>3. QED
  BY <1>1, <1>2, PTL DEF Spec

-----------------------------------------------------------------------------
(* Lists at which no operations overlapped.                                *)

(* What the list of head h may point to: the head, a node that is linked   *)
(* there, or one that an actor is about to link.                           *)
Owns(h, p) == p = h \/ p \in linked[h] \/ \E y \in Linking(h) : p = node[y]

(* Every node is linked at one head at most. *)
OwnNodes ==
  /\ \A g, h \in Heads : g # h => linked[g] \cap linked[h] = {}
  /\ \A g \in Heads : \A y \in Actors : node[y] \notin linked[g]
  /\ \A g \in Heads : \A n \in linked[g] : mem[n] # "unused"
  /\ \A g \in Heads : Owns(g, prev[g])
  /\ \A y \in Actors : pc[y] \in Links \ {"read prev"} => Owns(hd[y], pv[y])

(* A head that is not the current one yet. *)
Coming(h) == mem[h] = "unused" \/ (pc[Worker] = "swap head" /\ h = new[Worker])

(* Its list is empty. *)
NewEmpty ==
  \A h \in Heads : Coming(h) => linked[h] = {} /\ Linking(h) = {} /\ next[h] = h /\ prev[h] = h

(* A walk from h stays among the nodes linked there and comes to all.      *)
Reach(h) ==
  /\ next[h] \in linked[h] \cup {h}
  /\ \A m \in linked[h] : next[m] \in linked[h] \cup {h}
  /\ linked[h] \subseteq Chain(h)

(* It ends with q. *)
LastOf(h, q) == q \in linked[h] \cup {h} /\ next[q] = h /\ (q = h => linked[h] = {})

(* Where an actor that links alone has got to. *)
Alone(y) ==
  /\ hd[y] = head /\ \A z \in Linking(hd[y]) : z = y
  /\ pc[y] = "read prev" => LastOf(hd[y], prev[hd[y]])
  /\ pc[y] # "read prev" => LastOf(hd[y], pv[y])
  /\ pc[y] \in {"set node", "set next"} => prev[hd[y]] = node[y]
  /\ pc[y] = "set next" => next[node[y]] = hd[y]

Unmixed ==
  /\ \A h \in Heads : h \notin mixed => Reach(h) /\ (Linking(h) = {} => LastOf(h, prev[h]))
  /\ \A y \in Actors : pc[y] \in Links /\ hd[y] \notin mixed => Alone(y)

CountOK == head # None => count = Cardinality(linked[head]) + Cardinality(Linking(head))

WholeInv == OwnNodes /\ NewEmpty /\ Unmixed /\ CountOK

(* The actors at work on a head. *)
LEMMA LinkingDef ==
  ASSUME NEW h
  PROVE  Linking(h) = {y \in Actors : pc[y] \in Links /\ hd[y] = h}
BY DEF Linking, Links

(* What the proofs about lists use of the types. *)
LEMMA WholeTypes ==
  ASSUME TypeOK, LabelsOK
  PROVE  /\ head \in Heads \cup {None} /\ Worker \in Actors /\ count \in Nat
         /\ \A h \in Heads : linked[h] \subseteq Nodes
         /\ \A y \in Actors : /\ node[y] \in Nodes \cup {None}
                              /\ pc[y] \in Links => node[y] \in Nodes /\ hd[y] \in Heads
         /\ \A a \in Nodes \cup Heads : prev[a] \in Nodes \cup Heads /\ next[a] \in Nodes \cup Heads
         /\ None \notin Nodes /\ None \notin Heads /\ Nodes \cap Heads = {}
<1>1. count \in Nat /\ \A h \in Heads : linked[h] \subseteq Nodes
  BY DEF TypeOK
<1>2. \A y \in Actors : pc[y] \in Links => node[y] \in Nodes /\ hd[y] \in Heads
  BY DEF LabelsOK, Labelled
<1>3. QED
  BY <1>1, <1>2, ListTypes

(* A list that nobody writes to stays as it is. *)
LEMMA ReachKeep ==
  ASSUME TypeOK, LabelsOK, NEW h \in Heads, Reach(h), linked'[h] = linked[h], next'[h] = next[h],
         \A m \in linked[h] : next'[m] = next[m]
  PROVE  Reach(h)'
<1>1. linked[h] \subseteq Nodes /\ Nodes \cap Heads = {}
  BY WholeTypes
<1>2. ASSUME NEW n \in linked[h], NEW S \in SUBSET (Nodes \cup Heads), Closed(h, S)'
      PROVE  n \in S
  <2>1. PICK T \in SUBSET (Nodes \cup Heads) : T = S \cap (linked[h] \cup {h})
    BY <1>1
  <2>2. next'[h] \in S /\ \A m \in S \ {h} : next'[m] \in S
    BY <1>2 DEF Closed
  <2>3. Closed(h, T)
    BY <2>1, <2>2 DEF Closed, Reach
  <2>4. n \in T
    BY <2>3 DEF Reach, Chain
  <2>5. QED
    BY <2>1, <2>4
<1>3. linked[h] \subseteq Chain(h)'
  BY <1>1, <1>2 DEF Chain
<1>4. QED
  BY <1>3 DEF Reach

(* A node that is linked behind the last one is reached too. *)
LEMMA ReachGrow ==
  ASSUME TypeOK, LabelsOK, NEW h \in Heads, Reach(h), NEW q, LastOf(h, q),
         NEW m \in Nodes, m \notin linked[h], next[m] = h,
         next'[q] = m, \A a \in Nodes \cup Heads : a # q => next'[a] = next[a],
         linked'[h] = linked[h] \cup {m}
  PROVE  Reach(h)'
<1>1. linked[h] \subseteq Nodes /\ Nodes \cap Heads = {}
  BY WholeTypes
<1>2. q \in linked[h] \cup {h} /\ q # m
  BY <1>1 DEF LastOf
<1>3. /\ next'[h] \in linked'[h] \cup {h}
      /\ \A k \in linked'[h] : next'[k] \in linked'[h] \cup {h}
  BY <1>1, <1>2 DEF Reach
<1>4. ASSUME NEW n \in linked[h] \cup {m}, NEW S \in SUBSET (Nodes \cup Heads), Closed(h, S)'
      PROVE  n \in S
  <2>1. next'[h] \in S /\ \A k \in S \ {h} : next'[k] \in S
    BY <1>4 DEF Closed
  <2>2. CASE q = h
    BY <2>1, <2>2 DEF LastOf
  <2>3. CASE q # h
    <3>1. PICK T \in SUBSET (Nodes \cup Heads) : T = S \cup {h}
      OBVIOUS
    <3>2. next[q] = h
      BY DEF LastOf
    <3>3. Closed(h, T)
      <4>1. next[h] \in T
        BY <2>1, <2>3, <3>1
      <4>2. ASSUME NEW k \in T \ {h}
            PROVE  next[k] \in T
        <5>1. k \in S /\ k \in Nodes \cup Heads
          BY <3>1
        <5>2. CASE k = q
          BY <3>1, <3>2, <5>2
        <5>3. CASE k # q
          BY <2>1, <3>1, <5>1, <5>3
        <5>4. QED
          BY <5>2, <5>3
      <4>3. QED
        BY <4>1, <4>2 DEF Closed
    <3>4. \A k \in linked[h] : k \in S
      BY <1>1, <3>1, <3>3 DEF Reach, Chain
    <3>5. m \in S
      BY <1>2, <2>1, <2>3, <3>4
    <3>6. QED
      BY <3>4, <3>5
  <2>4. QED
    BY <2>2, <2>3
<1>5. linked'[h] \subseteq Chain(h)'
  BY <1>1, <1>4 DEF Chain
<1>6. QED
  BY <1>3, <1>5 DEF Reach

(* A list whose walk stays among its nodes has no others. *)
LEMMA ReachExact ==
  ASSUME TypeOK, LabelsOK, NEW h \in Heads, Reach(h)
  PROVE  Chain(h) = linked[h]
<1>1. linked[h] \subseteq Nodes
  BY WholeTypes
<1>2. PICK S \in SUBSET (Nodes \cup Heads) : S = linked[h] \cup {h}
  BY <1>1
<1>3. Closed(h, S)
  BY <1>2 DEF Closed, Reach
<1>4. Chain(h) \subseteq linked[h]
  BY <1>2, <1>3 DEF Chain
<1>5. QED
  BY <1>4 DEF Reach


(* What a list may point to it may still point to while its actors stay. *)
LEMMA OwnsKeep ==
  ASSUME NEW g, NEW p, Owns(g, p), linked'[g] = linked[g],
         \A y \in Linking(g) : y \in Linking(g)' /\ node'[y] = node[y]
  PROVE  Owns(g, p)'
BY DEF Owns

(* A step that links no node. *)
LEMMA OwnKeep ==
  ASSUME TypeOK, LabelsOK, OwnNodes, linked' = linked,
         \A n \in Nodes : mem'[n] = "unused" => mem[n] = "unused",
         \A y \in Actors : \/ node'[y] \in {node[y], None}
                           \/ node'[y] \in Nodes /\ mem[node'[y]] = "unused",
         \A g \in Heads : \A y \in Linking(g) : y \in Linking(g)' /\ node'[y] = node[y],
         \A g \in Heads : prev'[g] = prev[g] \/ Owns(g, prev[g])',
         \A y \in Actors : pc'[y] \in Links \ {"read prev"} =>
           \/ /\ pc[y] \in Links \ {"read prev"} /\ hd'[y] = hd[y] /\ pv'[y] = pv[y]
           \/ Owns(hd[y], pv[y])'
  PROVE  OwnNodes'
<1>t. /\ \A h \in Heads : linked[h] \subseteq Nodes
      /\ \A y \in Actors : pc[y] \in Links => hd[y] \in Heads
      /\ None \notin Nodes
  BY WholeTypes
<1>1. \A g \in Heads : \A y \in Actors : node'[y] \notin linked'[g]
  BY <1>t, ZenonT(60) DEF OwnNodes
<1>2. \A g \in Heads : \A n \in linked'[g] : mem'[n] # "unused"
  BY <1>t DEF OwnNodes
<1>3. ASSUME NEW g \in Heads
      PROVE  Owns(g, prev[g])'
  <2>1. CASE prev'[g] = prev[g]
    <3>1. PICK p : p = prev[g]
      OBVIOUS
    <3>2. Owns(g, p)
      BY <3>1 DEF OwnNodes
    <3>3. Owns(g, p)'
      BY <3>2, OwnsKeep
    <3>4. QED
      BY <2>1, <3>1, <3>3
  <2>2. QED
    BY <2>1
<1>4. ASSUME NEW y \in Actors, pc'[y] \in Links \ {"read prev"}
      PROVE  Owns(hd[y], pv[y])'
  <2>1. CASE pc[y] \in Links \ {"read prev"} /\ hd'[y] = hd[y] /\ pv'[y] = pv[y]
    <3>1. PICK p : p = pv[y]
      OBVIOUS
    <3>2. PICK g \in Heads : g = hd[y]
      BY <1>t, <2>1
    <3>3. Owns(g, p)
      BY <2>1, <3>1, <3>2 DEF OwnNodes
    <3>4. Owns(g, p)'
      BY <3>3, OwnsKeep
    <3>5. QED
      BY <2>1, <3>1, <3>2, <3>4
  <2>2. QED
    BY <1>4, <2>1
<1>5. QED
  BY <1>1, <1>2, <1>3, <1>4 DEF OwnNodes

(* A step that is no list operation. *)
LEMMA WholeKeep ==
  ASSUME TypeOK, LabelsOK, WholeInv, NEW x \in Actors, Others(x),
         pc[x] \notin Links, pc'[x] \notin Links,
         UNCHANGED <<head, next, prev, mixed, linked>>, head # None => count' = count,
         \A n \in Nodes : mem'[n] = "unused" => mem[n] = "unused",
         \/ node'[x] \in {node[x], None}
         \/ node'[x] \in Nodes /\ mem[node'[x]] = "unused",
         \A h \in Heads : Coming(h)' => Coming(h)
  PROVE  WholeInv'
<1>1. /\ \A y \in Actors : pc'[y] \in Links <=> pc[y] \in Links
      /\ \A y \in Actors : pc[y] \in Links => /\ pc'[y] = pc[y] /\ node'[y] = node[y]
                                              /\ hd'[y] = hd[y] /\ pv'[y] = pv[y]
  BY DEF Others
<1>2. \A h : Linking(h)' = Linking(h)
  <2>1. SUFFICES ASSUME NEW h
                 PROVE  Linking(h)' = Linking(h)
    OBVIOUS
  <2>2. \A y \in Actors : pc'[y] \in Links /\ hd'[y] = h <=> pc[y] \in Links /\ hd[y] = h
    BY <1>1
  <2>3. \A y : y \in Linking(h)' <=> y \in Linking(h)
    BY <2>2 DEF Linking, Links
  <2>4. QED
    BY <2>3
<1>3. OwnNodes'
  <2>1. \A y \in Actors : \/ node'[y] \in {node[y], None}
                          \/ node'[y] \in Nodes /\ mem[node'[y]] = "unused"
    BY DEF Others
  <2>2. \A g \in Heads : \A y \in Linking(g) : y \in Linking(g)' /\ node'[y] = node[y]
    BY <1>1, <1>2, LinkingDef
  <2>3. QED
    BY <1>1, <2>1, <2>2, OwnKeep DEF WholeInv
<1>4. NewEmpty'
  BY <1>2 DEF WholeInv, NewEmpty
<1>5. Unmixed'
  <2>1. ASSUME NEW h \in Heads, h \notin mixed
        PROVE  Reach(h)' /\ (Linking(h)' = {} => LastOf(h, prev[h])')
    <3>1. Reach(h)'
      BY <2>1, ReachKeep DEF WholeInv, Unmixed
    <3>2. QED
      BY <1>2, <2>1, <3>1 DEF WholeInv, Unmixed, LastOf
  <2>2. ASSUME NEW y \in Actors, pc'[y] \in Links, hd'[y] \notin mixed'
        PROVE  Alone(y)'
    <3>1. Alone(y) /\ pc'[y] = pc[y] /\ node'[y] = node[y] /\ hd'[y] = hd[y] /\ pv'[y] = pv[y]
      BY <1>1, <2>2 DEF WholeInv, Unmixed
    <3>2. \A p : LastOf(hd[y], p)' <=> LastOf(hd[y], p)
      BY <3>1 DEF LastOf
    <3>3. QED
      BY <1>2, <3>1, <3>2 DEF Alone, LastOf
  <2>3. QED
    BY <2>1, <2>2 DEF Unmixed
<1>6. CountOK'
  BY <1>2 DEF WholeInv, CountOK
<1>7. QED
  BY <1>3, <1>4, <1>5, <1>6 DEF WholeInv


(* The steps that leave the histories and the count alone. *)
LEMMA HistoryKept ==
  ASSUME NEW x \in Actors, Acts(x), ~Head(x), ~SwapHead(x), ~SetNext(x)
  PROVE  UNCHANGED <<linked, mixed, count>>
<1>1. CASE addEntry(x) \/ Copy(x) \/ Fetch(x) \/ Alloc(x) \/ Exchange(x) \/ AllocThrows(x)
  <2>1. CASE Copy(x) \/ AllocThrows(x)
    BY <2>1 DEF Copy, AllocThrows, Error, list
  <2>2. CASE addEntry(x) \/ Fetch(x) \/ Alloc(x) \/ Exchange(x)
    BY <2>2 DEF addEntry, Fetch, Alloc, Exchange, list
  <2>3. QED
    BY <1>1, <2>1, <2>2
<1>2. CASE Node(x) \/ NodeFails(x) \/ ReadPrev(x) \/ SetPrev(x) \/ SetNode(x)
  <2>1. CASE ReadPrev(x) \/ SetPrev(x)
    BY <2>1 DEF ReadPrev, SetPrev, Error, list
  <2>2. CASE Node(x) \/ NodeFails(x) \/ SetNode(x)
    BY <2>2 DEF Node, NodeFails, SetNode, list
  <2>3. QED
    BY <1>2, <2>1, <2>2
<1>3. CASE Top(x) \/ Peek(x) \/ IdlePeek(x)
  BY <1>3 DEF Top, Peek, IdlePeek, list
<1>4. CASE NewHead(x) \/ FreeHead(x)
  BY <1>4 DEF NewHead, FreeHead, list
<1>5. CASE Walk(x)
  BY <1>5 DEF Walk, Error, list
<1>6. QED
  BY <1>1, <1>2, <1>3, <1>4, <1>5 DEF Acts

(* The fetch of the head, with its history. *)
LEMMA HeadWrites ==
  ASSUME TypeOK, LabelsOK, NEW x \in Actors, Head(x)
  PROVE  /\ linked' = linked /\ count' = count + 1
         /\ mixed' = IF head # None /\ Linking(head) # {} THEN mixed \cup {head} ELSE mixed
         /\ head = None => pc'[x] \notin Links /\ node'[x] = None
         /\ head # None => pc'[x] = "read prev" /\ hd'[x] = head /\ UNCHANGED <<node, pv>>
<1>1. /\ linked' = linked /\ count' = count + 1
      /\ mixed' = IF head # None /\ Linking(head) # {} THEN mixed \cup {head} ELSE mixed
  BY DEF Head
<1>2. /\ pc \in [Actors -> AdderLabels \cup WorkerLabels] /\ node \in [Actors -> Nodes \cup {None}]
      /\ hd \in [Actors -> Heads \cup {None}]
  BY LocalTypes
<1>3. CASE head = None
  <2>1. PICK l \in {"peek", "add"} : pc' = [pc EXCEPT ![x] = l]
    BY <1>3 DEF Head, Enqueued, Goto
  <2>2. node' = [node EXCEPT ![x] = None]
    BY <1>3 DEF Head, Enqueued
  <2>3. pc'[x] = l /\ node'[x] = None
    BY <1>2, <2>1, <2>2
  <2>4. QED
    BY <1>1, <1>3, <2>3 DEF Links
<1>4. CASE head # None
  <2>1. /\ pc' = [pc EXCEPT ![x] = "read prev"] /\ hd' = [hd EXCEPT ![x] = head]
        /\ UNCHANGED <<node, pv>>
    BY <1>4 DEF Head, Goto
  <2>2. QED
    BY <1>1, <1>2, <1>4, <2>1
<1>5. QED
  BY <1>3, <1>4

(* The end of list_add_tail(), with its history. *)
LEMMA SetNextWrites ==
  ASSUME TypeOK, LabelsOK, NEW x \in Actors, SetNext(x), mem[pv[x]] = "live"
  PROVE  /\ UNCHANGED <<mixed, count>> /\ hd[x] \in Heads
         /\ linked'[hd[x]] = linked[hd[x]] \cup {node[x]}
         /\ \A g \in Heads : g # hd[x] => linked'[g] = linked[g]
<1>1. /\ UNCHANGED <<mixed, count>> /\ pc[x] = "set next"
      /\ linked' = [linked EXCEPT ![hd[x]] = @ \cup {node[x]}]
  BY DEF SetNext
<1>2. hd[x] \in Heads
  BY <1>1 DEF LabelsOK, Labelled, Links
<1>3. linked \in [Heads -> SUBSET Nodes]
  BY DEF TypeOK
<1>4. QED
  BY <1>1, <1>2, <1>3

(* The write of next->prev. *)
LEMMA SetPrevWrites ==
  ASSUME TypeOK, LabelsOK, NEW x \in Actors, SetPrev(x), mem[hd[x]] = "live"
  PROVE  prev'[hd[x]] = node[x]
<1>1. hd[x] \in Heads /\ prev' = [prev EXCEPT ![hd[x]] = node[x]]
  BY DEF SetPrev, LabelsOK, Labelled, Links
<1>2. QED
  BY <1>1, LocalTypes

(* Another head is exchanged, with the history. *)
LEMMA SwapHeadWrites ==
  ASSUME NEW x \in Actors, SwapHead(x)
  PROVE  /\ linked' = linked /\ count' = 0
         /\ mixed' = IF Linking(head) # {} THEN mixed \cup {head} ELSE mixed
BY DEF SwapHead

(* A node is at one head's list only. *)
LEMMA OwnedOnce ==
  ASSUME TypeOK, LabelsOK, ListInv, OwnNodes, NEW g \in Heads, NEW h \in Heads, g # h,
         NEW p, Owns(g, p)
  PROVE  p # h /\ p \notin linked[h]
<1>t. /\ \A k \in Heads : linked[k] \subseteq Nodes
      /\ \A y \in Actors : pc[y] \in Links => node[y] \in Nodes
      /\ Nodes \cap Heads = {}
  BY WholeTypes
<1>1. \A y \in Linking(g) : node[y] \in Nodes /\ node[y] \notin linked[h]
  BY <1>t, LinkingDef DEF OwnNodes
<1>2. p = g \/ p \in linked[g] \/ (p \in Nodes /\ p \notin linked[h])
  BY <1>1 DEF Owns
<1>3. linked[g] \cap linked[h] = {}
  BY DEF OwnNodes
<1>4. QED
  BY <1>t, <1>2, <1>3

(* A new head is not worked on. *)
LEMMA NotComing ==
  ASSUME TypeOK, LabelsOK, NewEmpty, NEW y \in Actors, pc[y] \in Links
  PROVE  hd[y] \in Heads /\ ~Coming(hd[y])
<1>1. hd[y] \in Heads
  BY WholeTypes
<1>2. y \in Linking(hd[y])
  BY LinkingDef
<1>3. QED
  BY <1>1, <1>2 DEF NewEmpty


(* Sets that are counted. *)
LEMMA Counted ==
  ASSUME TypeOK, LabelsOK, NEW h \in Heads
  PROVE  /\ IsFiniteSet(linked[h]) /\ IsFiniteSet(Linking(h))
         /\ Cardinality(linked[h]) \in Nat /\ Cardinality(Linking(h)) \in Nat
<1>1. IsFiniteSet(Adders) /\ IsFiniteSet(Nodes)
  BY QueueAssumption
<1>2. IsFiniteSet(Actors)
  BY <1>1, FS_AddElement DEF Actors
<1>3. Linking(h) \in SUBSET Actors /\ linked[h] \in SUBSET Nodes
  BY WholeTypes DEF Linking
<1>4. IsFiniteSet(linked[h]) /\ IsFiniteSet(Linking(h))
  BY <1>1, <1>2, <1>3, FS_Subset
<1>5. QED
  BY <1>4, FS_CardinalityType

(* An actor begins to work on the current head. *)
LEMMA WholeHead ==
  ASSUME TypeOK, LabelsOK, ListInv, WholeInv, NEW x \in Actors, Head(x)
  PROVE  WholeInv'
<1>t. /\ head \in Heads \cup {None} /\ Worker \in Actors /\ count \in Nat
      /\ None \notin Heads
  BY WholeTypes
<1>f. /\ Others(x) /\ pc[x] = "head" /\ UNCHANGED <<head, mem, next, prev, new>>
  BY HeadFacts
<1>w. /\ linked' = linked /\ count' = count + 1
      /\ mixed' = IF head # None /\ Linking(head) # {} THEN mixed \cup {head} ELSE mixed
      /\ head = None => pc'[x] \notin Links /\ node'[x] = None
      /\ head # None => pc'[x] = "read prev" /\ hd'[x] = head /\ UNCHANGED <<node, pv>>
  BY HeadWrites
<1>1. CASE head = None
  <2>1. pc[x] \notin Links /\ pc[x] # "swap head"
    BY <1>f DEF Links
  <2>2. pc'[x] # "swap head"
    BY <1>1, HeadFacts, <1>w DEF Links
  <2>3. \A h \in Heads : Coming(h)' => Coming(h)
    BY <1>t, <1>f, <2>2 DEF Coming, Others
  <2>4. QED
    BY <1>1, <1>f, <1>w, <2>1, <2>3, WholeKeep
<1>2. CASE head # None
  <2>0. /\ head \in Heads /\ pc[x] \notin Links /\ pc'[x] = "read prev" /\ hd'[x] = head
        /\ UNCHANGED <<node, pv>>
    BY <1>2, <1>t, <1>f, <1>w DEF Links
  <2>1. Linking(head)' = Linking(head) \cup {x} /\ x \notin Linking(head)
    <3>1. \A y \in Actors : y # x => pc'[y] = pc[y] /\ hd'[y] = hd[y]
      BY <1>f DEF Others
    <3>2. \A y : y \in Linking(head)' <=> y \in Linking(head) \/ y = x
      BY <1>f, <2>0, <3>1 DEF Linking
    <3>3. x \notin Linking(head)
      BY <2>0, LinkingDef
    <3>4. QED
      BY <3>2, <3>3
  <2>2. ASSUME NEW g, g # head
        PROVE  Linking(g)' = Linking(g)
    <3>1. \A y \in Actors : y # x => pc'[y] = pc[y] /\ hd'[y] = hd[y]
      BY <1>f DEF Others
    <3>2. pc[x] \notin {"read prev", "set prev", "set node", "set next"}
      BY <1>f
    <3>3. \A y : y \in Linking(g)' <=> y \in Linking(g)
      BY <2>0, <2>2, <3>1, <3>2 DEF Linking
    <3>4. QED
      BY <3>3
  <2>3. OwnNodes'
    <3>1. \A y \in Actors : node'[y] = node[y]
      BY <2>0
    <3>2. \A g \in Heads : \A y \in Linking(g) : y \in Linking(g)' /\ node'[y] = node[y]
      BY <1>f, <2>0, <2>1, <2>2
    <3>3. \A y \in Actors : pc'[y] \in Links \ {"read prev"} =>
            pc[y] \in Links \ {"read prev"} /\ hd'[y] = hd[y] /\ pv'[y] = pv[y]
      BY <1>f, <2>0 DEF Others
    <3>4. QED
      BY <1>f, <1>w, <3>1, <3>2, <3>3, OwnKeep DEF WholeInv
  <2>4. NewEmpty'
    <3>1. mem[head] = "live" /\ (pc[Worker] = "swap head" => new[Worker] # head)
      BY <1>2 DEF ListInv, WalkOK
    <3>2. \A h \in Heads : Coming(h)' => Coming(h) /\ h # head
      BY <1>t, <1>f, <2>0, <3>1 DEF Coming, Others
    <3>3. QED
      BY <1>f, <1>w, <2>2, <3>2 DEF WholeInv, NewEmpty
  <2>5. Unmixed'
    <3>1. ASSUME NEW h \in Heads, h \notin mixed'
          PROVE  Reach(h)' /\ (Linking(h)' = {} => LastOf(h, prev[h])')
      <4>1. h \notin mixed
        BY <1>w, <3>1
      <4>2. Reach(h) /\ (Linking(h) = {} => LastOf(h, prev[h]))
        BY <4>1 DEF WholeInv, Unmixed
      <4>3. Reach(h)'
        BY <1>f, <1>w, <4>2, ReachKeep
      <4>4. Linking(h)' = {} => Linking(h) = {}
        BY <1>f, <2>1, <2>2
      <4>5. QED
        BY <1>f, <1>w, <4>2, <4>3, <4>4 DEF LastOf
    <3>2. ASSUME NEW y \in Actors, pc'[y] \in Links, hd'[y] \notin mixed'
          PROVE  Alone(y)'
      <4>1. CASE y = x
        <5>1. Linking(head) = {} /\ head \notin mixed
          BY <1>2, <1>w, <2>0, <3>2, <4>1
        <5>2. LastOf(head, prev[head])
          BY <2>0, <5>1 DEF WholeInv, Unmixed
        <5>3. Linking(head)' = {x}
          BY <2>1, <5>1
        <5>4. QED
          BY <1>f, <1>w, <2>0, <4>1, <5>2, <5>3 DEF Alone, LastOf
      <4>2. CASE y # x
        <5>1. pc'[y] = pc[y] /\ hd'[y] = hd[y]
          BY <1>f, <4>2 DEF Others
        <5>2. hd[y] = head
          BY <1>w, <3>2, <5>1 DEF WholeInv, Unmixed, Alone
        <5>3. y \in Linking(head)
          BY <3>2, <5>1, <5>2, LinkingDef
        <5>4. QED
          BY <1>2, <1>w, <3>2, <5>1, <5>2, <5>3
      <4>3. QED
        BY <4>1, <4>2
    <3>3. QED
      BY <3>1, <3>2 DEF Unmixed
  <2>6. CountOK'
    <3>1. count = Cardinality(linked[head]) + Cardinality(Linking(head))
      BY <1>2 DEF WholeInv, CountOK
    <3>2. /\ IsFiniteSet(Linking(head))
          /\ Cardinality(linked[head]) \in Nat /\ Cardinality(Linking(head)) \in Nat
      BY <2>0, Counted
    <3>3. Cardinality(Linking(head) \cup {x}) = Cardinality(Linking(head)) + 1
      BY <2>1, <3>2, FS_AddElement
    <3>4. Cardinality(Linking(head))' = Cardinality(Linking(head)) + 1
      BY <2>1, <3>3
    <3>5. count + 1 = Cardinality(linked[head]) + (Cardinality(Linking(head)) + 1)
      BY <3>1, <3>2
    <3>6. Cardinality(linked[head])' = Cardinality(linked[head])
      BY <1>f, <1>w
    <3>7. QED
      BY <1>w, <3>4, <3>5, <3>6 DEF CountOK
  <2>7. QED
    BY <2>3, <2>4, <2>5, <2>6 DEF WholeInv
<1>3. QED
  BY <1>1, <1>2


(* The actors at a head, when the same are. *)
LEMMA LinkingSame ==
  ASSUME NEW h, \A y \in Actors : (pc'[y] \in Links /\ hd'[y] = h) <=> (pc[y] \in Links /\ hd[y] = h)
  PROVE  Linking(h)' = Linking(h)
<1>1. \A y : y \in Linking(h)' <=> y \in Linking(h)
  BY DEF Linking, Links
<1>2. QED
  BY <1>1

(* A step in the middle of list_add_tail() changes none of the sets. *)
LEMMA WholeMiddle ==
  ASSUME TypeOK, LabelsOK, WholeInv, NEW x \in Actors, Others(x), pc[x] \in Links, pc'[x] \in Links,
         UNCHANGED <<head, count, mem, linked, mixed, new, node, hd>>,
         \A g \in Heads : g # hd[x] => prev'[g] = prev[g],
         Owns(hd[x], prev'[hd[x]]), pc'[x] # "read prev" => Owns(hd[x], pv'[x]),
         \A g \in Heads : next'[g] = next[g] /\ \A n \in linked[g] : next'[n] = next[n]
  PROVE  /\ \A h : Linking(h)' = Linking(h)
         /\ OwnNodes' /\ NewEmpty' /\ CountOK'
         /\ \A g \in Heads : g \notin mixed => Reach(g)'
         /\ \A g \in Heads : \A q : LastOf(g, q)' <=> LastOf(g, q)
<1>1. \A h : Linking(h)' = Linking(h)
  BY LinkingSame DEF Others
<1>2. hd[x] \in Heads /\ ~Coming(hd[x])
  BY NotComing DEF WholeInv
<1>3. OwnNodes'
  <2>1. \A p : Owns(hd[x], p) => Owns(hd[x], p)'
    BY <1>1 DEF Owns
  <2>2. ASSUME NEW g \in Heads
        PROVE  prev'[g] = prev[g] \/ Owns(g, prev[g])'
    BY <2>1
  <2>3. ASSUME NEW y \in Actors, pc'[y] \in Links \ {"read prev"}
        PROVE  \/ /\ pc[y] \in Links \ {"read prev"} /\ hd'[y] = hd[y] /\ pv'[y] = pv[y]
               \/ Owns(hd[y], pv[y])'
    BY <2>1, <2>3 DEF Others
  <2>4. QED
    BY <1>1, <2>2, <2>3, OwnKeep DEF WholeInv
<1>4. NewEmpty'
  <2>1. Worker \in Actors
    BY WholeTypes
  <2>2. \A h \in Heads : Coming(h)' => Coming(h) /\ h # hd[x]
    BY <1>2, <2>1 DEF Coming, Others, Links
  <2>3. QED
    BY <1>1, <2>2 DEF WholeInv, NewEmpty
<1>5. CountOK'
  BY <1>1 DEF WholeInv, CountOK
<1>6. \A g \in Heads : g \notin mixed => Reach(g)'
  BY ReachKeep DEF WholeInv, Unmixed
<1>7. \A g \in Heads : \A q : LastOf(g, q)' <=> LastOf(g, q)
  BY DEF LastOf
<1>8. QED
  BY <1>1, <1>3, <1>4, <1>5, <1>6, <1>7

(* An actor at a list that is not mixed is there alone. *)
LEMMA AloneThere ==
  ASSUME TypeOK, LabelsOK, WholeInv, NEW x \in Actors, NEW y \in Actors, x # y,
         pc[x] \in Links, pc[y] \in Links, hd[y] \notin mixed
  PROVE  hd[x] # hd[y] /\ Alone(y)
<1>1. Alone(y)
  BY DEF WholeInv, Unmixed
<1>2. hd[x] = hd[y] => x \in Linking(hd[y])
  BY LinkingDef
<1>3. QED
  BY <1>1, <1>2 DEF Alone

(* The actor reads which node is the last. *)
LEMMA WholeReadPrev ==
  ASSUME TypeOK, LabelsOK, ListInv, WholeInv, NEW x \in Actors, ReadPrev(x), mem[hd[x]] = "live"
  PROVE  WholeInv'
<1>f. /\ Others(x) /\ pc[x] = "read prev" /\ pc'[x] = "set prev"
      /\ UNCHANGED <<head, count, mem, next, prev, new, node, hd>>
      /\ pv'[x] = prev[hd[x]] /\ hd[x] \in Heads
  BY ReadPrevFacts
<1>w. UNCHANGED <<linked, mixed>>
  BY DEF ReadPrev, Error, list
<1>l. pc[x] \in Links /\ pc'[x] \in Links
  BY <1>f DEF Links
<1>o. Owns(hd[x], prev[hd[x]])
  BY <1>f DEF WholeInv, OwnNodes
<1>1. /\ \A h : Linking(h)' = Linking(h)
      /\ OwnNodes' /\ NewEmpty' /\ CountOK'
      /\ \A g \in Heads : g \notin mixed => Reach(g)'
      /\ \A g \in Heads : \A q : LastOf(g, q)' <=> LastOf(g, q)
  BY <1>f, <1>w, <1>l, <1>o, WholeMiddle
<1>2. \A h \in Heads : h \notin mixed /\ Linking(h)' = {} => LastOf(h, prev[h])'
  BY <1>f, <1>1 DEF WholeInv, Unmixed
<1>3. ASSUME NEW y \in Actors, pc'[y] \in Links, hd'[y] \notin mixed'
      PROVE  Alone(y)'
  <2>1. pc[y] \in Links /\ hd[y] \notin mixed /\ hd[y] \in Heads
    BY <1>f, <1>w, <1>l, <1>3, WholeTypes DEF Others
  <2>2. Alone(y)
    BY <2>1 DEF WholeInv, Unmixed
  <2>3. CASE y = x
    BY <1>f, <1>1, <2>1, <2>2, <2>3 DEF Alone
  <2>4. CASE y # x
    <3>1. pc'[y] = pc[y] /\ pv'[y] = pv[y]
      BY <1>f, <2>4 DEF Others
    <3>2. QED
      BY <1>f, <1>1, <2>1, <2>2, <3>1 DEF Alone
  <2>5. QED
    BY <2>3, <2>4
<1>4. Unmixed'
  BY <1>w, <1>1, <1>2, <1>3 DEF Unmixed
<1>5. QED
  BY <1>1, <1>4 DEF WholeInv

(* The head points back to the node that is going to be the last. *)
LEMMA WholeSetPrev ==
  ASSUME TypeOK, LabelsOK, ListInv, WholeInv, NEW x \in Actors, SetPrev(x), mem[hd[x]] = "live"
  PROVE  WholeInv'
<1>f. /\ Others(x) /\ pc[x] = "set prev" /\ pc'[x] = "set node"
      /\ UNCHANGED <<head, count, mem, next, new, node, hd, pv>>
      /\ hd[x] \in Heads /\ \A a \in Nodes \cup Heads : a # hd[x] => prev'[a] = prev[a]
  BY SetPrevFacts
<1>w. UNCHANGED <<linked, mixed>> /\ prev'[hd[x]] = node[x]
  BY SetPrevWrites DEF SetPrev, Error, list
<1>l. pc[x] \in Links /\ pc'[x] \in Links /\ pc[x] # "read prev"
  BY <1>f DEF Links
<1>o. Owns(hd[x], node[x]) /\ Owns(hd[x], pv[x]) /\ x \in Linking(hd[x])
  BY <1>l, LinkingDef DEF WholeInv, OwnNodes, Owns
<1>1. /\ \A h : Linking(h)' = Linking(h)
      /\ OwnNodes' /\ NewEmpty' /\ CountOK'
      /\ \A g \in Heads : g \notin mixed => Reach(g)'
      /\ \A g \in Heads : \A q : LastOf(g, q)' <=> LastOf(g, q)
  BY <1>f, <1>w, <1>l, <1>o, WholeMiddle
<1>2. \A h \in Heads : h \notin mixed /\ Linking(h)' = {} => LastOf(h, prev[h])'
  BY <1>f, <1>o, <1>1 DEF WholeInv, Unmixed
<1>3. ASSUME NEW y \in Actors, pc'[y] \in Links, hd'[y] \notin mixed'
      PROVE  Alone(y)'
  <2>1. pc[y] \in Links /\ hd[y] \notin mixed /\ hd[y] \in Heads
    BY <1>f, <1>w, <1>l, <1>3, WholeTypes DEF Others
  <2>2. Alone(y)
    BY <2>1 DEF WholeInv, Unmixed
  <2>3. CASE y = x
    BY <1>f, <1>w, <1>1, <2>1, <2>2, <2>3 DEF Alone
  <2>4. CASE y # x
    <3>1. pc'[y] = pc[y]
      BY <1>f, <2>4 DEF Others
    <3>2. prev'[hd[y]] = prev[hd[y]]
      BY <1>f, <1>l, <2>1, <2>4, AloneThere
    <3>3. QED
      BY <1>f, <1>1, <2>1, <2>2, <3>1, <3>2 DEF Alone
  <2>5. QED
    BY <2>3, <2>4
<1>4. Unmixed'
  BY <1>w, <1>1, <1>2, <1>3 DEF Unmixed
<1>5. QED
  BY <1>1, <1>4 DEF WholeInv


(* The new node points to the head and back to the last node; nobody comes *)
(* to it yet.                                                              *)
LEMMA WholeSetNode ==
  ASSUME TypeOK, LabelsOK, ListInv, WholeInv, NEW x \in Actors, SetNode(x)
  PROVE  WholeInv'
<1>f. /\ Others(x) /\ pc[x] = "set node" /\ pc'[x] = "set next"
      /\ UNCHANGED <<head, count, mem, new, node, hd, pv>>
      /\ node[x] \in Nodes /\ hd[x] \in Heads /\ next'[node[x]] = hd[x]
      /\ \A a \in Nodes \cup Heads : a # node[x] => prev'[a] = prev[a] /\ next'[a] = next[a]
  BY SetNodeFacts
<1>w. UNCHANGED <<linked, mixed>>
  BY DEF SetNode
<1>l. pc[x] \in Links /\ pc'[x] \in Links /\ pc[x] # "read prev"
  BY <1>f DEF Links
<1>o. /\ Owns(hd[x], prev[hd[x]]) /\ Owns(hd[x], pv[x])
      /\ \A g \in Heads : node[x] \notin linked[g] /\ node[x] # g /\ linked[g] \subseteq Nodes
  BY <1>f, <1>l, WholeTypes DEF WholeInv, OwnNodes
<1>n. \A g \in Heads : /\ next'[g] = next[g] /\ prev'[g] = prev[g]
                       /\ \A n \in linked[g] : next'[n] = next[n]
  BY <1>f, <1>o
<1>1. /\ \A h : Linking(h)' = Linking(h)
      /\ OwnNodes' /\ NewEmpty' /\ CountOK'
      /\ \A g \in Heads : g \notin mixed => Reach(g)'
      /\ \A g \in Heads : \A q : LastOf(g, q)' <=> LastOf(g, q)
  BY <1>f, <1>w, <1>l, <1>o, <1>n, WholeMiddle
<1>2. \A h \in Heads : h \notin mixed /\ Linking(h)' = {} => LastOf(h, prev[h])'
  BY <1>n, <1>1 DEF WholeInv, Unmixed
<1>3. ASSUME NEW y \in Actors, pc'[y] \in Links, hd'[y] \notin mixed'
      PROVE  Alone(y)'
  <2>1. pc[y] \in Links /\ hd[y] \notin mixed /\ hd[y] \in Heads
    BY <1>f, <1>w, <1>l, <1>3, WholeTypes DEF Others
  <2>2. Alone(y)
    BY <2>1 DEF WholeInv, Unmixed
  <2>3. CASE y = x
    BY <1>f, <1>n, <1>1, <2>1, <2>2, <2>3 DEF Alone
  <2>4. CASE y # x
    <3>1. pc'[y] = pc[y]
      BY <1>f, <2>4 DEF Others
    <3>2. node[y] \in Nodes /\ node[y] # node[x]
      <4>1. node[y] \in Nodes /\ None \notin Nodes
        BY <2>1, WholeTypes
      <4>2. QED
        BY <1>f, <2>4, <4>1 DEF ListInv, NodesOK
    <3>3. next'[node[y]] = next[node[y]]
      BY <1>f, <3>2
    <3>4. QED
      BY <1>f, <1>n, <1>1, <2>1, <2>2, <3>1, <3>3 DEF Alone
  <2>5. QED
    BY <2>3, <2>4
<1>4. Unmixed'
  BY <1>w, <1>1, <1>2, <1>3 DEF Unmixed
<1>5. QED
  BY <1>1, <1>4 DEF WholeInv

(* The node is linked behind the last one, if nobody else was at work. *)
LEMMA WholeSetNext ==
  ASSUME TypeOK, LabelsOK, ListInv, WholeInv, NEW x \in Actors, SetNext(x), mem[pv[x]] = "live"
  PROVE  WholeInv'
<1>t. /\ head \in Heads \cup {None} /\ Worker \in Actors /\ count \in Nat
      /\ \A h \in Heads : linked[h] \subseteq Nodes
      /\ \A y \in Actors : /\ node[y] \in Nodes \cup {None}
                           /\ pc[y] \in Links => node[y] \in Nodes /\ hd[y] \in Heads
      /\ \A a \in Nodes \cup Heads : prev[a] \in Nodes \cup Heads
      /\ None \notin Nodes /\ None \notin Heads /\ Nodes \cap Heads = {}
  BY WholeTypes
<1>f. /\ Others(x) /\ pc[x] = "set next" /\ pc'[x] \in {"peek", "add"}
      /\ UNCHANGED <<head, count, mem, prev, new>>
      /\ node'[x] = None /\ node[x] \in Nodes /\ pv[x] \in Nodes \cup Heads
      /\ next'[pv[x]] = node[x]
      /\ \A a \in Nodes \cup Heads : a # pv[x] => next'[a] = next[a]
  BY SetNextFacts
<1>w. /\ UNCHANGED <<mixed, count>> /\ hd[x] \in Heads
      /\ linked'[hd[x]] = linked[hd[x]] \cup {node[x]}
      /\ \A g \in Heads : g # hd[x] => linked'[g] = linked[g]
  BY SetNextWrites
<1>l. /\ pc[x] \in Links /\ pc[x] # "read prev" /\ pc'[x] \notin Links
      /\ pc'[x] # "swap head" /\ pc[x] # "swap head"
  BY <1>f DEF Links
<1>o. Owns(hd[x], pv[x]) /\ x \in Linking(hd[x]) /\ \A g \in Heads : node[x] \notin linked[g]
  BY <1>l, LinkingDef DEF WholeInv, OwnNodes
<1>k. \A y \in Actors : y # x => node[y] # node[x]
  BY <1>t, <1>f DEF ListInv, NodesOK
<1>1. \A g : g # hd[x] => Linking(g)' = Linking(g)
  BY <1>f, <1>l, LinkingSame, ZenonT(60) DEF Others
<1>2. PICK h \in Heads : h = hd[x]
  BY <1>w
<1>3. Linking(h)' = Linking(h) \ {x}
  <2>1. \A y \in Actors : y # x => pc'[y] = pc[y] /\ hd'[y] = hd[y]
    BY <1>f DEF Others
  <2>2. \A y : y \in Linking(h)' <=> y \in Linking(h) /\ y # x
    BY <1>l, <2>1 DEF Linking, Links
  <2>3. QED
    BY <2>2
<1>4. ASSUME NEW g \in Heads, NEW p, Owns(g, p)
      PROVE  Owns(g, p)'
  <2>1. \A y \in Actors : y # x => node'[y] = node[y]
    BY <1>f DEF Others
  <2>2. \A y \in Linking(g) : y \in Actors
    BY DEF Linking
  <2>3. CASE g = h
    BY <1>2, <1>3, <1>4, <1>w, <2>1, <2>2, <2>3 DEF Owns
  <2>4. CASE g # h
    <3>1. x \notin Linking(g)
      BY <1>2, <2>4, LinkingDef
    <3>2. QED
      BY <1>1, <1>2, <1>4, <1>w, <2>1, <2>2, <2>4, <3>1 DEF Owns
  <2>5. QED
    BY <2>3, <2>4
<1>5. OwnNodes'
  <2>1. \A g, k \in Heads : g # k => linked'[g] \cap linked'[k] = {}
    <3>1. \A g \in Heads : linked'[g] \subseteq linked[g] \cup {node[x]}
      BY <1>w
    <3>2. \A g \in Heads : g # h => node[x] \notin linked'[g]
      BY <1>w, <1>o, <1>2
    <3>3. ASSUME NEW g \in Heads, NEW k \in Heads, g # k
          PROVE  linked'[g] \cap linked'[k] = {}
      <4>1. linked[g] \cap linked[k] = {}
        BY <3>3 DEF WholeInv, OwnNodes
      <4>2. QED
        BY <1>o, <3>1, <3>2, <3>3, <4>1
    <3>4. QED
      BY <3>3
  <2>2. \A g \in Heads : \A y \in Actors : node'[y] \notin linked'[g]
    <3>1. ASSUME NEW g \in Heads, NEW y \in Actors
          PROVE  node'[y] \notin linked'[g]
      <4>1. linked'[g] \subseteq linked[g] \cup {node[x]}
        BY <1>w
      <4>2. CASE y = x
        BY <1>t, <1>f, <4>1, <4>2
      <4>3. CASE y # x
        BY <1>f, <1>k, <4>1, <4>3, ZenonT(60) DEF Others, WholeInv, OwnNodes
      <4>4. QED
        BY <4>2, <4>3
    <3>2. QED
      BY <3>1
  <2>3. \A g \in Heads : \A n \in linked'[g] : mem'[n] # "unused"
    <3>1. mem[node[x]] # "unused"
      BY <1>t, <1>f DEF ListInv, NodesOK
    <3>2. QED
      BY <1>w, <1>f, <3>1, ZenonT(60) DEF WholeInv, OwnNodes
  <2>4. ASSUME NEW g \in Heads
        PROVE  Owns(g, prev[g])'
    <3>1. PICK p : p = prev[g]
      OBVIOUS
    <3>2. Owns(g, p)'
      BY <1>4, <3>1 DEF WholeInv, OwnNodes
    <3>3. QED
      BY <1>f, <3>1, <3>2
  <2>5. ASSUME NEW y \in Actors, pc'[y] \in Links \ {"read prev"}
        PROVE  Owns(hd[y], pv[y])'
    <3>1. pc[y] = pc'[y] /\ hd'[y] = hd[y] /\ pv'[y] = pv[y] /\ hd[y] \in Heads
      BY <1>t, <1>f, <1>l, <2>5 DEF Others
    <3>2. PICK p : p = pv[y]
      OBVIOUS
    <3>3. PICK g \in Heads : g = hd[y]
      BY <3>1
    <3>4. Owns(g, p)'
      BY <1>4, <2>5, <3>1, <3>2, <3>3 DEF WholeInv, OwnNodes
    <3>5. QED
      BY <3>1, <3>2, <3>3, <3>4
  <2>6. QED
    BY <2>1, <2>2, <2>3, <2>4, <2>5 DEF OwnNodes
<1>6. ASSUME NEW g \in Heads, g # h
      PROVE  pv[x] # g /\ pv[x] \notin linked[g]
  BY <1>o, <1>2, <1>6, OwnedOnce DEF WholeInv
<1>7. NewEmpty'
  <2>1. ~Coming(h)
    BY <1>2, <1>l, NotComing DEF WholeInv
  <2>2. \A g \in Heads : Coming(g)' => Coming(g) /\ g # h
    BY <1>t, <1>f, <1>l, <2>1 DEF Coming, Others
  <2>3. ASSUME NEW g \in Heads, Coming(g)'
        PROVE  linked'[g] = {} /\ Linking(g)' = {} /\ next'[g] = g /\ prev'[g] = g
    <3>1. g # h /\ linked[g] = {} /\ Linking(g) = {} /\ next[g] = g /\ prev[g] = g
      BY <2>2, <2>3 DEF WholeInv, NewEmpty
    <3>2. linked'[g] = linked[g] /\ Linking(g)' = Linking(g)
      BY <1>w, <1>1, <1>2, <3>1
    <3>3. next'[g] = next[g] /\ prev'[g] = prev[g]
      BY <1>f, <1>6, <3>1
    <3>4. QED
      BY <3>1, <3>2, <3>3
  <2>4. QED
    BY <2>3 DEF NewEmpty
<1>8. ASSUME h \notin mixed
      PROVE  /\ Reach(h)' /\ LastOf(h, prev[h])'
  <2>1. Alone(x)
    BY <1>2, <1>8, <1>l DEF WholeInv, Unmixed
  <2>2. LastOf(h, pv[x]) /\ prev[h] = node[x] /\ next[node[x]] = h
    BY <1>2, <1>f, <1>l, <2>1 DEF Alone
  <2>3. Reach(h)
    BY <1>8 DEF WholeInv, Unmixed
  <2>4. Reach(h)'
    BY <1>f, <1>w, <1>o, <1>2, <2>2, <2>3, ReachGrow
  <2>5. node[x] # pv[x] /\ node[x] # h
    BY <1>t, <1>f, <1>o, <2>2 DEF LastOf
  <2>6. LastOf(h, prev[h])'
    <3>1. PICK m : m = node[x]
      OBVIOUS
    <3>2. next'[m] = h /\ m \in linked'[h] /\ m # h
      BY <1>f, <1>w, <1>2, <2>2, <2>5, <3>1
    <3>3. LastOf(h, m)'
      BY <3>2 DEF LastOf
    <3>4. QED
      BY <1>f, <2>2, <3>1, <3>3
  <2>7. QED
    BY <2>4, <2>6
<1>9. Unmixed'
  <2>1. ASSUME NEW g \in Heads, g \notin mixed, g # h
        PROVE  /\ Reach(g)' /\ Linking(g)' = Linking(g)
               /\ \A q : LastOf(g, q) => LastOf(g, q)'
    <3>1. /\ linked'[g] = linked[g] /\ Linking(g)' = Linking(g) /\ next'[g] = next[g]
          /\ \A m \in linked[g] : next'[m] = next[m]
      BY <1>t, <1>f, <1>w, <1>1, <1>2, <1>6, <2>1, ZenonT(60)
    <3>2. Reach(g)'
      BY <2>1, <3>1, ReachKeep DEF WholeInv, Unmixed
    <3>3. QED
      BY <3>1, <3>2 DEF LastOf
  <2>2. ASSUME NEW g \in Heads, g \notin mixed
        PROVE  Reach(g)' /\ (Linking(g)' = {} => LastOf(g, prev[g])')
    <3>1. CASE g = h
      BY <1>8, <2>2, <3>1
    <3>2. CASE g # h
      BY <1>f, <2>1, <2>2, <3>2 DEF WholeInv, Unmixed
    <3>3. QED
      BY <3>1, <3>2
  <2>3. ASSUME NEW y \in Actors, pc'[y] \in Links, hd'[y] \notin mixed'
        PROVE  Alone(y)'
    <3>1. /\ y # x /\ pc'[y] = pc[y] /\ hd'[y] = hd[y] /\ pv'[y] = pv[y] /\ node'[y] = node[y]
      BY <1>f, <1>l, <2>3 DEF Others
    <3>2. hd[y] \notin mixed /\ pc[y] \in Links
      BY <1>w, <2>3, <3>1
    <3>3. Alone(y) /\ hd[y] # h
      BY <1>2, <1>l, <3>1, <3>2, AloneThere
    <3>4. PICK g \in Heads : g = hd[y]
      BY <1>t, <3>2
    <3>5. Linking(g)' = Linking(g) /\ \A q : LastOf(g, q) => LastOf(g, q)'
      BY <2>1, <3>2, <3>3, <3>4
    <3>6. next'[node[y]] = next[node[y]]
      <4>1. node[y] \in Nodes /\ node[y] # h /\ node[y] \notin linked[h]
        BY <1>t, <3>2 DEF WholeInv, OwnNodes
      <4>2. \A z \in Linking(h) : node[z] # node[y]
        <5>1. \A z \in Linking(h) : z \in Actors /\ z # y
          BY <3>3, LinkingDef
        <5>2. QED
          BY <1>t, <4>1, <5>1 DEF ListInv, NodesOK
      <4>3. pv[x] # node[y]
        BY <1>o, <1>2, <4>1, <4>2 DEF Owns
      <4>4. QED
        BY <1>f, <4>1, <4>3
    <3>7. QED
      BY <1>f, <3>1, <3>3, <3>4, <3>5, <3>6 DEF Alone
  <2>4. QED
    BY <1>w, <2>2, <2>3 DEF Unmixed
<1>10. CountOK'
  <2>1. CASE head = h
    <3>1. count = Cardinality(linked[h]) + Cardinality(Linking(h))
      BY <1>t, <2>1 DEF WholeInv, CountOK
    <3>2. /\ IsFiniteSet(linked[h]) /\ IsFiniteSet(Linking(h))
          /\ Cardinality(linked[h]) \in Nat /\ Cardinality(Linking(h)) \in Nat
      BY Counted
    <3>3. Cardinality(linked'[h]) = Cardinality(linked[h]) + 1
      <4>1. linked'[h] = linked[h] \cup {node[x]} /\ node[x] \notin linked[h]
        BY <1>w, <1>o, <1>2
      <4>2. QED
        BY <3>2, <4>1, FS_AddElement, ZenonT(60)
    <3>4. Cardinality(Linking(h) \ {x}) = Cardinality(Linking(h)) - 1
      BY <1>o, <1>2, <3>2, FS_RemoveElement
    <3>5. Cardinality(Linking(h))' = Cardinality(Linking(h)) - 1
      BY <1>3, <3>4
    <3>6. count = (Cardinality(linked[h]) + 1) + (Cardinality(Linking(h)) - 1)
      BY <3>1, <3>2
    <3>7. QED
      BY <1>f, <2>1, <3>3, <3>5, <3>6 DEF CountOK
  <2>2. CASE head # h /\ head # None
    <3>1. PICK g \in Heads : g = head
      BY <1>t, <2>2
    <3>2. linked'[g] = linked[g] /\ Linking(g)' = Linking(g)
      BY <1>w, <1>1, <1>2, <2>2, <3>1
    <3>3. count = Cardinality(linked[g]) + Cardinality(Linking(g))
      BY <2>2, <3>1 DEF WholeInv, CountOK
    <3>4. count' = Cardinality(linked'[g]) + Cardinality(Linking(g)')
      BY <1>f, <3>2, <3>3
    <3>5. QED
      BY <1>f, <3>1, <3>4 DEF CountOK
  <2>3. CASE head = None
    BY <1>f, <2>3 DEF CountOK
  <2>4. QED
    BY <2>1, <2>2, <2>3
<1>11. QED
  BY <1>5, <1>7, <1>9, <1>10 DEF WholeInv


(* The list that is taken away is mixed if somebody is at work on it; the  *)
(* new one is empty.                                                       *)
LEMMA WholeSwapHead ==
  ASSUME TypeOK, LabelsOK, ListInv, WholeInv, NEW x \in Actors, SwapHead(x)
  PROVE  WholeInv'
<1>f. /\ Others(x) /\ x = Worker /\ pc[x] = "swap head" /\ pc'[x] = "walk"
      /\ UNCHANGED <<mem, next, prev, new, node>>
      /\ head' = new[x] /\ head \in Heads
  BY SwapHeadFacts
<1>w. /\ linked' = linked /\ count' = 0
      /\ mixed' = IF Linking(head) # {} THEN mixed \cup {head} ELSE mixed
  BY SwapHeadWrites
<1>l. pc[x] \notin Links /\ pc'[x] \notin Links
  BY <1>f DEF Links
<1>1. \A h : Linking(h)' = Linking(h)
  BY <1>f, <1>l, LinkingSame DEF Others
<1>2. OwnNodes'
  <2>1. \A g \in Heads : \A y \in Linking(g) : y \in Linking(g)' /\ node'[y] = node[y]
    BY <1>f, <1>1
  <2>2. \A y \in Actors : pc'[y] \in Links \ {"read prev"} =>
          pc[y] \in Links \ {"read prev"} /\ hd'[y] = hd[y] /\ pv'[y] = pv[y]
    BY <1>f, <1>l DEF Others
  <2>3. QED
    BY <1>f, <1>w, <2>1, <2>2, OwnKeep DEF WholeInv
<1>3. NewEmpty'
  <2>1. \A h \in Heads : Coming(h)' => Coming(h)
    BY <1>f DEF Coming
  <2>2. QED
    BY <1>f, <1>w, <1>1, <2>1 DEF WholeInv, NewEmpty
<1>4. Unmixed'
  <2>1. ASSUME NEW g \in Heads, g \notin mixed'
        PROVE  Reach(g)' /\ (Linking(g)' = {} => LastOf(g, prev[g])')
    <3>1. Reach(g) /\ (Linking(g) = {} => LastOf(g, prev[g]))
      BY <1>w, <2>1 DEF WholeInv, Unmixed
    <3>2. Reach(g)'
      BY <1>f, <1>w, <3>1, ReachKeep
    <3>3. QED
      BY <1>f, <1>w, <1>1, <3>1, <3>2 DEF LastOf
  <2>2. ASSUME NEW y \in Actors, pc'[y] \in Links, hd'[y] \notin mixed'
        PROVE  FALSE
    <3>1. pc[y] \in Links /\ hd[y] \notin mixed /\ hd'[y] = hd[y]
      BY <1>f, <1>w, <1>l, <2>2 DEF Others
    <3>2. hd[y] = head
      BY <3>1 DEF WholeInv, Unmixed, Alone
    <3>3. y \in Linking(head)
      BY <3>1, <3>2, LinkingDef
    <3>4. QED
      BY <1>w, <2>2, <3>1, <3>2, <3>3
  <2>3. QED
    BY <2>1, <2>2 DEF Unmixed
<1>5. CountOK'
  <2>1. CASE head' = None
    BY <2>1 DEF CountOK
  <2>2. CASE head' # None
    <3>1. PICK h \in Heads : h = head'
      BY <1>f, <2>2, ListTypes
    <3>2. Coming(h)
      BY <1>f, <3>1 DEF Coming
    <3>3. linked'[h] = {} /\ Linking(h)' = {}
      BY <1>w, <1>1, <3>2 DEF WholeInv, NewEmpty
    <3>4. Cardinality({}) = 0
      BY FS_EmptySet
    <3>5. count' = Cardinality(linked'[h]) + Cardinality(Linking(h)')
      BY <1>w, <3>3, <3>4
    <3>6. QED
      BY <3>1, <3>5 DEF CountOK
  <2>3. QED
    BY <2>1, <2>2
<1>6. QED
  BY <1>2, <1>3, <1>4, <1>5 DEF WholeInv

(* A head that is allocated had no list before. *)
LEMMA WholeNewHead ==
  ASSUME TypeOK, LabelsOK, ListInv, WholeInv, NEW x \in Actors, NewHead(x)
  PROVE  WholeInv'
<1>t. /\ next \in [Nodes \cup Heads -> Nodes \cup Heads]
      /\ prev \in [Nodes \cup Heads -> Nodes \cup Heads] /\ None \notin Heads
      /\ Nodes \cap Heads = {}
  BY LocalTypes, QueueAssumption
<1>f. /\ Others(x) /\ x = Worker /\ pc[x] = "new head" /\ pc'[x] = "swap head"
      /\ UNCHANGED <<head, count, node>>
  BY NewHeadFacts
<1>w. UNCHANGED <<linked, mixed>>
  BY DEF NewHead
<1>l. pc[x] \notin Links /\ pc'[x] \notin Links
  BY <1>f DEF Links
<1>1. CASE new'[x] = None /\ UNCHANGED <<mem, next, prev>>
  <2>1. \A h \in Heads : Coming(h)' => Coming(h)
    BY <1>1, <1>t, <1>f DEF Coming
  <2>2. QED
    BY <1>1, <1>f, <1>w, <1>l, <2>1, WholeKeep
<1>2. CASE \E h \in Heads : /\ mem[h] = "unused" /\ Turns(h, "live") /\ new'[x] = h
                            /\ next' = [next EXCEPT ![h] = h] /\ prev' = [prev EXCEPT ![h] = h]
  <2>1. PICK h \in Heads : /\ mem[h] = "unused" /\ Turns(h, "live") /\ new'[x] = h
                           /\ next' = [next EXCEPT ![h] = h] /\ prev' = [prev EXCEPT ![h] = h]
    BY <1>2
  <2>2. Coming(h)
    BY <2>1 DEF Coming
  <2>3. next[h] = h /\ prev[h] = h
    BY <2>2 DEF WholeInv, NewEmpty
  <2>4. next' = next /\ prev' = prev
    BY <1>t, <2>1, <2>3
  <2>5. \A g \in Heads : Coming(g)' => Coming(g)
    BY <1>f, <2>1 DEF Coming, Turns, Addresses
  <2>6. \A n \in Nodes : mem'[n] = "unused" => mem[n] = "unused"
    BY <1>t, <2>1 DEF Turns, Addresses
  <2>7. QED
    BY <1>f, <1>w, <1>l, <2>4, <2>5, <2>6, WholeKeep
<1>3. \/ new'[x] = None /\ UNCHANGED <<mem, next, prev>>
      \/ \E h \in Heads : /\ mem[h] = "unused" /\ Turns(h, "live") /\ new'[x] = h
                          /\ next' = [next EXCEPT ![h] = h] /\ prev' = [prev EXCEPT ![h] = h]
  <2>1. CASE interrupted
    BY <2>1, LocalTypes DEF NewHead
  <2>2. CASE ~interrupted
    <3>1. PICK h \in Heads :
            /\ mem[h] = "unused" /\ mem' = [mem EXCEPT ![h] = "live"]
            /\ next' = [next EXCEPT ![h] = h] /\ prev' = [prev EXCEPT ![h] = h]
            /\ new' = [new EXCEPT ![x] = h]
      BY <2>2, FreshFacts DEF NewHead
    <3>2. Turns(h, "live") /\ new'[x] = h
      BY <3>1, Write, LocalTypes DEF Addresses
    <3>3. QED
      BY <3>1, <3>2
  <2>3. QED
    BY <2>1, <2>2
<1>4. QED
  BY <1>1, <1>2, <1>3

(* The steps of an actor that change no list. *)
LEMMA WholeOther ==
  ASSUME TypeOK, LabelsOK, ListInv, WholeInv, NEW x \in Actors, Acts(x), status = "running",
         \/ addEntry(x) \/ (Copy(x) /\ mem[cbuf[x]] = "live") \/ Fetch(x) \/ Alloc(x) \/ Exchange(x)
         \/ Node(x) \/ NodeFails(x) \/ (x # Worker /\ AllocThrows(x)) \/ Top(x) \/ Peek(x)
         \/ IdlePeek(x) \/ FreeHead(x) \/ (Walk(x) /\ status' = "running")
  PROVE  WholeInv'
<1>t. /\ Worker \in Actors /\ None \notin Heads /\ Nodes \cap Heads = {}
      /\ Bufs \cap (Nodes \cup Heads) = {}
  BY ListTypes
<1>w. UNCHANGED <<linked, mixed, count>>
  <2>1. ~Head(x) /\ ~SwapHead(x) /\ ~SetNext(x)
    BY DEF addEntry, Copy, Fetch, Alloc, Exchange, Node, NodeFails, AllocThrows, Top, Peek, IdlePeek,
           FreeHead, Walk, Head, SwapHead, SetNext
  <2>2. QED
    BY <2>1, HistoryKept
<1>1. /\ Others(x) /\ pc[x] \notin Links /\ pc'[x] \notin Links \cup {"swap head"}
      /\ UNCHANGED <<head, next, prev>>
      /\ \/ node'[x] \in {node[x], None}
         \/ node'[x] \in Nodes /\ mem[node'[x]] = "unused"
      /\ \A a \in Nodes \cup Heads : mem'[a] = "unused" => mem[a] = "unused"
  <2>1. CASE addEntry(x) \/ (Copy(x) /\ mem[cbuf[x]] = "live")
    BY <2>1, CopyFacts DEF Links, Copy, addEntry
  <2>2. CASE Fetch(x)
    BY <2>2, FetchFacts DEF Links
  <2>3. CASE Alloc(x)
    <3>1. \A a \in Nodes \cup Heads : mem'[a] = mem[a]
      BY <1>t, <2>3, AllocFacts DEF Turns, Addresses
    <3>2. QED
      BY <2>3, <3>1, AllocFacts DEF Links
  <2>4. CASE Exchange(x)
    BY <2>4, ExchangeFacts DEF Links
  <2>5. CASE Node(x)
    <3>1. PICK n \in Nodes : mem[n] = "unused" /\ Turns(n, "live") /\ node'[x] = n
      BY <2>5, NodeFacts
    <3>2. \A a \in Nodes \cup Heads : mem'[a] = "unused" => mem[a] = "unused"
      BY <3>1 DEF Turns, Addresses
    <3>3. QED
      BY <2>5, <3>1, <3>2, NodeFacts DEF Links
  <2>6. CASE NodeFails(x)
    BY <2>6, NodeFailsFacts DEF Links
  <2>7. CASE x # Worker /\ AllocThrows(x)
    BY <2>7, AllocThrowsFacts DEF Links
  <2>8. CASE Top(x) \/ Peek(x)
    BY <2>8, TopFacts DEF Links, Top, Peek
  <2>9. CASE IdlePeek(x)
    BY <2>9, IdlePeekFacts DEF Links
  <2>10. CASE FreeHead(x)
    <3>1. \A a \in Nodes \cup Heads : mem'[a] = "unused" => mem[a] = "unused"
      BY <1>t, <2>10, FreeHeadFacts DEF Turns, Addresses
    <3>2. QED
      BY <2>10, <3>1, FreeHeadFacts DEF Links
  <2>11. CASE Walk(x) /\ status' = "running"
    <3>1. \A a \in Nodes \cup Heads : mem'[a] = mem[a]
      BY <1>t, <2>11, WalkFacts DEF Turns, Addresses
    <3>2. QED
      BY <2>11, <3>1, WalkFacts DEF Links
  <2>12. QED
    BY <2>1, <2>2, <2>3, <2>4, <2>5, <2>6, <2>7, <2>8, <2>9, <2>10, <2>11
<1>2. \A h \in Heads : Coming(h)' => Coming(h)
  BY <1>t, <1>1 DEF Coming, Others
<1>3. QED
  BY <1>w, <1>1, <1>2, WholeKeep


(* The constructor's lists are empty. *)
LEMMA WholeStart ==
  ASSUME Init
  PROVE  WholeInv
<1>t. TypeOK /\ LabelsOK /\ Nodes \cap Heads = {}
  BY TypeStart, QueueAssumption
<1>1. /\ \A a \in Nodes \cup Heads : next[a] = a /\ prev[a] = a
      /\ \A h \in Heads : linked[h] = {}
      /\ \A y \in Actors : node[y] = None /\ pc[y] \in {"top", "idle"}
      /\ count = 0 /\ mixed = {}
  BY DEF Init
<1>2. \A h : Linking(h) = {}
  BY <1>1 DEF Linking
<1>3. OwnNodes
  BY <1>1 DEF OwnNodes, Owns, Links
<1>4. NewEmpty
  BY <1>1, <1>2 DEF NewEmpty
<1>5. Unmixed
  <2>1. \A h \in Heads : Reach(h) /\ LastOf(h, prev[h])
    BY <1>1 DEF Reach, LastOf
  <2>2. QED
    BY <1>1, <2>1 DEF Unmixed, Links
<1>6. CountOK
  <2>1. Cardinality({}) = 0
    BY FS_EmptySet
  <2>2. head # None => head \in Heads
    BY <1>t, LocalTypes
  <2>3. QED
    BY <1>1, <1>2, <2>1, <2>2 DEF CountOK
<1>7. QED
  BY <1>3, <1>4, <1>5, <1>6 DEF WholeInv

(* Every step keeps the lists whole at which nothing overlapped. *)
LEMMA WholeNext ==
  ASSUME TypeOK, LabelsOK, ListInv, WholeInv, [Next]_vars
  PROVE  WholeInv'
<1>1. ASSUME UNCHANGED <<head, count, mem, next, prev, mixed, linked, pc, new, node, hd, pv>>
      PROVE  WholeInv'
  <2>1. \A h : Linking(h)' = Linking(h)
    BY <1>1 DEF Linking
  <2>2. OwnNodes'
    BY <1>1, <2>1 DEF WholeInv, OwnNodes, Owns
  <2>3. NewEmpty' /\ CountOK'
    BY <1>1, <2>1 DEF WholeInv, NewEmpty, Coming, CountOK
  <2>4. \A h : Chain(h)' = Chain(h)
    BY <1>1 DEF Chain, Closed
  <2>5. Unmixed'
    BY <1>1, <2>1, <2>4 DEF WholeInv, Unmixed, Reach, LastOf, Alone
  <2>6. QED
    BY <2>2, <2>3, <2>5 DEF WholeInv
<1>2. CASE UNCHANGED vars
  BY <1>1, <1>2 DEF vars, list, locals
<1>3. CASE Next /\ ~UNCHANGED vars
  <2>1. /\ status = "running"
        /\ \/ \E x \in Actors : Acts(x)
           \/ Interrupt
           \/ \E e \in {"carry", "late copy", "terminate", "freed head", "wild pointer",
                        "double free"} : Error(e)
    BY <1>3, NextCases
  <2>2. ASSUME NEW x \in Actors, Acts(x)
        PROVE  WholeInv'
    <3>1. CASE Head(x) \/ SetNode(x) \/ NewHead(x) \/ SwapHead(x)
      BY <3>1, WholeHead, WholeSetNode, WholeNewHead, WholeSwapHead
    <3>2. CASE \/ ReadPrev(x) /\ mem[hd[x]] = "live"
               \/ SetPrev(x) /\ mem[hd[x]] = "live"
               \/ SetNext(x) /\ mem[pv[x]] = "live"
      BY <3>2, WholeReadPrev, WholeSetPrev, WholeSetNext
    <3>3. QED
      BY <2>1, <2>2, <3>1, <3>2, WholeOther DEF Acts
  <2>3. CASE Interrupt
    BY <1>1, <2>3 DEF Interrupt, list, locals
  <2>4. CASE \E e \in {"carry", "late copy", "terminate", "freed head", "wild pointer",
                       "double free"} : Error(e)
    BY <1>1, <2>4 DEF Error, list, locals
  <2>5. QED
    BY <2>1, <2>2, <2>3, <2>4
<1>4. QED
  BY <1>2, <1>3

(* For any number of threads: a list at which no two operations overlapped *)
(* holds exactly the nodes that were put there, so that the worker finds   *)
(* every one of them; and the count below the current head is the number   *)
(* of nodes that are in its list or being put there.                       *)
THEOREM ListsAreWhole == Spec => []ListWhole
<1>1. Init => TypeOK /\ LabelsOK /\ SlotInv /\ ListInv /\ WholeInv
  BY TypeStart, SlotStart, ListStart, WholeStart
<1>2. TypeOK /\ LabelsOK /\ SlotInv /\ ListInv /\ WholeInv /\ [Next]_vars
      => TypeOK' /\ LabelsOK' /\ SlotInv' /\ ListInv' /\ WholeInv'
  BY TypeNext, SlotNext, ListNext, WholeNext
<1>3. TypeOK /\ LabelsOK /\ WholeInv => ListWhole
  <2>1. SUFFICES ASSUME TypeOK, LabelsOK, WholeInv
                 PROVE  ListWhole
    OBVIOUS
  <2>2. ASSUME NEW h \in Heads, h \notin mixed
        PROVE  Chain(h) = linked[h]
    BY <2>1, <2>2, ReachExact DEF WholeInv, Unmixed
  <2>3. ASSUME NEW h \in Heads, h = head
        PROVE  count = Cardinality(linked[h]) + Cardinality(Linking(h))
    BY <2>1, <2>3, QueueAssumption DEF WholeInv, CountOK
  <2>4. QED
    BY <2>2, <2>3 DEF ListWhole
<1>4. QED
  BY <1>1, <1>2, <1>3, PTL DEF Spec
=============================================================================
