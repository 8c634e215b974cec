---------------------------- MODULE BblogProofs ----------------------------
(***************************************************************************)
(* Proofs about Bblog, for every number of threads, signals, forks and     *)
(* records and every size of buffer: its variables keep their types, and   *)
(* flush_buffer() has a buffer to itself when it writes and frees it.      *)
(***************************************************************************)
EXTENDS Bblog, FiniteSetTheorems, TLAPS

-----------------------------------------------------------------------------
(* Helpers.                                                                *)

(* The fetch-and-add on a packed word yields a packed word. *)
LEMMA AddType ==
  ASSUME NEW w \in Words, NEW s \in Int, NEW r \in Int
  PROVE  /\ add(w, s, r) \in Words
         /\ add(w, s, r).ptr = w.ptr
         /\ add(w, s, r).ref = w.ref + r
<1>1. IdxMod \in Nat /\ IdxMod > 0
  BY BblogAssumption
<1>2. /\ (w.idx + s) % IdxMod \in 0 .. IdxMod - 1
      /\ (w.idx + s) \div IdxMod \in Int
  BY <1>1 DEF Words
<1>3. QED
  BY <1>2 DEF add, Words

(* A fresh word is a packed word. *)
LEMMA PackType ==
  ASSUME NEW p \in Addrs \cup {NULL}, NEW o \in Int, NEW i \in 0 .. IdxMod - 1
  PROVE  pack_buffer(p, o, i) \in Words
BY DEF pack_buffer, Words

(* Whatever a buffer's memory holds at first is a packed word. *)
LEMMA WordTypes ==
  /\ Zero \in Words
  /\ \A p \in Addrs : \A w \in Garbage(p) : w \in Words /\ (w.ref = 0 \/ w.ref = -1)
<1>1. 0 \in 0 .. IdxMod - 1
  BY BblogAssumption
<1>2. Zero \in Words
  BY <1>1 DEF Zero, Words
<1>3. ASSUME NEW p \in Addrs, NEW w \in Garbage(p)
      PROVE  w \in Words /\ (w.ref = 0 \/ w.ref = -1)
  BY <1>1, <1>2 DEF Garbage, Zero, pack_buffer, Words
<1>4. QED
  BY <1>2, <1>3

(* The locals an actor starts with. *)
LEMMA LocalType ==
  ASSUME NEW r \in Nat, NEW s \in Nat, NEW p \in Addrs \cup {NULL}
  PROVE  Local(r, s, p) \in Locals
BY DEF Local, Locals

(* Reading proc_pibr into a local variable. *)
LEMMA LoadType ==
  ASSUME TypeOK, NEW a \in Actors, Load(a)
  PROVE  th' \in [Actors -> Locals]
<1>1. th[a].rec \in Nat /\ th[a].size \in Nat
  BY DEF TypeOK, Locals
<1>2. Local(th[a].rec, th[a].size, procPibr) \in Locals
  BY <1>1, LocalType DEF TypeOK
<1>3. QED
  BY <1>2 DEF TypeOK, Load

(* Where an actor goes after swap_and_flush_buffer(), and what it keeps. *)
LEMMA ReturnType ==
  ASSUME TypeOK, NEW a \in Actors
  PROVE  /\ Idle \in Locals
         /\ Returned(th[a]) \in Locals
         /\ ReturnPc(a) \in {"sleep", "none", "done", "load", "idle"}
         /\ \A p \in Addrs \cup {NULL} : Freed(p, a) \in [Actors -> Locals]
<1>1. th[a] \in Locals
  BY DEF TypeOK
<1>2. Idle \in Locals
  BY DEF Idle, Local, Locals
<1>3. Returned(th[a]) \in Locals
  BY <1>1 DEF Returned, Local, Locals
<1>4. ReturnPc(a) \in {"sleep", "none", "done", "load", "idle"}
  BY DEF ReturnPc
<1>5. ASSUME NEW p \in Addrs \cup {NULL} PROVE Freed(p, a) \in [Actors -> Locals]
  <2>1. ASSUME NEW b \in Actors
        PROVE  [th[b] EXCEPT !.stale = @ \/ th[b].cur = p] \in Locals
    <3>1. th[b] \in Locals
      BY DEF TypeOK
    <3>2. (th[b].stale \/ th[b].cur = p) \in BOOLEAN
      OBVIOUS
    <3>3. QED
      BY <3>1, <3>2 DEF Locals
  <2>2. QED
    BY <1>3, <2>1 DEF Freed
<1>6. QED
  BY <1>2, <1>3, <1>4, <1>5

(* The bytes to give back are a number in every step. *)
LEMMA HistoryType ==
  ASSUME debt \in [Addrs -> Int], torn \subseteq Addrs, th \in [Actors -> Locals],
         NEW a \in Actors, FetchAndAdd(a) \/ Undo(a) \/ InitBuffer(a)
  PROVE  debt' \in [Addrs -> Int] /\ torn' \subseteq Addrs
<1>n. PICK n \in Int : n = th[a].size
  BY DEF Locals
<1>1. \A p, q \in Addrs : debt[q] \in Int /\ debt[p] + n \in Int /\ debt[p] - n \in Int
  OBVIOUS
<1>2. CASE FetchAndAdd(a)
  <2>1. PICK p : /\ p \in Addrs
                 /\ debt' = debt \/ debt' = [debt EXCEPT ![p] = @ + n]
                 /\ torn' = torn \/ torn' = torn \cup {p}
    BY <1>2, <1>n DEF FetchAndAdd, Reserve, Sound, Locals
  <2>2. QED
    BY <1>1, <2>1
<1>3. CASE Undo(a)
  <2>1. PICK p : p \in Addrs /\ debt' = [debt EXCEPT ![p] = @ - n] /\ torn' = torn
    BY <1>3, <1>n DEF Undo, Sound, Locals
  <2>2. QED
    BY <1>1, <2>1
<1>4. CASE InitBuffer(a)
  <2>1. PICK p : debt' = [debt EXCEPT ![p] = 0] /\ torn' = torn \ {p}
    BY <1>4 DEF InitBuffer
  <2>2. 0 \in Int /\ DOMAIN debt' = Addrs
    BY <2>1
  <2>3. ASSUME NEW q \in Addrs PROVE debt'[q] \in Int
    <3>1. debt'[q] = IF q = p THEN 0 ELSE debt[q]
      BY <2>1
    <3>2. QED
      BY <1>1, <2>2, <3>1
  <2>4. debt' \in [Addrs -> Int]
    BY <2>1, <2>3
  <2>5. QED
    BY <2>1, <2>4
<1>5. QED
  BY <1>2, <1>3, <1>4

-----------------------------------------------------------------------------
(* Types.                                                                  *)

(* The state bblog_init() leaves behind has its types.                     *)
LEMMA TypeInit == Init => TypeOK
<1> SUFFICES ASSUME Init PROVE TypeOK
  OBVIOUS
<1>1. PrefixLen \in 0 .. IdxMod - 1
  BY BblogAssumption
<1>2. \A p \in Addrs : \A w \in FirstWord(p) : w \in Words /\ w.pid \in Nat
  BY <1>1, WordTypes, PackType DEF FirstWord, Garbage, Zero, pack_buffer
<1>3. /\ procPibr \in Addrs \cup {NULL} /\ header \in [Addrs -> Words]
      /\ alive \subseteq Addrs /\ procid \in Nat
  BY <1>2, WordTypes DEF Init
<1>4. th \in [Actors -> Locals]
  BY DEF Init, Idle, Local, Locals
<1>5. pc \in [Actors -> Pcs]
  BY DEF Init, Pcs
<1>6. log \in Seq(Messages)
  BY DEF Init
<1>7. debt \in [Addrs -> Int] /\ torn \subseteq Addrs
  BY DEF Init
<1>8. QED
  BY <1>3, <1>4, <1>5, <1>6, <1>7 DEF Init, TypeOK

(* The steps of _blog() keep the types; the sums stay in the idx field.    *)
LEMMA TypeBlog ==
  ASSUME TypeOK, NEW t \in Actors, Blog(t)
  PROVE  TypeOK'
<1> USE DEF TypeOK, Goto, buffers, process, history
<1>0. th[t] \in Locals /\ th[t].cur \in Addrs \cup {NULL}
  BY DEF Locals
<1>1. CASE LoadProcPibr(t)
  BY <1>1, LoadType DEF LoadProcPibr, Pcs, Derefs
<1>2. CASE FetchAndAdd(t)
  <2>1. /\ th[t].cur \in Addrs /\ th[t].size \in Int
        /\ header[th[t].cur] \in Words
    BY <1>0, <1>2 DEF FetchAndAdd, Sound, Locals
  <2>2. add(header[th[t].cur], th[t].size, 1) \in Words
    BY <2>1, AddType
  <2>3. header[th[t].cur].idx \in Nat
    BY <2>1, BblogAssumption DEF Words
  <2>4. header' \in [Addrs -> Words]
    BY <1>2, <2>1, <2>2 DEF FetchAndAdd
  <2>5. th' \in [Actors -> Locals]
    BY <1>0, <1>2, <2>3 DEF FetchAndAdd, Locals
  <2>6. pc' \in [Actors -> Pcs]
    BY <1>2 DEF FetchAndAdd, Pcs, Derefs
  <2>7. debt' \in [Addrs -> Int] /\ torn' \subseteq Addrs
    BY <1>2, HistoryType
  <2>8. QED
    BY <1>2, <2>4, <2>5, <2>6, <2>7 DEF FetchAndAdd
<1>3. CASE FetchAndAddFault(t)
  BY <1>3 DEF FetchAndAddFault
<1>4. CASE Memcpy(t)
  <2>1. [at |-> th[t].idx, len |-> th[t].size, rec |-> th[t].rec, by |-> pid] \in Segs
    BY <1>0 DEF Locals, Segs
  <2>2. QED
    BY <1>0, <1>4, <2>1 DEF Memcpy, Sound, Pcs, Derefs
<1>5. CASE Unref(t)
  <2>1. th[t].cur \in Addrs /\ header[th[t].cur] \in Words
    BY <1>0, <1>5 DEF Unref, Sound
  <2>2. add(header[th[t].cur], 0, -1) \in Words
    BY <2>1, AddType
  <2>3. QED
    BY <1>5, <2>1, <2>2, ReturnType DEF Unref, Pcs
<1>6. CASE Undo(t)
  <2>1. /\ th[t].cur \in Addrs /\ -th[t].size \in Int
        /\ header[th[t].cur] \in Words
    BY <1>0, <1>6 DEF Undo, Sound, Locals
  <2>2. add(header[th[t].cur], -th[t].size, -1) \in Words
    BY <2>1, AddType
  <2>3. debt' \in [Addrs -> Int] /\ torn' \subseteq Addrs
    BY <1>6, HistoryType
  <2>4. QED
    BY <1>6, <2>1, <2>2, <2>3 DEF Undo, Pcs
<1>7. QED
  BY <1>1, <1>2, <1>3, <1>4, <1>5, <1>6 DEF Blog

(* The steps of swap_buffers() keep the types.                             *)
LEMMA TypeSwap ==
  ASSUME TypeOK, NEW a \in Actors,
         SwapCheck(a) \/ Alloc(a) \/ AllocFail(a) \/ InitBuffer(a) \/ SwapCas(a)
  PROVE  TypeOK'
<1> USE DEF TypeOK, Goto, Return, buffers, process, history
<1>0. /\ th[a] \in Locals /\ th[a].cur \in Addrs \cup {NULL}
      /\ th[a].new \in Addrs \cup {NULL}
  BY DEF Locals
<1>r. /\ ReturnPc(a) \in Pcs /\ Returned(th[a]) \in Locals
      /\ \A p \in Addrs \cup {NULL} : Freed(p, a) \in [Actors -> Locals]
  BY ReturnType DEF Pcs
<1>1. CASE SwapCheck(a)
  <2>1. [th EXCEPT ![a].stale = FALSE] \in [Actors -> Locals]
    BY <1>0 DEF Locals
  <2>2. th' \in [Actors -> Locals]
    BY <1>1, <1>r, <2>1 DEF SwapCheck
  <2>3. pc' \in [Actors -> Pcs] /\ victim' \in Actors \cup {NULL}
    BY <1>1, <1>r DEF SwapCheck, Pcs
  <2>4. QED
    BY <1>1, <2>2, <2>3 DEF SwapCheck
<1>2. CASE Alloc(a)
  <2>1. PICK p \in Addrs \ alive : alive' = alive \cup {p} /\ th' = [th EXCEPT ![a].new = p]
    BY <1>2 DEF Alloc
  <2>2. th' \in [Actors -> Locals]
    BY <1>0, <2>1 DEF Locals
  <2>3. QED
    BY <1>2, <2>1, <2>2 DEF Alloc, Pcs
<1>3. CASE AllocFail(a)
  <2>1. th' \in [Actors -> Locals]
    BY <1>3, <1>r DEF AllocFail
  <2>2. pc' \in [Actors -> Pcs] /\ victim' \in Actors \cup {NULL}
    BY <1>3, <1>r DEF AllocFail, Pcs, Derefs
  <2>3. QED
    BY <1>3, <2>1, <2>2 DEF AllocFail
<1>4. CASE InitBuffer(a)
  <2>1. header' \in [Addrs -> Words] /\ procid' \in Nat
    <3>1. CASE procid' = pid /\ header' = [header EXCEPT ![th[a].new] =
                                            pack_buffer(th[a].new, pid, PrefixLen)]
      <4>1. PrefixLen \in 0 .. IdxMod - 1
        BY BblogAssumption
      <4>2. pack_buffer(th[a].new, pid, PrefixLen) \in Words
        <5>1. pid \in Int
          OBVIOUS
        <5>2. QED
          BY <1>0, <4>1, <5>1, PackType
      <4>3. QED
        BY <3>1, <4>2
    <3>2. CASE /\ UNCHANGED procid
               /\ \E w \in Garbage(th[a].new) : header' = [header EXCEPT ![th[a].new] = w]
      <4>1. PICK w \in Garbage(th[a].new) : header' = [header EXCEPT ![th[a].new] = w]
        BY <3>2
      <4>2. 0 \in 0 .. IdxMod - 1
        BY BblogAssumption
      <4>3. w \in Words
        BY <1>0, <4>1, <4>2 DEF Garbage, Zero, Words
      <4>4. QED
        BY <3>2, <4>1, <4>3
    <3>3. QED
      BY <1>4, <3>1, <3>2 DEF InitBuffer
  <2>2. debt' \in [Addrs -> Int] /\ torn' \subseteq Addrs
    BY <1>4, HistoryType
  <2>3. QED
    BY <1>4, <2>1, <2>2 DEF InitBuffer, Pcs
<1>5. CASE SwapCas(a)
  <2>1. Local(th[a].rec, th[a].size, th[a].cur) \in Locals
    BY <1>0, LocalType DEF Locals
  <2>2. th' \in [Actors -> Locals]
    BY <1>0, <1>5, <1>r, <2>1 DEF SwapCas
  <2>3. pc' \in [Actors -> Pcs] /\ victim' \in Actors \cup {NULL}
    BY SMTT(60), <1>5, <1>r DEF SwapCas, Pcs, Derefs
  <2>4. procPibr' \in Addrs \cup {NULL} /\ alive' \subseteq Addrs
    BY <1>0, <1>5 DEF SwapCas
  <2>5. QED
    BY <1>5, <2>2, <2>3, <2>4 DEF SwapCas
<1>6. QED
  BY <1>1, <1>2, <1>3, <1>4, <1>5

(* The steps of flush_buffer() keep the types.                             *)
LEMMA TypeFlush ==
  ASSUME TypeOK, NEW a \in Actors,
         \/ FlushReadPid(a) \/ FlushReadIdx(a) \/ FlushCas(a) \/ Spin(a) \/ FlushWrite(a)
  PROVE  TypeOK'
<1> USE DEF TypeOK, Goto, Return, buffers, process, history
<1>0. th[a] \in Locals /\ th[a].cur \in Addrs \cup {NULL}
  BY DEF Locals
<1>r. /\ ReturnPc(a) \in Pcs /\ Returned(th[a]) \in Locals
      /\ \A p \in Addrs \cup {NULL} : Freed(p, a) \in [Actors -> Locals]
  BY ReturnType DEF Pcs
<1>w. Sound(a) => /\ th[a].cur \in Addrs /\ header[th[a].cur] \in Words
                  /\ header[th[a].cur].pid \in Int /\ header[th[a].cur].idx \in Nat
  BY <1>0, BblogAssumption DEF Sound, Words
<1>1. CASE FlushReadPid(a)
  <2>1. [th EXCEPT ![a].owner = header[th[a].cur].pid] \in [Actors -> Locals]
    BY <1>0, <1>1, <1>w DEF FlushReadPid, Locals
  <2>2. th' \in [Actors -> Locals]
    BY <1>1, <1>r, <2>1 DEF FlushReadPid
  <2>3. pc' \in [Actors -> Pcs] /\ victim' \in Actors \cup {NULL}
    BY <1>1, <1>r DEF FlushReadPid, Pcs, Derefs
  <2>4. QED
    BY <1>1, <2>2, <2>3 DEF FlushReadPid
<1>2. CASE FlushReadIdx(a)
  <2>1. [th EXCEPT ![a].idx = header[th[a].cur].idx] \in [Actors -> Locals]
    BY <1>0, <1>2, <1>w DEF FlushReadIdx, Locals
  <2>2. th' \in [Actors -> Locals]
    BY <1>2, <1>r, <2>1 DEF FlushReadIdx
  <2>3. pc' \in [Actors -> Pcs] /\ victim' \in Actors \cup {NULL}
    BY <1>2, <1>r DEF FlushReadIdx, Pcs, Derefs
  <2>4. QED
    BY <1>2, <2>2, <2>3 DEF FlushReadIdx
<1>3. CASE FlushCas(a)
  BY <1>3, WordTypes DEF FlushCas, Pcs, Derefs
<1>4. CASE Spin(a)
  BY <1>4 DEF Spin, vars
<1>5. CASE FlushWrite(a)
  <2>1. th[a].cur \in Addrs
    BY <1>5, <1>w DEF FlushWrite
  <2>2. {s \in segs[th[a].cur] : s.at + s.len <= th[a].idx} \in SUBSET Segs
    BY <2>1
  <2>3. [pid |-> th[a].owner, by |-> pid, end |-> th[a].idx, torn |-> th[a].cur \in torn,
         segs |-> {s \in segs[th[a].cur] : s.at + s.len <= th[a].idx}] \in Messages
    BY <1>0, <2>2 DEF Locals, Messages
  <2>4. log' \in Seq(Messages)
    BY <1>5, <2>3 DEF FlushWrite
  <2>5. segs' \in [Addrs -> SUBSET Segs] /\ alive' \subseteq Addrs
    BY <1>5, <2>1 DEF FlushWrite
  <2>6. QED
    BY <1>5, <1>r, <2>1, <2>4, <2>5 DEF FlushWrite
<1>6. QED
  BY <1>1, <1>2, <1>3, <1>4, <1>5

(* The steps of the flusher, of exit and a fatal access keep the types.    *)
LEMMA TypeOther ==
  ASSUME TypeOK, NEW a \in Actors,
         FlusherThread(a) \/ Exit(a) \/ BadAccess(a)
  PROVE  TypeOK'
<1> USE DEF TypeOK, Goto, buffers, process, history
<1>0. Idle \in Locals
  BY ReturnType
<1>1. CASE FlWake(a)
  BY <1>1 DEF FlWake, Pcs
<1>2. CASE FlPeekPtr(a)
  BY <1>2, LoadType DEF FlPeekPtr, Pcs, Derefs
<1>3. CASE FlPeek(a)
  BY <1>0, <1>3 DEF FlPeek, Pcs
<1>4. CASE FlReload(a)
  BY <1>4, LoadType DEF FlReload, Pcs
<1>5. CASE ExitJoin(a)
  <2>1. CASE Load(a) /\ Goto(a, "zero") /\ UNCHANGED status
    BY <1>5, <2>1, LoadType DEF ExitJoin, Pcs, Derefs
  <2>2. CASE status' = "doublefree" /\ UNCHANGED <<pc, th>>
    BY <1>5, <2>2 DEF ExitJoin
  <2>3. QED
    BY <1>5, <2>1, <2>2 DEF ExitJoin
<1>6. CASE ExitZero(a)
  BY <1>0, <1>6, WordTypes DEF ExitZero, Pcs, Derefs
<1>7. CASE ProcessExit(a)
  BY <1>7 DEF ProcessExit
<1>8. CASE BadAccess(a)
  BY <1>8 DEF BadAccess
<1>9. QED
  BY <1>1, <1>2, <1>3, <1>4, <1>5, <1>6, <1>7, <1>8 DEF FlusherThread, Exit

(* Calls by the application, exit and fork keep the types.                 *)
LEMMA TypeCall ==
  ASSUME TypeOK, NEW a \in Actors, Call(a)
  PROVE  TypeOK'
<1> USE DEF TypeOK, Goto, buffers, process, history
<1>0. Idle \in Locals
  BY ReturnType
<1>1. ASSUME NEW s \in Sizes, bblog(a, s) PROVE TypeOK'
  <2>1. Local(cntr + 1, s, NULL) \in Locals
    BY LocalType, BblogAssumption
  <2>2. QED
    BY <1>1, <2>1 DEF bblog, Pcs
<1>2. CASE BblogInit(a)
  BY <1>2 DEF BblogInit, Pcs
<1>3. CASE Spawn(a)
  BY <1>3 DEF Spawn, Pcs
<1>4. CASE ExitBegin(a)
  BY <1>4, BblogAssumption DEF ExitBegin, Pcs
<1>5. CASE Fork(a)
  <2>1. pc' \in [Actors -> Pcs]
    BY <1>5 DEF Fork, Pcs
  <2>2. th' \in [Actors -> Locals]
    BY <1>0, <1>5 DEF Fork
  <2>3. QED
    BY <1>5, <2>1, <2>2 DEF Fork
<1>6. QED
  BY <1>1, <1>2, <1>3, <1>4, <1>5 DEF Call

(* Every step keeps the types.                                             *)
LEMMA TypeNext == TypeOK /\ [Next]_vars => TypeOK'
<1> SUFFICES ASSUME TypeOK, [Next]_vars PROVE TypeOK'
  OBVIOUS
<1>1. ASSUME NEW a \in Actors, Step(a) PROVE TypeOK'
  BY <1>1, TypeBlog, TypeSwap, TypeFlush, TypeOther DEF Step, SwapAndFlush
<1>2. ASSUME NEW a \in Actors, Call(a) PROVE TypeOK'
  BY <1>2, TypeCall
<1>3. ASSUME NEW v \in Threads \cup {Flusher}, Signal(v) PROVE TypeOK'
  <2>1. Handler \in Actors /\ v \in Actors
    BY DEF Actors
  <2>2. th' \in [Actors -> Locals]
    BY <1>3, <2>1, LoadType DEF Signal
  <2>3. pc' \in [Actors -> Pcs] /\ victim' \in Actors \cup {NULL} /\ sigs' \in Nat
    BY <1>3, <2>1 DEF TypeOK, Signal, Goto, Pcs
  <2>4. QED
    BY <1>3, <2>2, <2>3 DEF TypeOK, Signal, buffers, history
<1>4. CASE Tick
  BY <1>4 DEF Tick, TypeOK, buffers, process, history
<1>5. CASE UNCHANGED vars
  BY <1>5 DEF TypeOK, vars
<1>6. QED
  BY <1>1, <1>2, <1>3, <1>4, <1>5 DEF Next, Rest

(* The variables of Bblog keep their types: the steps of bblog.c, carries  *)
(* and borrows of the packed word included.  The other proofs rest on it.  *)
THEOREM TypeCorrect == Spec => []TypeOK
<1>1. QED
  BY TypeInit, TypeNext, PTL DEF Spec

-----------------------------------------------------------------------------
(* Exclusive flush.                                                        *)

(* There are finitely many actors. *)
LEMMA ActorsFinite == IsFiniteSet(Actors)
<1>1. IsFiniteSet({Flusher, Handler})
  <2>1. IsFiniteSet({}) /\ {Flusher, Handler} = ({} \cup {Flusher}) \cup {Handler}
    BY FS_EmptySet
  <2>2. QED
    BY <2>1, FS_AddElement, ZenonT(60)
<1>2. QED
  BY <1>1, BblogAssumption, FS_Union DEF Actors

(* The set of holders of a buffer is finite. *)
LEMMA HoldersFinite == \A p : IsFiniteSet(Holders(p))
BY ActorsFinite, FS_Subset DEF Holders

(* A step of one actor that leaves the buffers alone, takes no reference   *)
(* and starts no flush of a published buffer.                              *)
LEMMA Frame ==
  ASSUME TypeOK, TypeOK', FlushInv, NEW a \in Actors,
         header' = header, alive' = alive, procPibr' = procPibr \/ procPibr' = NULL,
         \A b \in Actors : b # a => pc'[b] = pc[b] /\ th'[b] = th[b],
         pc[a] \notin Holding, pc'[a] \notin Holding \cup Making \cup {"write"},
         Sound(a)' => \/ th'[a].cur = procPibr
                      \/ Sound(a) /\ th'[a].cur = th[a].cur,
         pc'[a] \in Flushing =>
           \/ procPibr' = NULL
           \/ pc[a] \in Flushing /\ Sound(a) /\ th'[a].cur = th[a].cur
  PROVE  FlushInv'
<1> USE DEF FlushInv
<1>n. NULL \notin Addrs
  BY BblogAssumption
<1>1. PointersAlive'
  BY DEF PointersAlive, Sound
<1>2. NewPrivate'
  <2>1. alive \subseteq Addrs
    BY DEF TypeOK
  <2>2. ASSUME NEW x \in Actors, pc'[x] \in Making
        PROVE  /\ x # a /\ pc[x] \in Making /\ th'[x].new = th[x].new
               /\ th[x].new \in alive /\ th[x].new # procPibr /\ th[x].new # NULL
    BY <1>n, <2>1, <2>2 DEF NewPrivate
  <2>3. ASSUME NEW x \in Actors, pc'[x] \in Making, NEW b \in Actors
        PROVE  /\ Sound(b)' => th'[b].cur # th[x].new
               /\ b # x /\ pc'[b] \in Making => th'[b].new # th[x].new
    BY <2>2, <2>3 DEF NewPrivate, Sound
  <2>4. QED
    BY <2>2, <2>3 DEF NewPrivate
<1>3. SwappedOut'
  BY DEF SwappedOut, Sound
<1>4. WriteZeroed'
  BY DEF WriteZeroed, Sound
<1>5. RefsCounted'
  <2>1. \A p : Holders(p)' = Holders(p)
    BY DEF Holders, Sound
  <2>2. QED
    BY <2>1 DEF RefsCounted
<1>6. ExclusiveFlush'
  BY DEF ExclusiveFlush, Sound
<1>7. QED
  BY <1>1, <1>2, <1>3, <1>4, <1>5, <1>6

(* The flush invariant holds after bblog_init().                           *)
LEMMA FlushInit == Init => FlushInv
<1> SUFFICES ASSUME Init PROVE FlushInv
  OBVIOUS
<1>1. \A a \in Actors : ~Sound(a) /\ pc[a] \notin Holding \cup Making \cup Flushing
  BY DEF Init, Sound, Idle, Local, Holding, Making, Flushing
<1>2. \A p : Holders(p) = {}
  BY <1>1 DEF Holders
<1>3. RefsCounted
  <2>1. \A p \in alive : GoodPtr(header[p]) => header[p].ref >= 0
    BY DEF GoodPtr
  <2>2. QED
    BY <1>2, <2>1, FS_EmptySet DEF RefsCounted
<1>4. PointersAlive
  BY <1>1 DEF Init, PointersAlive
<1>5. QED
  BY <1>1, <1>3, <1>4 DEF FlushInv, NewPrivate, SwappedOut, WriteZeroed, ExclusiveFlush,
     Flushing

(* _blog(): the reference is counted before it is used, and a buffer that  *)
(* is being written has no pointer in its word to hand out.                *)
LEMMA FlushBlog ==
  ASSUME TypeOK, TypeOK', FlushInv, NEW t \in Actors, Blog(t)
  PROVE  FlushInv'
<1> USE DEF FlushInv, Goto, buffers
<1>1. CASE LoadProcPibr(t)
  <2>1. th'[t].cur = procPibr
    BY <1>1 DEF LoadProcPibr, Load, Local, TypeOK
  <2>2. /\ \A b \in Actors : b # t => pc'[b] = pc[b] /\ th'[b] = th[b]
        /\ pc[t] = "load" /\ pc'[t] = "add"
    BY <1>1 DEF LoadProcPibr, Load, TypeOK
  <2>3. QED
    BY <1>1, <2>1, <2>2, Frame DEF LoadProcPibr, Holding, Making, Flushing
<1>2. CASE FetchAndAdd(t)
  <2>0. PICK p \in Addrs : p = th[t].cur
    BY <1>2 DEF FetchAndAdd, Sound, TypeOK, Locals
  <2>w. PICK w : w = header[p]
    OBVIOUS
  <2>1. /\ Sound(t) /\ GoodPtr(w) /\ p \in Addrs /\ p \in alive /\ w \in Words
        /\ th[t].size \in Int
    BY <1>2, <2>0, <2>w, SMTT(60) DEF FetchAndAdd, Sound, PointersAlive, TypeOK, Locals
  <2>2. /\ header' = [header EXCEPT ![p] = add(w, th[t].size, 1)]
        /\ add(w, th[t].size, 1).ptr = w.ptr
        /\ add(w, th[t].size, 1).ref = w.ref + 1
    BY <1>2, <2>0, <2>w, <2>1, AddType DEF FetchAndAdd
  <2>3. /\ procPibr' = procPibr /\ alive' = alive
        /\ \A b \in Actors : /\ th'[b].cur = th[b].cur /\ th'[b].new = th[b].new
                             /\ th'[b].stale = th[b].stale
                             /\ b # t => pc'[b] = pc[b]
        /\ pc[t] = "add" /\ pc'[t] \in {"copy", "undo"}
    BY <1>2, ZenonT(60) DEF FetchAndAdd, TypeOK, Locals
  <2>4. \A q \in Addrs : header'[q].ptr = header[q].ptr
    BY <2>w, <2>1, <2>2 DEF TypeOK
  <2>5. \A b \in Actors : Sound(b)' = Sound(b) /\ (Sound(b) => th[b].cur \in Addrs)
    BY <2>3 DEF Sound, TypeOK, Locals
  <2>6. \A b \in Actors : pc[b] = "write" /\ Sound(b) => th[b].cur # p
    BY <2>w, <2>1 DEF WriteZeroed, GoodPtr
  <2>7. PointersAlive' /\ NewPrivate' /\ SwappedOut' /\ WriteZeroed'
    BY <2>3, <2>4, <2>5 DEF PointersAlive, NewPrivate, SwappedOut, WriteZeroed, Making,
       Flushing
  <2>8. ExclusiveFlush'
    BY <2>0, <2>3, <2>5, <2>6 DEF ExclusiveFlush, Holding
  <2>9. RefsCounted'
    <3>1. Holders(p)' = Holders(p) \cup {t} /\ t \notin Holders(p)
      BY <2>0, <2>1, <2>3, <2>5 DEF Holders, Holding
    <3>2. \A q \in Addrs : q # p => Holders(q)' = Holders(q)
      BY <2>0, <2>3, <2>5 DEF Holders, Holding
    <3>3. Cardinality(Holders(p)') = Cardinality(Holders(p)) + 1
      BY <3>1, HoldersFinite, FS_AddElement
    <3>4. Cardinality(Holders(p)) \in Nat
      BY HoldersFinite, FS_CardinalityType
    <3>5. header'[p].ref >= Cardinality(Holders(p)')
      <4>1. w.ref \in Int /\ w.ref >= Cardinality(Holders(p))
        BY <2>w, <2>1 DEF RefsCounted, Words
      <4>2. header'[p].ref = w.ref + 1
        BY <2>1, <2>2 DEF TypeOK
      <4>3. QED
        BY <3>3, <3>4, <4>1, <4>2
    <3>6. ASSUME NEW q \in alive, q # p, GoodPtr(header'[q])
          PROVE  header'[q].ref >= Cardinality(Holders(q)')
      BY <2>1, <2>2, <3>2, <3>6 DEF RefsCounted, TypeOK
    <3>7. QED
      BY <2>3, <3>5, <3>6 DEF RefsCounted
  <2>10. QED
    BY <2>7, <2>8, <2>9
<1>3. CASE FetchAndAddFault(t)
  BY <1>3 DEF FetchAndAddFault, PointersAlive, NewPrivate, SwappedOut, WriteZeroed,
     RefsCounted, ExclusiveFlush, Holders, Sound
<1>4. CASE Memcpy(t)
  <2>1. /\ procPibr' = procPibr /\ alive' = alive /\ header' = header /\ th' = th
        /\ \A b \in Actors : b # t => pc'[b] = pc[b]
        /\ pc[t] = "copy" /\ pc'[t] = "unref"
    BY <1>4 DEF Memcpy, TypeOK
  <2>2. \A q : Holders(q)' = Holders(q)
    BY <2>1 DEF Holders, Sound, Holding
  <2>3. QED
    BY <2>1, <2>2 DEF PointersAlive, NewPrivate, SwappedOut, WriteZeroed,
       RefsCounted, ExclusiveFlush, Sound, Holding, Making, Flushing
<1>5. ASSUME Unref(t) \/ Undo(t) PROVE FlushInv'
  <2>0. PICK p \in Addrs : p = th[t].cur
    BY <1>5 DEF Unref, Undo, Sound, TypeOK, Locals
  <2>w. PICK w : w = header[p]
    OBVIOUS
  <2>1. /\ Sound(t) /\ p \in alive /\ w \in Words /\ -th[t].size \in Int
    BY <1>5, <2>0, <2>w, SMTT(60) DEF Unref, Undo, Sound, PointersAlive, TypeOK, Locals
  <2>2. PICK n \in Int : header' = [header EXCEPT ![p] = add(w, n, -1)]
    BY <1>5, <2>0, <2>w, <2>1 DEF Unref, Undo
  <2>3. add(w, n, -1).ptr = w.ptr /\ add(w, n, -1).ref = w.ref - 1
    BY <2>1, AddType DEF Words
  <2>4. /\ procPibr' = procPibr /\ alive' = alive
        /\ \A b \in Actors : b # t => th'[b] = th[b] /\ pc'[b] = pc[b]
        /\ th'[t].cur \in {NULL, p} /\ pc[t] \in Holding /\ pc'[t] \in {"idle", "check"}
    <3>1. CASE Unref(t)
      BY <3>1 DEF Unref, Idle, Local, Holding, TypeOK
    <3>2. CASE Undo(t)
      BY <2>0, <3>2 DEF Undo, Holding, TypeOK
    <3>3. QED
      BY <1>5, <3>1, <3>2
  <2>5. \A q \in Addrs : header'[q].ptr = header[q].ptr
    BY <2>w, <2>1, <2>2, <2>3 DEF TypeOK
  <2>6. \A b \in Actors : Sound(b)' => Sound(b) /\ th'[b].cur = th[b].cur /\ th[b].cur \in Addrs
    BY <2>0, <2>1, <2>4 DEF Sound, TypeOK, Locals
  <2>7. PointersAlive' /\ NewPrivate' /\ SwappedOut' /\ WriteZeroed'
    BY <2>4, <2>5, <2>6 DEF PointersAlive, NewPrivate, SwappedOut, WriteZeroed, Making,
       Flushing
  <2>8. ExclusiveFlush'
    BY <2>4, <2>6 DEF ExclusiveFlush, Holding
  <2>9. RefsCounted'
    <3>1. Holders(p)' = Holders(p) \ {t} /\ t \in Holders(p)
      BY <2>0, <2>1, <2>4 DEF Holders, Holding, Sound
    <3>2. \A q \in Addrs : q # p => Holders(q)' = Holders(q)
      BY <2>0, <2>1, <2>4 DEF Holders, Holding, Sound
    <3>3. Cardinality(Holders(p)') = Cardinality(Holders(p)) - 1
      BY <3>1, HoldersFinite, FS_RemoveElement
    <3>4. Cardinality(Holders(p)) \in Nat
      BY HoldersFinite, FS_CardinalityType
    <3>5. GoodPtr(header'[p]) => header'[p].ref >= Cardinality(Holders(p)')
      <4>1. header'[p].ref = w.ref - 1 /\ header'[p].ptr = w.ptr /\ w.ref \in Int
        BY <2>1, <2>2, <2>3 DEF TypeOK, Words
      <4>2. GoodPtr(header'[p]) => GoodPtr(w)
        BY <4>1 DEF GoodPtr
      <4>3. GoodPtr(w) => w.ref >= Cardinality(Holders(p))
        BY <2>w, <2>1 DEF RefsCounted
      <4>4. QED
        BY <3>3, <3>4, <4>1, <4>2, <4>3
    <3>6. ASSUME NEW q \in alive, q # p, GoodPtr(header'[q])
          PROVE  header'[q].ref >= Cardinality(Holders(q)')
      BY <2>1, <2>2, <3>2, <3>6 DEF RefsCounted, TypeOK
    <3>7. QED
      BY <2>4, <3>5, <3>6 DEF RefsCounted
  <2>10. QED
    BY <2>7, <2>8, <2>9
<1>6. QED
  BY <1>1, <1>2, <1>3, <1>4, <1>5 DEF Blog

(* free(p) by a: everyone else keeps his pointers, and those to p are stale. *)
LEMMA FreedFacts ==
  ASSUME TypeOK, NEW a \in Actors, NEW p, th' = Freed(p, a)
  PROVE  /\ th'[a].cur = NULL
         /\ \A b \in Actors : b # a =>
              /\ th'[b].cur = th[b].cur /\ th'[b].new = th[b].new
              /\ Sound(b)' = (Sound(b) /\ th[b].cur # p)
<1>1. th'[a].cur = NULL
  BY DEF Freed, Returned, Local
<1>2. ASSUME NEW b \in Actors, b # a
      PROVE  /\ th'[b].cur = th[b].cur /\ th'[b].new = th[b].new
             /\ th'[b].stale = (th[b].stale \/ th[b].cur = p)
  <2>1. th'[b] = [th[b] EXCEPT !.stale = @ \/ th[b].cur = p]
    BY <1>2 DEF Freed
  <2>2. th[b] \in Locals
    BY DEF TypeOK
  <2>3. QED
    BY <2>1, <2>2 DEF Locals
<1>3. QED
  BY <1>1, <1>2 DEF Sound

(* swap_buffers(): a new buffer is private until it is published, and a    *)
(* published one is not flushed before it is replaced.                     *)
LEMMA FlushSwap ==
  ASSUME TypeOK, TypeOK', FlushInv, NEW a \in Actors,
         SwapCheck(a) \/ Alloc(a) \/ AllocFail(a) \/ InitBuffer(a) \/ SwapCas(a)
  PROVE  FlushInv'
<1> USE DEF FlushInv, Goto, Return, buffers
<1>n. NULL \notin Addrs
  BY BblogAssumption
<1>r. /\ ReturnPc(a) \in {"sleep", "none", "done", "load", "idle"}
      /\ Returned(th[a]).cur = NULL
  BY ReturnType DEF Returned, Local
<1>1. CASE SwapCheck(a)
  <2>1. /\ \A b \in Actors : b # a => pc'[b] = pc[b] /\ th'[b] = th[b]
        /\ pc[a] = "check" /\ pc'[a] \in {"alloc", "sleep", "none", "done", "load", "idle"}
    BY <1>1, <1>r DEF SwapCheck, TypeOK
  <2>2. Sound(a)' => th'[a].cur = procPibr
    <3>1. CASE procPibr = th[a].cur
      BY <1>1, <3>1, SMTT(60) DEF SwapCheck, TypeOK, Locals
    <3>2. CASE procPibr # th[a].cur
      BY <1>1, <1>r, <3>2 DEF SwapCheck, TypeOK, Sound
    <3>3. QED
      BY <3>1, <3>2
  <2>3. QED
    BY <1>1, <2>1, <2>2, Frame DEF SwapCheck, Holding, Making, Flushing
<1>2. CASE Alloc(a)
  <2>1. PICK p \in Addrs \ alive : alive' = alive \cup {p} /\ th' = [th EXCEPT ![a].new = p]
    BY <1>2 DEF Alloc
  <2>2. /\ procPibr' = procPibr /\ header' = header
        /\ \A b \in Actors : /\ th'[b].cur = th[b].cur
                             /\ b # a => pc'[b] = pc[b] /\ th'[b].new = th[b].new
        /\ pc[a] = "alloc" /\ pc'[a] = "init" /\ th'[a].new = p
    BY <1>2, <2>1 DEF Alloc, TypeOK, Locals
  <2>3. \A b \in Actors : Sound(b)' = Sound(b) /\ (Sound(b) => th[b].cur # p)
    BY <2>1, <2>2, ZenonT(60) DEF Sound, TypeOK, Locals, PointersAlive
  <2>4. PointersAlive' /\ SwappedOut' /\ WriteZeroed' /\ ExclusiveFlush'
    BY <2>1, <2>2, <2>3 DEF PointersAlive, SwappedOut, WriteZeroed, ExclusiveFlush,
       Holding, Flushing
  <2>5. NewPrivate'
    <3>1. p # procPibr
      BY <2>1, <1>n DEF PointersAlive
    <3>2. QED
      BY <2>1, <2>2, <2>3, <3>1 DEF NewPrivate, Making
  <2>6. RefsCounted'
    <3>1. \A q : Holders(q)' = Holders(q)
      BY <2>2, <2>3 DEF Holders, Holding
    <3>2. Holders(p) = {}
      BY <2>3 DEF Holders
    <3>3. GoodPtr(header[p]) => header[p].ref >= Cardinality(Holders(p))
      BY <3>2, FS_EmptySet DEF GoodPtr
    <3>4. QED
      BY <2>1, <2>2, <3>1, <3>3 DEF RefsCounted
  <2>7. QED
    BY <2>4, <2>5, <2>6
<1>3. CASE AllocFail(a)
  <2>1. /\ \A b \in Actors : b # a => pc'[b] = pc[b] /\ th'[b] = th[b]
        /\ pc[a] = "alloc"
        /\ pc'[a] \in {"fpid", "sleep", "none", "done", "load", "idle"}
    BY <1>3, <1>r DEF AllocFail, TypeOK
  <2>2. Sound(a)' => Sound(a) /\ th'[a].cur = th[a].cur
    BY <1>3, <1>r DEF AllocFail, TypeOK, Sound
  <2>3. QED
    BY <1>3, <2>1, <2>2, Frame DEF AllocFail, Holding, Making, Flushing
<1>4. CASE InitBuffer(a)
  <2>0. PICK p : p = th[a].new
    OBVIOUS
  <2>1. /\ procPibr' = procPibr /\ alive' = alive /\ th' = th
        /\ \A b \in Actors : b # a => pc'[b] = pc[b]
        /\ pc[a] = "init" /\ pc'[a] = "cas"
    BY <1>4 DEF InitBuffer, TypeOK
  <2>2. /\ p \in alive /\ p \in Addrs
        /\ \A b \in Actors : Sound(b) => th[b].cur # p
    BY <2>0, <2>1 DEF NewPrivate, Making, TypeOK
  <2>3. PICK w : header' = [header EXCEPT ![p] = w]
    BY <1>4, <2>0 DEF InitBuffer
  <2>4. \A b \in Actors : Sound(b)' = Sound(b)
    BY <2>1 DEF Sound
  <2>5. \A b \in Actors : Sound(b) => header'[th[b].cur] = header[th[b].cur]
    BY <2>2, <2>3 DEF TypeOK, Sound, PointersAlive
  <2>6. PointersAlive' /\ NewPrivate' /\ SwappedOut' /\ WriteZeroed' /\ ExclusiveFlush'
    BY <2>1, <2>4, <2>5 DEF PointersAlive, NewPrivate, SwappedOut, WriteZeroed,
       ExclusiveFlush, Holding, Making, Flushing
  <2>7. RefsCounted'
    <3>1. \A q : Holders(q)' = Holders(q)
      BY <2>1, <2>4 DEF Holders, Holding
    <3>2. Holders(p) = {}
      BY <2>2 DEF Holders
    <3>3. GoodPtr(header'[p]) => header'[p].ref >= Cardinality(Holders(p))
      BY <3>2, FS_EmptySet DEF GoodPtr
    <3>4. \A q \in alive : q # p => header'[q] = header[q]
      BY <2>3 DEF TypeOK
    <3>5. QED
      BY <2>1, <3>1, <3>3, <3>4 DEF RefsCounted
  <2>8. QED
    BY <2>6, <2>7
<1>5. CASE SwapCas(a)
  <2>0. PICK p : p = th[a].new
    OBVIOUS
  <2>1. /\ header' = header /\ pc[a] = "cas"
        /\ \A b \in Actors : b # a => pc'[b] = pc[b]
    BY <1>5 DEF SwapCas, TypeOK
  <2>2. /\ p \in alive /\ p \in Addrs /\ p # procPibr
        /\ \A b \in Actors : /\ Sound(b) => th[b].cur # p
                             /\ b # a /\ pc[b] \in Making => th[b].new # p
    BY <2>0, <2>1 DEF NewPrivate, Making, TypeOK
  <2>3. CASE procPibr = th[a].cur
    <3>1. /\ procPibr' = p /\ alive' = alive
          /\ \A b \in Actors : b # a => th'[b] = th[b]
          /\ th'[a].cur \in {NULL, procPibr}
          /\ pc'[a] \in {"fpid", "sleep", "none", "done", "load", "idle"}
          /\ pc'[a] = "fpid" => th'[a].cur = procPibr
      BY <1>5, <1>r, <2>0, <2>3 DEF SwapCas, TypeOK, Local
    <3>2. \A b \in Actors : Sound(b)' =>
            \/ b = a /\ th'[b].cur = procPibr /\ procPibr # NULL
            \/ b # a /\ Sound(b) /\ th'[b].cur = th[b].cur
      BY <3>1 DEF Sound
    <3>3. PointersAlive' /\ SwappedOut' /\ WriteZeroed' /\ ExclusiveFlush'
      BY <2>1, <2>2, <3>1, <3>2 DEF PointersAlive, SwappedOut, WriteZeroed,
         ExclusiveFlush, Holding, Flushing
    <3>4. NewPrivate'
      BY <2>1, <2>2, <3>1, <3>2 DEF NewPrivate, Making
    <3>5. \A q : Holders(q)' = Holders(q)
      BY <2>1, <3>1 DEF Holders, Holding, Sound
    <3>6. RefsCounted'
      BY <2>1, <3>1, <3>5 DEF RefsCounted
    <3>7. QED
      BY <3>3, <3>4, <3>6
  <2>4. CASE procPibr # th[a].cur
    <3>1. /\ procPibr' = procPibr /\ alive' = alive \ {p} /\ th' = Freed(p, a)
          /\ pc'[a] \in {"sleep", "none", "done", "load", "idle"}
      BY <1>5, <1>r, <2>0, <2>4 DEF SwapCas, TypeOK
    <3>2. /\ ~Sound(a)'
          /\ \A b \in Actors : b # a =>
               /\ th'[b].cur = th[b].cur /\ th'[b].new = th[b].new
               /\ Sound(b)' = Sound(b)
      BY <2>2, <3>1, FreedFacts DEF Sound
    <3>3. PointersAlive' /\ SwappedOut' /\ WriteZeroed' /\ ExclusiveFlush'
      BY <2>1, <2>2, <3>1, <3>2 DEF PointersAlive, SwappedOut, WriteZeroed,
         ExclusiveFlush, Holding, Flushing
    <3>4. NewPrivate'
      BY <2>1, <2>2, <3>1, <3>2 DEF NewPrivate, Making
    <3>5. \A q : Holders(q)' = Holders(q)
      BY <2>1, <3>1, <3>2 DEF Holders, Holding
    <3>6. RefsCounted'
      BY <2>1, <3>1, <3>5 DEF RefsCounted
    <3>7. QED
      BY <3>3, <3>4, <3>6
  <2>5. QED
    BY <2>3, <2>4
<1>6. QED
  BY <1>1, <1>2, <1>3, <1>4, <1>5

(* flush_buffer(): the compare-and-swap finds no reference, so there is no *)
(* holder, and zeroes the word, so there will be none.                     *)
LEMMA FlushFlush ==
  ASSUME TypeOK, TypeOK', FlushInv, NEW a \in Actors,
         \/ FlushReadPid(a) \/ FlushReadIdx(a) \/ FlushCas(a) \/ Spin(a) \/ FlushWrite(a)
  PROVE  FlushInv'
<1> USE DEF FlushInv, Goto, Return, buffers
<1>r. /\ ReturnPc(a) \in {"sleep", "none", "done", "load", "idle"}
      /\ Returned(th[a]).cur = NULL
  BY ReturnType DEF Returned, Local
<1>1. ASSUME FlushReadPid(a) \/ FlushReadIdx(a) PROVE FlushInv'
  <2>1. /\ \A b \in Actors : b # a => pc'[b] = pc[b] /\ th'[b] = th[b]
        /\ pc[a] \in {"fpid", "fidx"} /\ Sound(a)
        /\ pc'[a] \in {"fidx", "fcas", "sleep", "none", "done", "load", "idle"}
        /\ header' = header /\ alive' = alive /\ procPibr' = procPibr
    BY <1>1, <1>r DEF FlushReadPid, FlushReadIdx, TypeOK
  <2>2. th'[a].cur = th[a].cur \/ (th'[a].cur = NULL /\ pc'[a] \notin Flushing)
    <3>1. CASE FlushReadPid(a)
      BY <1>r, <3>1, ZenonT(60) DEF FlushReadPid, TypeOK, Locals, Flushing
    <3>2. CASE FlushReadIdx(a)
      <4>1. CASE header[th[a].cur].idx # PrefixLen
        <5>1. th' = [th EXCEPT ![a].idx = header[th[a].cur].idx] /\ th[a] \in Locals
          BY <3>2, <4>1 DEF FlushReadIdx, TypeOK
        <5>2. QED
          BY <5>1 DEF TypeOK, Locals
      <4>2. CASE header[th[a].cur].idx = PrefixLen
        BY <1>r, <3>2, <4>2 DEF FlushReadIdx, TypeOK, Flushing
      <4>3. QED
        BY <4>1, <4>2
    <3>3. QED
      BY <1>1, <3>1, <3>2
  <2>3. QED
    BY <2>1, <2>2, Frame DEF Sound, Holding, Making, Flushing
<1>2. CASE FlushCas(a)
  <2>0. PICK p \in Addrs : p = th[a].cur
    BY <1>2 DEF FlushCas, Sound, TypeOK, Locals
  <2>1. /\ procPibr' = procPibr /\ alive' = alive /\ th' = th
        /\ header' = [header EXCEPT ![p] = Zero]
        /\ \A b \in Actors : b # a => pc'[b] = pc[b]
        /\ pc[a] = "fcas" /\ pc'[a] = "write" /\ Sound(a) /\ p \in alive
    BY <1>2, <2>0 DEF FlushCas, PointersAlive, TypeOK
  <2>2. header[p].ptr = p /\ header[p].ref = 0 /\ p # NULL /\ GoodPtr(header[p])
    BY <1>2, <2>0, BblogAssumption DEF FlushCas, Unreferenced, pack_buffer, GoodPtr
  <2>3. Holders(p) = {}
    <3>1. Cardinality(Holders(p)) \in Nat
      BY HoldersFinite, FS_CardinalityType
    <3>2. Cardinality(Holders(p)) = 0
      BY <2>1, <2>2, <3>1 DEF RefsCounted
    <3>3. QED
      BY <3>2, HoldersFinite, FS_EmptySet
  <2>4. \A b \in Actors : Sound(b)' = Sound(b) /\ (Sound(b) => th[b].cur \in Addrs)
    BY <2>1 DEF Sound, TypeOK, Locals
  <2>5. /\ header'[p].ptr = NULL
        /\ \A q \in Addrs : q # p => header'[q] = header[q]
    BY <2>1 DEF Zero, TypeOK
  <2>6. PointersAlive' /\ NewPrivate' /\ SwappedOut' /\ WriteZeroed'
    <3>1. PointersAlive' /\ NewPrivate'
      BY <2>1, <2>4 DEF PointersAlive, NewPrivate, Making
    <3>2. p # procPibr
      BY <2>0, <2>1, <2>2 DEF SwappedOut, Flushing
    <3>3. SwappedOut'
      BY <2>0, <2>1, <2>4, <2>5, <3>2 DEF SwappedOut, Flushing
    <3>4. WriteZeroed'
      BY <2>0, <2>1, <2>4, <2>5 DEF WriteZeroed
    <3>5. QED
      BY <3>1, <3>3, <3>4
  <2>7. ExclusiveFlush'
    <3>1. \A b \in Actors : b # a /\ Sound(b) /\ th[b].cur = p =>
            pc[b] \notin Holding \cup {"write"}
      BY <2>2, <2>3 DEF WriteZeroed, Holders
    <3>2. QED
      BY <2>0, <2>1, <2>4, <3>1 DEF ExclusiveFlush
  <2>8. RefsCounted'
    <3>1. \A q : Holders(q)' = Holders(q)
      BY <2>1, <2>4 DEF Holders, Holding
    <3>2. QED
      BY <2>1, <2>5, <3>1 DEF RefsCounted, GoodPtr, TypeOK
  <2>9. QED
    BY <2>6, <2>7, <2>8
<1>3. CASE Spin(a)
  BY <1>3 DEF Spin, vars, PointersAlive, NewPrivate, SwappedOut, WriteZeroed,
     RefsCounted, ExclusiveFlush, Holders, Sound
<1>4. CASE FlushWrite(a)
  <2>0. PICK p \in Addrs : p = th[a].cur
    BY <1>4 DEF FlushWrite, Sound, TypeOK, Locals
  <2>1. /\ procPibr' = procPibr /\ alive' = alive \ {p} /\ header' = header
        /\ th' = Freed(p, a)
        /\ \A b \in Actors : b # a => pc'[b] = pc[b]
        /\ pc[a] = "write" /\ Sound(a)
        /\ pc'[a] \in {"sleep", "none", "done", "load", "idle"}
    BY <1>4, <1>r, <2>0 DEF FlushWrite, TypeOK
  <2>2. /\ ~Sound(a)'
        /\ \A b \in Actors : b # a =>
             /\ th'[b].cur = th[b].cur /\ th'[b].new = th[b].new
             /\ Sound(b)' = (Sound(b) /\ th[b].cur # p)
    BY <2>1, FreedFacts DEF Sound
  <2>s. \A b \in Actors : Sound(b)' =>
          b # a /\ Sound(b) /\ th'[b].cur = th[b].cur /\ th[b].cur # p
    BY <2>2
  <2>3. p # procPibr /\ \A b \in Actors : pc[b] \in Making => th[b].new # p
    BY <2>0, <2>1 DEF SwappedOut, NewPrivate, Flushing
  <2>4. PointersAlive' /\ SwappedOut' /\ WriteZeroed' /\ ExclusiveFlush'
    BY <2>1, <2>s, <2>3 DEF PointersAlive, SwappedOut, WriteZeroed, ExclusiveFlush,
       Holding, Flushing
  <2>n. \A b \in Actors : b # a => th'[b].new = th[b].new
    BY <2>2
  <2>5. NewPrivate'
    BY <2>1, <2>n, <2>s, <2>3 DEF NewPrivate, Making
  <2>6. \A q : q # p => Holders(q)' = Holders(q)
    BY <2>1, <2>2 DEF Holders, Holding
  <2>7. RefsCounted'
    BY <2>1, <2>6 DEF RefsCounted
  <2>8. QED
    BY <2>4, <2>5, <2>7
<1>5. QED
  BY <1>1, <1>2, <1>3, <1>4

(* The steps of the flusher and of exit keep the flush invariant.          *)
LEMMA FlushOther ==
  ASSUME TypeOK, TypeOK', FlushInv, NEW a \in Actors,
         FlusherThread(a) \/ Exit(a) \/ BadAccess(a)
  PROVE  FlushInv'
<1> USE DEF FlushInv, Goto, buffers
<1>i. Idle.cur = NULL
  BY DEF Idle, Local
<1>1. ASSUME FlWake(a) \/ FlPeekPtr(a) \/ FlPeek(a) \/ FlReload(a)
             \/ (ExitJoin(a) /\ Load(a) /\ Goto(a, "zero"))
      PROVE  FlushInv'
  <2>1. /\ \A b \in Actors : b # a => pc'[b] = pc[b] /\ th'[b] = th[b]
        /\ pc[a] \in {"sleep", "peekptr", "peek", "reload", "join"}
        /\ pc'[a] \in {"off", "sleep", "peekptr", "peek", "reload", "check", "zero"}
        /\ header' = header /\ alive' = alive /\ procPibr' = procPibr
    BY <1>1 DEF FlWake, FlPeekPtr, FlPeek, FlReload, ExitJoin, Load, TypeOK
  <2>2. th'[a].cur \in {NULL, procPibr} \/ th' = th
    BY <1>1, <1>i DEF FlWake, FlPeekPtr, FlPeek, FlReload, Load, Local, TypeOK
  <2>3. QED
    BY <2>1, <2>2, Frame DEF Sound, Holding, Making, Flushing
<1>2. ASSUME UNCHANGED <<procPibr, header, alive, pc, th>> PROVE FlushInv'
  BY <1>2 DEF PointersAlive, NewPrivate, SwappedOut, WriteZeroed,
     RefsCounted, ExclusiveFlush, Holders, Sound
<1>3. CASE ExitZero(a)
  <2>0. PICK p \in Addrs : p = th[a].cur
    BY <1>3 DEF ExitZero, Sound, TypeOK, Locals
  <2>1. /\ procPibr' = procPibr /\ alive' = alive
        /\ header' = [header EXCEPT ![p] = Zero]
        /\ \A b \in Actors : b # a => pc'[b] = pc[b] /\ th'[b] = th[b]
        /\ pc[a] = "zero" /\ Sound(a)
        /\ pc'[a] \in {"zero", "fpid", "done"}
        /\ th'[a] = th[a] \/ th'[a].cur = NULL
    BY <1>3, <1>i, <2>0 DEF ExitZero, TypeOK
  <2>2. \A b \in Actors : Sound(b)' => /\ Sound(b) /\ th'[b].cur = th[b].cur
                                       /\ th[b].cur \in Addrs
    BY <2>1 DEF Sound, TypeOK, Locals
  <2>3. /\ header'[p].ptr = NULL
        /\ \A q \in Addrs : q # p => header'[q] = header[q]
    BY <2>1 DEF Zero, TypeOK
  <2>4. PointersAlive' /\ NewPrivate'
    BY <2>1, <2>2 DEF PointersAlive, NewPrivate, Making
  <2>5. SwappedOut'
    BY <2>0, <2>1, <2>2, <2>3 DEF SwappedOut, Flushing
  <2>6. WriteZeroed' /\ ExclusiveFlush'
    BY <2>0, <2>1, <2>2, <2>3 DEF WriteZeroed, ExclusiveFlush, Holding
  <2>7. RefsCounted'
    <3>1. \A q : Holders(q)' = Holders(q)
      BY <2>1 DEF Holders, Holding, Sound
    <3>2. QED
      BY <2>1, <2>3, <3>1 DEF RefsCounted, GoodPtr, TypeOK
  <2>8. QED
    BY <2>4, <2>5, <2>6, <2>7
<1>4. ASSUME ExitJoin(a) PROVE FlushInv'
  BY <1>1, <1>2, <1>4 DEF ExitJoin
<1>5. CASE ProcessExit(a) \/ BadAccess(a)
  BY <1>2, <1>5 DEF ProcessExit, BadAccess
<1>6. QED
  BY <1>1, <1>3, <1>4, <1>5 DEF FlusherThread, Exit

(* Calls by the application and fork keep the flush invariant.             *)
LEMMA FlushCall ==
  ASSUME TypeOK, TypeOK', FlushInv, NEW a \in Actors, Call(a)
  PROVE  FlushInv'
<1> USE DEF FlushInv, Goto, buffers
<1>1. ASSUME (\E s \in Sizes : bblog(a, s)) \/ BblogInit(a) \/ Spawn(a) \/ ExitBegin(a)
      PROVE  FlushInv'
  <2>1. /\ \A b \in Actors : b # a => pc'[b] = pc[b] /\ th'[b] = th[b]
        /\ pc[a] \in {"idle", "dead"} /\ pc'[a] \in {"idle", "load", "check", "join"}
        /\ header' = header /\ alive' = alive /\ procPibr' = procPibr
        /\ th'[a] = th[a] \/ th'[a].cur = NULL
    BY <1>1 DEF bblog, BblogInit, Spawn, ExitBegin, Local, TypeOK
  <2>2. QED
    BY <2>1, Frame DEF Sound, Holding, Making, Flushing
<1>2. CASE Fork(a)
  <2>1. procPibr' = procPibr /\ alive' = alive /\ header' = header
    BY <1>2 DEF Fork
  <2>2. \A b \in Actors : /\ ~Sound(b)'
                          /\ pc'[b] \in {"idle", "off", "none", "dead"}
    BY <1>2 DEF Fork, Sound, Idle, Local
  <2>3. \A q : Holders(q)' = {}
    BY <2>2 DEF Holders
  <2>4. RefsCounted'
    BY <2>1, <2>3, FS_EmptySet DEF RefsCounted, GoodPtr
  <2>5. QED
    BY <2>1, <2>2, <2>4 DEF PointersAlive, NewPrivate, SwappedOut, WriteZeroed,
       ExclusiveFlush, Making, Flushing
<1>3. QED
  BY <1>1, <1>2 DEF Call

(* Every step keeps the flush invariant.                                   *)
LEMMA FlushNext == TypeOK /\ TypeOK' /\ FlushInv /\ [Next]_vars => FlushInv'
<1> SUFFICES ASSUME TypeOK, TypeOK', FlushInv, [Next]_vars PROVE FlushInv'
  OBVIOUS
<1>1. ASSUME NEW a \in Actors, Step(a) PROVE FlushInv'
  BY <1>1, FlushBlog, FlushSwap, FlushFlush, FlushOther DEF Step, SwapAndFlush
<1>2. ASSUME NEW a \in Actors, Call(a) PROVE FlushInv'
  BY <1>2, FlushCall
<1>3. ASSUME NEW v \in Threads \cup {Flusher}, Signal(v) PROVE FlushInv'
  <2>1. Handler \in Actors
    BY DEF Actors
  <2>2. /\ \A b \in Actors : b # Handler => pc'[b] = pc[b] /\ th'[b] = th[b]
        /\ pc[Handler] = "none" /\ pc'[Handler] = "check"
        /\ header' = header /\ alive' = alive /\ procPibr' = procPibr
        /\ th'[Handler].cur = procPibr
    BY <1>3, <2>1 DEF Signal, Load, Local, Goto, buffers, TypeOK
  <2>3. QED
    BY <2>1, <2>2, Frame DEF Holding, Making, Flushing
<1>4. ASSUME UNCHANGED <<procPibr, header, alive, pc, th>> PROVE FlushInv'
  BY <1>4 DEF FlushInv, PointersAlive, NewPrivate, SwappedOut, WriteZeroed,
     RefsCounted, ExclusiveFlush, Holders, Sound
<1>5. QED
  BY <1>1, <1>2, <1>3, <1>4 DEF Next, Rest, Tick, vars, buffers

(* The inductive invariant holds in every behaviour: pointers that were    *)
(* not freed under their holders point to live buffers, an unpublished     *)
(* buffer is private, and references are never undercounted.               *)
THEOREM FlushInvariant == Spec => []FlushInv
<1>1. QED
  BY TypeInit, TypeNext, FlushInit, FlushNext, TypeCorrect, PTL DEF Spec

(* Whatever the number of threads, forks and signals, and although         *)
(* memalign() may fail and the process may exit in the middle: while       *)
(* flush_buffer() writes and frees a buffer, no other actor copies into    *)
(* it, still has to touch its word, or writes it too.                      *)
THEOREM FlushIsExclusive == Spec => []ExclusiveFlush
<1>1. FlushInv => ExclusiveFlush
  BY DEF FlushInv
<1>2. QED
  BY <1>1, FlushInvariant, PTL
=============================================================================
