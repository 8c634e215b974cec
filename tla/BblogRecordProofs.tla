------------------------- MODULE BblogRecordProofs -------------------------
(***************************************************************************)
(* Proofs about what Bblog writes, whatever the number of threads, forks,  *)
(* signals and records, although memalign() may fail, the flusher swaps    *)
(* buffers and the process exits in the middle: every message from a       *)
(* buffer that is not torn is the prefix followed by whole records.        *)
(***************************************************************************)
EXTENDS BblogProofs

-----------------------------------------------------------------------------
(* The inductive invariant.                                                *)

(* The pid and idx fields together, as the number the fetch-and-add sees. *)
Val(w) == w.pid * IdxMod + w.idx

(* The actors at label l with a sound pointer to p. *)
At(p, l) == {a \in Actors : pc[a] = l /\ Sound(a) /\ th[a].cur = p}

(* The record that a thread at "copy" is going to put into its buffer. *)
Reserved(t) == [at |-> th[t].idx, len |-> th[t].size, rec |-> th[t].rec, by |-> pid]

(* The records in buffer p and those for which there is a reservation. *)
Slots(p) == segs[p] \cup {Reserved(t) : t \in At(p, "copy")}

Beside(s1, s2) == s1.at + s1.len <= s2.at \/ s2.at + s2.len <= s1.at

(* The records of S are of process o and lie between the prefix and e,     *)
(* none over another.                                                      *)
Laid(S, o, e) ==
  /\ \A s \in S : s.len >= 1 /\ s.at >= PrefixLen /\ s.at + s.len <= e /\ s.by = o
  /\ \A s1, s2 \in S : s1 # s2 => Beside(s1, s2)

(* They leave no gap. *)
Full(S, e) == \A x \in PrefixLen .. (e - 1) : \E s \in S : s.at <= x /\ x < s.at + s.len

(* fork() copied a reference whose holder does not exist here. *)
Leaked(p) == header[p].ref > Cardinality(Holders(p))

(* The word of buffer p is that of process o, with the records up to e and *)
(* what is to be given back.                                               *)
Ends(p, o, e) ==
  /\ e = PrefixLen \/ e < Limit
  /\ Val(header[p]) = o * IdxMod + e + debt[p]

Content(p) ==
  \E o \in Int, e \in PrefixLen .. (IdxMod - 1) :
    Ends(p, o, e) /\ Laid(Slots(p), o, e) /\ (Leaked(p) \/ Full(Slots(p), e))

(* Where a record is going to be copied lies no other, even when exit has  *)
(* zeroed the word in the meantime.                                        *)
Separate(p) ==
  \A a \in At(p, "copy") :
    /\ \A s \in segs[p] : Beside(Reserved(a), s)
    /\ \A b \in At(p, "copy") : b # a => Beside(Reserved(a), Reserved(b))

(* The bytes that actors at "undo" are going to give back to p. *)
Bytes(p) ==
  {x \in Actors \X (1 .. BufferSize) : x[1] \in At(p, "undo") /\ x[2] <= th[x[1]].size}

(* All that is to be given back will be, unless its holder is gone. *)
Repaid(p) == Leaked(p) \/ debt[p] = Cardinality(Bytes(p))

(* What buffer p holds is whole, and stays so, unless p is torn. *)
Kept(p) ==
  /\ p \notin torn => Separate(p)
  /\ GoodPtr(header[p]) => Repaid(p)
  /\ GoodPtr(header[p]) /\ p \notin torn => Content(p)

BuffersWhole == \A p \in Addrs : Kept(p)

Appending == {"load", "add", "copy", "unref", "undo"}

(* Only threads append, and with a record of a proper size. *)
RolesOK ==
  \A a \in Actors :
    /\ pc[a] \in Appending \cup {"idle"} => a \in Threads
    /\ pc[a] \in Appending => th[a].rec # 0
    /\ th[a].rec # 0 => th[a].size \in 1 .. BufferSize

(* A new buffer is empty. *)
NewEmpty ==
  /\ \A p \in Addrs \ alive : segs[p] = {}
  /\ \A a \in Actors : pc[a] \in Making => segs[th[a].new] = {}

(* flush_buffer() does not write a prefix alone. *)
IdxRead == \A a \in Actors : pc[a] \in {"fcas", "write"} => th[a].idx # PrefixLen

(* What is being written is whole up to the index that was read. *)
WriteWhole ==
  \A a \in Actors : pc[a] = "write" /\ Sound(a) /\ th[a].cur \notin torn =>
    /\ th[a].idx >= PrefixLen /\ th[a].idx < Limit
    /\ Laid(segs[th[a].cur], th[a].owner, th[a].idx)
    /\ Full(segs[th[a].cur], th[a].idx)

RecordInv == RolesOK /\ NewEmpty /\ IdxRead /\ BuffersWhole /\ WriteWhole

-----------------------------------------------------------------------------
(* Numbers.                                                                *)

(* Division with a remainder. *)
LEMMA Divide ==
  ASSUME NEW x \in Int, NEW m \in Nat, m > 0
  PROVE  x = (x \div m) * m + (x % m) /\ x \div m \in Int /\ x % m \in 0 .. m - 1
OBVIOUS

(* A sum times m. *)
LEMMA Distribute ==
  ASSUME NEW x \in Int, NEW y \in Int, NEW m \in Int
  PROVE  (x + y) * m = x * m + y * m
OBVIOUS

(* A positive number times m is at least m. *)
LEMMA AtLeast ==
  ASSUME NEW x \in Int, NEW m \in Nat, x >= 1
  PROVE  x * m >= m
OBVIOUS

(* The fetch-and-add adds to the two fields as to one number: what         *)
(* overflows idx is carried into pid.                                      *)
LEMMA AddVal ==
  ASSUME NEW w \in Words, NEW s \in Int, NEW r \in Int
  PROVE  Val(add(w, s, r)) = Val(w) + s /\ Val(w) \in Int
<1>1. IdxMod \in Nat /\ IdxMod > 0 /\ w.idx \in Int /\ w.pid \in Int
  BY BblogAssumption DEF Words
<1>x. PICK x \in Int : x = w.idx + s
  BY <1>1
<1>d. PICK d \in Int, r1 \in Int : d = x \div IdxMod /\ r1 = x % IdxMod /\ x = d * IdxMod + r1
  BY <1>1, Divide
<1>2. add(w, s, r).pid = w.pid + d /\ add(w, s, r).idx = r1
  BY <1>x, <1>d DEF add
<1>3. (w.pid + d) * IdxMod = w.pid * IdxMod + d * IdxMod
  BY <1>1, Distribute
<1>4. PICK u \in Int, v \in Int : u = w.pid * IdxMod /\ v = d * IdxMod
  BY <1>1
<1>5. Val(add(w, s, r)) = (u + v) + r1
  BY <1>2, <1>3, <1>4 DEF Val
<1>6. Val(w) = u + w.idx
  BY <1>4 DEF Val
<1>7. v + r1 = w.idx + s
  BY <1>x, <1>d, <1>4
<1>8. QED
  BY <1>1, <1>5, <1>6, <1>7

(* One number gives both fields. *)
LEMMA ValUnique ==
  ASSUME NEW w \in Words, NEW o \in Int, NEW e \in 0 .. IdxMod - 1,
         Val(w) = o * IdxMod + e
  PROVE  w.pid = o /\ w.idx = e
<1>1. IdxMod \in Nat /\ IdxMod > 0 /\ w.idx \in 0 .. IdxMod - 1 /\ w.pid \in Int
  BY BblogAssumption DEF Words
<1>2. w.pid * IdxMod + w.idx = o * IdxMod + e
  BY DEF Val
<1>m. w.pid * IdxMod \in Int /\ o * IdxMod \in Int
  BY <1>1
<1>3. ASSUME w.pid > o PROVE FALSE
  <2>1. w.pid = o + (w.pid - o) /\ w.pid - o \in Int /\ w.pid - o >= 1
    BY <1>1, <1>3
  <2>2. w.pid * IdxMod = o * IdxMod + (w.pid - o) * IdxMod
    BY <1>1, <2>1, Distribute
  <2>3. (w.pid - o) * IdxMod >= IdxMod /\ (w.pid - o) * IdxMod \in Int
    BY <1>1, <2>1, AtLeast
  <2>4. QED
    BY <1>1, <1>2, <1>m, <2>2, <2>3
<1>4. ASSUME o > w.pid PROVE FALSE
  <2>1. o = w.pid + (o - w.pid) /\ o - w.pid \in Int /\ o - w.pid >= 1
    BY <1>1, <1>4
  <2>2. o * IdxMod = w.pid * IdxMod + (o - w.pid) * IdxMod
    BY <1>1, <2>1, Distribute
  <2>3. (o - w.pid) * IdxMod >= IdxMod /\ (o - w.pid) * IdxMod \in Int
    BY <1>1, <2>1, AtLeast
  <2>4. QED
    BY <1>1, <1>2, <1>m, <2>2, <2>3
<1>5. w.pid = o
  BY <1>1, <1>3, <1>4
<1>6. QED
  BY <1>1, <1>2, <1>m, <1>5

(* The bytes of one more reservation. *)
LEMMA CountMore ==
  ASSUME NEW S, IsFiniteSet(S), NEW t, NEW n \in Nat, \A k : <<t, k>> \notin S
  PROVE  Cardinality(S \cup ({t} \X (1 .. n))) = Cardinality(S) + n
<1>1. IsFiniteSet({t}) /\ Cardinality({t}) = 1
  BY FS_Singleton
<1>2. IsFiniteSet(1 .. n) /\ Cardinality(1 .. n) = n
  BY FS_Interval
<1>T. PICK A, B, T : A = {t} /\ B = 1 .. n /\ T = A \X B
  OBVIOUS
<1>p. IsFiniteSet(A \X B) /\ Cardinality(A \X B) = Cardinality(A) * Cardinality(B)
  BY <1>1, <1>2, <1>T, FS_Product
<1>3. IsFiniteSet(T) /\ Cardinality(T) = 1 * n
  BY <1>1, <1>2, <1>T, <1>p
<1>4. S \cap T = {}
  BY <1>T
<1>5. Cardinality(S \cap T) = 0
  BY <1>4, FS_EmptySet
<1>6. Cardinality(S) \in Nat
  BY FS_CardinalityType
<1>7. Cardinality(S \cup T) = Cardinality(S) + Cardinality(T) - Cardinality(S \cap T)
  BY <1>3, FS_Union
<1>8. Cardinality(S \cup T) = Cardinality(S) + n
  BY <1>3, <1>5, <1>6, <1>7
<1>9. QED
  BY <1>T, <1>8

(* There are finitely many of them. *)
LEMMA BytesFinite == \A p : IsFiniteSet(Bytes(p))
<1>1. IsFiniteSet(Actors)
  BY ActorsFinite
<1>2. IsFiniteSet(1 .. BufferSize)
  BY BblogAssumption, FS_Interval
<1>3. IsFiniteSet(Actors \X (1 .. BufferSize))
  BY <1>1, <1>2, FS_Product
<1>4. QED
  BY <1>3, FS_Subset DEF Bytes

-----------------------------------------------------------------------------
(* Roles: only threads append, and with a record of a proper size.         *)

(* Where an actor that is no thread returns to, and what it keeps. *)
LEMMA ReturnRole ==
  ASSUME TypeOK, RolesOK, NEW a \in Actors
  PROVE  /\ ReturnPc(a) \in Appending \cup {"idle"} => a \in Threads
         /\ ReturnPc(a) \in Appending => th[a].rec # 0
         /\ ReturnPc(a) \in {"sleep", "none", "done", "load", "idle"}
         /\ Returned(th[a]).rec = th[a].rec /\ Returned(th[a]).size = th[a].size
         /\ Returned(th[a]).cur = NULL
         /\ Idle.rec = 0 /\ Idle.cur = NULL
BY DEF ReturnPc, Returned, Local, Idle, Actors, Appending

(* A step of one actor that keeps its record, starts one or ends one. *)
LEMMA RolesFrame ==
  ASSUME RolesOK, NEW a \in Actors,
         \A b \in Actors : b # a => /\ pc'[b] = pc[b] /\ th'[b].rec = th[b].rec
                                    /\ th'[b].size = th[b].size,
         pc'[a] \in Appending \cup {"idle"} => a \in Threads,
         pc'[a] \in Appending => th'[a].rec # 0,
         \/ th'[a].rec = th[a].rec /\ th'[a].size = th[a].size
         \/ th'[a].rec = 0
         \/ th'[a].size \in 1 .. BufferSize
  PROVE  RolesOK'
BY DEF RolesOK

(* _blog() keeps the roles. *)
LEMMA RolesBlog ==
  ASSUME TypeOK, RolesOK, NEW t \in Actors, Blog(t)
  PROVE  RolesOK'
<1> USE DEF Goto
<1>t. \A b \in Actors : th[b] \in Locals
  BY DEF TypeOK
<1>1. pc[t] \in Appending
  BY DEF Blog, LoadProcPibr, FetchAndAdd, FetchAndAddFault, Memcpy, Unref, Undo, Appending
<1>2. \A b \in Actors : b # t => pc'[b] = pc[b] /\ th'[b] = th[b]
  BY DEF Blog, LoadProcPibr, FetchAndAdd, FetchAndAddFault, Memcpy, Unref, Undo, Load, TypeOK
<1>3. pc'[t] \in Appending \cup {"idle", "check"}
  BY DEF Blog, LoadProcPibr, FetchAndAdd, FetchAndAddFault, Memcpy, Unref, Undo, Load, TypeOK,
     Appending
<1>4. \/ th'[t].rec = th[t].rec /\ th'[t].size = th[t].size
      \/ th'[t].rec = 0 /\ pc'[t] = "idle"
  <2>1. CASE LoadProcPibr(t)
    BY <2>1 DEF LoadProcPibr, Load, Local, TypeOK
  <2>2. CASE FetchAndAdd(t)
    BY <1>t, <2>2 DEF FetchAndAdd, TypeOK, Locals
  <2>3. CASE FetchAndAddFault(t) \/ Memcpy(t) \/ Undo(t)
    BY <2>3 DEF FetchAndAddFault, Memcpy, Undo
  <2>4. CASE Unref(t)
    BY <2>4 DEF Unref, Idle, Local, TypeOK
  <2>5. QED
    BY <2>1, <2>2, <2>3, <2>4 DEF Blog
<1>5. t \in Threads /\ th[t].rec # 0
  BY <1>1 DEF RolesOK
<1>6. QED
  BY <1>2, <1>3, <1>4, <1>5, RolesFrame DEF Appending

(* swap_buffers() and flush_buffer() keep the roles. *)
LEMMA RolesSwapAndFlush ==
  ASSUME TypeOK, RolesOK, NEW a \in Actors, SwapAndFlush(a)
  PROVE  RolesOK'
<1> USE DEF Goto, Return
<1>t. \A b \in Actors : th[b] \in Locals
  BY DEF TypeOK
<1>f. ASSUME NEW p, th' = Freed(p, a)
      PROVE  /\ th'[a].rec = th[a].rec /\ th'[a].size = th[a].size
             /\ \A b \in Actors : b # a => th'[b].rec = th[b].rec /\ th'[b].size = th[b].size
  <2>1. th'[a] = Returned(th[a])
    BY <1>f DEF Freed
  <2>2. ASSUME NEW b \in Actors, b # a
        PROVE  th'[b].rec = th[b].rec /\ th'[b].size = th[b].size
    <3>1. th'[b] = [th[b] EXCEPT !.stale = @ \/ th[b].cur = p]
      BY <1>f, <2>2 DEF Freed
    <3>2. QED
      BY <1>t, <3>1 DEF Locals
  <2>3. QED
    BY <2>1, <2>2, ReturnRole
<1>1. \A b \in Actors : b # a => pc'[b] = pc[b]
  BY DEF SwapAndFlush, SwapCheck, Alloc, AllocFail, InitBuffer, SwapCas, FlushReadPid,
     FlushReadIdx, FlushCas, Spin, FlushWrite, vars, TypeOK
<1>2. \/ pc'[a] = ReturnPc(a)
      \/ pc'[a] \in {"alloc", "init", "cas", "fpid", "fidx", "fcas", "write"}
  BY DEF SwapAndFlush, SwapCheck, Alloc, AllocFail, InitBuffer, SwapCas, FlushReadPid,
     FlushReadIdx, FlushCas, Spin, FlushWrite, vars, TypeOK
<1>3. /\ th'[a].rec = th[a].rec /\ th'[a].size = th[a].size
      /\ \A b \in Actors : b # a => th'[b].rec = th[b].rec /\ th'[b].size = th[b].size
  <2>1. CASE SwapCheck(a)
    BY ZenonT(60), <1>t, <2>1, ReturnRole, SMTT(60) DEF SwapCheck, TypeOK, Locals
  <2>2. CASE Alloc(a)
    BY <1>t, <2>2 DEF Alloc, TypeOK, Locals
  <2>3. CASE AllocFail(a)
    BY <1>t, <2>3, ReturnRole DEF AllocFail, TypeOK, Locals
  <2>4. CASE InitBuffer(a) \/ FlushCas(a) \/ Spin(a)
    BY <2>4 DEF InitBuffer, FlushCas, Spin, vars
  <2>5. CASE SwapCas(a)
    <3>1. CASE th' = Freed(th[a].new, a)
      BY <1>f, <3>1
    <3>2. CASE th' # Freed(th[a].new, a)
      BY <1>t, <2>5, <3>2, ReturnRole DEF SwapCas, TypeOK, Local
    <3>3. QED
      BY <3>1, <3>2
  <2>6. CASE FlushReadPid(a)
    <3>1. \/ th' = [th EXCEPT ![a] = Returned(th[a])]
          \/ th' = [th EXCEPT ![a].owner = header[th[a].cur].pid]
      BY <2>6 DEF FlushReadPid
    <3>2. CASE th' = [th EXCEPT ![a].owner = header[th[a].cur].pid]
      BY <1>t, <3>2 DEF TypeOK, Locals
    <3>3. CASE th' = [th EXCEPT ![a] = Returned(th[a])]
      BY <3>3, ReturnRole DEF TypeOK
    <3>4. QED
      BY <3>1, <3>2, <3>3
  <2>7. CASE FlushReadIdx(a)
    <3>1. \/ th' = [th EXCEPT ![a] = Returned(th[a])]
          \/ th' = [th EXCEPT ![a].idx = header[th[a].cur].idx]
      BY <2>7 DEF FlushReadIdx
    <3>2. QED
      BY ZenonT(60), <1>t, <3>1, ReturnRole DEF TypeOK, Locals
  <2>8. CASE FlushWrite(a)
    BY <1>f, <2>8 DEF FlushWrite
  <2>9. QED
    BY <2>1, <2>2, <2>3, <2>4, <2>5, <2>6, <2>7, <2>8 DEF SwapAndFlush
<1>4. QED
  BY <1>1, <1>2, <1>3, ReturnRole, RolesFrame DEF Appending

(* Every step keeps the roles. *)
LEMMA RolesNext ==
  ASSUME TypeOK, RolesOK, [Next]_vars
  PROVE  RolesOK'
<1> USE DEF Goto
<1>i. Idle.rec = 0
  BY DEF Idle, Local
<1>t. Handler \in Actors /\ Handler \notin Threads
  BY BblogAssumption DEF Actors
<1>1. ASSUME NEW a \in Actors, FlusherThread(a) \/ Exit(a) \/ BadAccess(a) PROVE RolesOK'
  <2>1. /\ \A b \in Actors : b # a => pc'[b] = pc[b] /\ th'[b] = th[b]
        /\ \/ pc'[a] \in {"off", "sleep", "peekptr", "peek", "reload", "check", "zero", "fpid",
                          "done"}
           \/ pc' = pc /\ th' = th
    BY <1>1 DEF FlusherThread, FlWake, FlPeekPtr, FlPeek, FlReload, Exit, ExitJoin, ExitZero,
       ProcessExit, BadAccess, Load, TypeOK
  <2>2. (th'[a].rec = th[a].rec /\ th'[a].size = th[a].size) \/ th'[a].rec = 0
    BY <1>1, <1>i DEF FlusherThread, FlWake, FlPeekPtr, FlPeek, FlReload, Exit, ExitJoin,
       ExitZero, ProcessExit, BadAccess, Load, Local, TypeOK
  <2>3. QED
    BY <2>1, <2>2, RolesFrame DEF RolesOK, Appending
<1>2. ASSUME NEW a \in Actors, Call(a) PROVE RolesOK'
  <2>1. ASSUME NEW s \in Sizes, bblog(a, s) PROVE RolesOK'
    <3>1. pc[a] = "idle" /\ a \in Threads
      BY <2>1 DEF bblog, RolesOK
    <3>2. CASE s >= BufferSize - 2
      BY <2>1, <3>2 DEF bblog, RolesOK
    <3>3. CASE ~(s >= BufferSize - 2)
      <4>1. s \in 1 .. BufferSize /\ cntr + 1 # 0
        BY <3>3, BblogAssumption DEF TypeOK
      <4>2. /\ \A b \in Actors : b # a => pc'[b] = pc[b] /\ th'[b] = th[b]
            /\ th'[a].rec = cntr + 1 /\ th'[a].size = s
        BY <2>1, <3>3 DEF bblog, Local, TypeOK
      <4>3. QED
        BY <3>1, <4>1, <4>2, RolesFrame
    <3>4. QED
      BY <3>2, <3>3
  <2>2. CASE BblogInit(a) \/ Spawn(a) \/ ExitBegin(a)
    <3>1. /\ \A b \in Actors : b # a => pc'[b] = pc[b]
          /\ pc'[a] \in {"check", "idle", "join"} /\ th' = th
          /\ pc'[a] = "idle" => a \in Threads
      BY <2>2 DEF BblogInit, Spawn, ExitBegin, TypeOK
    <3>2. QED
      BY <3>1, RolesFrame DEF Appending
  <2>3. CASE Fork(a)
    <3>1. \A b \in Actors : /\ th'[b].rec = 0
                            /\ pc'[b] = pc[b] \/ pc'[b] \in {"none", "dead"}
                            /\ pc'[b] \in {"idle", "off", "none", "dead"}
      BY <1>i, <2>3 DEF Fork
    <3>2. QED
      BY <3>1 DEF RolesOK, Appending
  <2>4. QED
    BY <1>2, <2>1, <2>2, <2>3 DEF Call
<1>3. ASSUME NEW v \in Threads \cup {Flusher}, Signal(v) PROVE RolesOK'
  <2>1. /\ \A b \in Actors : b # Handler => pc'[b] = pc[b] /\ th'[b] = th[b]
        /\ pc'[Handler] = "check" /\ th'[Handler].rec = th[Handler].rec
        /\ th'[Handler].size = th[Handler].size
    BY <1>3, <1>t DEF Signal, Load, Local, TypeOK
  <2>2. QED
    BY <1>t, <2>1, RolesFrame DEF Appending
<1>4. ASSUME UNCHANGED <<pc, th>> PROVE RolesOK'
  BY <1>4 DEF RolesOK
<1>5. ASSUME NEW a \in Actors, Step(a) PROVE RolesOK'
  BY <1>1, <1>5, RolesBlog, RolesSwapAndFlush DEF Step
<1>6. QED
  BY <1>2, <1>3, <1>4, <1>5 DEF Next, Rest, Tick, vars

-----------------------------------------------------------------------------
(* Steps that leave a buffer alone.                                        *)

(* Who holds a reservation. *)
LEMMA AtFacts ==
  ASSUME TypeOK, RolesOK, NEW p, NEW l \in {"copy", "undo"}
  PROVE  /\ At(p, l) \subseteq Actors
         /\ \A a \in At(p, l) : /\ pc[a] = l /\ Sound(a) /\ th[a].cur = p /\ p \in Addrs
                                /\ th[a].size \in 1 .. BufferSize /\ th[a].idx \in Nat
<1>1. ASSUME NEW a \in At(p, l)
      PROVE  /\ pc[a] = l /\ Sound(a) /\ th[a].cur = p /\ p \in Addrs
             /\ th[a].size \in 1 .. BufferSize /\ th[a].idx \in Nat
  <2>1. a \in Actors /\ th[a] \in Locals
    BY DEF At, TypeOK
  <2>2. QED
    BY <2>1 DEF At, Sound, RolesOK, Appending, Locals
<1>2. QED
  BY <1>1 DEF At

(* What a buffer's invariant depends on: its word and records, and those   *)
(* who hold a reservation in it.                                           *)
LEMMA KeptSame ==
  ASSUME NEW p \in Addrs, Kept(p),
         header'[p] = header[p] \/ ~GoodPtr(header'[p]),
         segs'[p] = segs[p], debt'[p] = debt[p], p \in torn => p \in torn', pid' = pid,
         At(p, "copy")' = At(p, "copy"), At(p, "undo")' = At(p, "undo"),
         Holders(p)' = Holders(p),
         \A a \in At(p, "copy") \cup At(p, "undo") :
           th'[a].idx = th[a].idx /\ th'[a].size = th[a].size /\ th'[a].rec = th[a].rec
  PROVE  Kept(p)'
<1>1. \A a \in At(p, "copy") : Reserved(a)' = Reserved(a)
  BY DEF Reserved
<1>2. Slots(p)' = Slots(p)
  BY <1>1 DEF Slots
<1>3. Bytes(p)' = Bytes(p)
  BY DEF Bytes
<1>4. Separate(p) => Separate(p)'
  BY <1>1 DEF Separate, Beside
<1>5. ASSUME header'[p] = header[p], Repaid(p) PROVE Repaid(p)'
  BY <1>3, <1>5 DEF Repaid, Leaked
<1>6. ASSUME header'[p] = header[p], Content(p) PROVE Content(p)'
  <2>1. PICK o \in Int, e \in PrefixLen .. (IdxMod - 1) :
          Ends(p, o, e) /\ Laid(Slots(p), o, e) /\ (Leaked(p) \/ Full(Slots(p), e))
    BY <1>6 DEF Content
  <2>2. Ends(p, o, e)' /\ (Leaked(p) => Leaked(p)')
    BY <1>6, <2>1 DEF Ends, Val, Leaked
  <2>3. Laid(Slots(p), o, e)' /\ (Full(Slots(p), e) => Full(Slots(p), e)')
    BY <1>2, <2>1 DEF Laid, Full, Beside
  <2>4. QED
    BY <2>1, <2>2, <2>3 DEF Content
<1>7. QED
  BY <1>4, <1>5, <1>6 DEF Kept

(* A step of one actor that does not touch buffer p and reserves nothing.  *)
LEMMA KeptFrame ==
  ASSUME NEW a \in Actors, NEW p \in Addrs, Kept(p),
         header'[p] = header[p] \/ ~GoodPtr(header'[p]),
         segs'[p] = segs[p], debt'[p] = debt[p], p \in torn => p \in torn', pid' = pid,
         \A b \in Actors : b # a =>
           /\ pc'[b] = pc[b] /\ th'[b].cur = th[b].cur /\ th'[b].idx = th[b].idx
           /\ th'[b].size = th[b].size /\ th'[b].rec = th[b].rec
           /\ th[b].cur = p => Sound(b)' = Sound(b),
         pc[a] \notin Holding, pc'[a] \notin Holding
  PROVE  Kept(p)'
<1>1. At(p, "copy")' = At(p, "copy") /\ At(p, "undo")' = At(p, "undo")
  BY DEF At, Holding
<1>2. Holders(p)' = Holders(p)
  BY DEF Holders, Holding
<1>3. \A b \in At(p, "copy") \cup At(p, "undo") :
        th'[b].idx = th[b].idx /\ th'[b].size = th[b].size /\ th'[b].rec = th[b].rec
  BY DEF At, Holding
<1>4. QED
  BY <1>1, <1>2, <1>3, KeptSame

(* A step of _blog() on one buffer leaves every other as it is. *)
LEMMA OtherBuffer ==
  ASSUME NEW t \in Actors, NEW q \in Addrs, Kept(q), th[t].cur # q, th'[t].cur # q,
         header'[q] = header[q], segs'[q] = segs[q], debt'[q] = debt[q],
         q \in torn => q \in torn', pid' = pid,
         \A b \in Actors : b # t => pc'[b] = pc[b] /\ th'[b] = th[b]
  PROVE  Kept(q)'
<1>1. At(q, "copy")' = At(q, "copy") /\ At(q, "undo")' = At(q, "undo")
  BY DEF At, Sound
<1>2. Holders(q)' = Holders(q)
  BY DEF Holders, Sound
<1>3. \A b \in At(q, "copy") \cup At(q, "undo") : th'[b] = th[b]
  BY DEF At
<1>4. QED
  BY <1>1, <1>2, <1>3, KeptSame

(* A step of one actor that changes no buffer, reserves nothing and begins *)
(* to write nothing.                                                       *)
LEMMA RecordFrame ==
  ASSUME BuffersWhole, WriteWhole, NEW a \in Actors,
         header' = header, segs' = segs, pid' = pid, debt' = debt, torn' = torn,
         \A b \in Actors : b # a =>
           /\ pc'[b] = pc[b] /\ th'[b].cur = th[b].cur /\ th'[b].idx = th[b].idx
           /\ th'[b].size = th[b].size /\ th'[b].rec = th[b].rec
           /\ th'[b].owner = th[b].owner /\ Sound(b)' = Sound(b),
         pc[a] \notin Holding, pc'[a] \notin Holding \cup {"write"}
  PROVE  BuffersWhole' /\ WriteWhole'
<1>1. BuffersWhole'
  BY KeptFrame DEF BuffersWhole
<1>2. WriteWhole'
  <2> SUFFICES ASSUME NEW b \in Actors, pc'[b] = "write", Sound(b)', th'[b].cur \notin torn'
               PROVE  /\ th'[b].idx >= PrefixLen /\ th'[b].idx < Limit
                      /\ Laid(segs[th'[b].cur], th'[b].owner, th'[b].idx)
                      /\ Full(segs[th'[b].cur], th'[b].idx)
    BY DEF WriteWhole, Laid, Full, Beside
  <2>1. /\ b # a /\ pc[b] = "write" /\ Sound(b) /\ th'[b].cur = th[b].cur
        /\ th'[b].idx = th[b].idx /\ th'[b].owner = th[b].owner /\ th[b].cur \notin torn
    OBVIOUS
  <2>2. QED
    BY <2>1 DEF WriteWhole
<1>3. QED
  BY <1>1, <1>2

(* The writers are others, in other buffers. *)
LEMMA WriteFrame ==
  ASSUME WriteWhole,
         \A b \in Actors : pc'[b] = "write" /\ Sound(b)' =>
           /\ pc[b] = "write" /\ Sound(b) /\ th'[b].cur = th[b].cur
           /\ th'[b].idx = th[b].idx /\ th'[b].owner = th[b].owner
           /\ segs'[th[b].cur] = segs[th[b].cur]
           /\ th[b].cur \in torn => th[b].cur \in torn'
  PROVE  WriteWhole'
<1> SUFFICES ASSUME NEW b \in Actors, pc'[b] = "write", Sound(b)', th'[b].cur \notin torn'
             PROVE  /\ th'[b].idx >= PrefixLen /\ th'[b].idx < Limit
                    /\ Laid(segs'[th'[b].cur], th'[b].owner, th'[b].idx)
                    /\ Full(segs'[th'[b].cur], th'[b].idx)
  BY DEF WriteWhole, Laid, Full, Beside
<1>1. QED
  BY DEF WriteWhole

-----------------------------------------------------------------------------
(* _blog(): reservations and copies.                                       *)

(* A record put at the end of the others. *)
LEMMA LaidAdd ==
  ASSUME NEW S \in SUBSET Segs, NEW o, NEW e \in Nat, PrefixLen <= e, Laid(S, o, e),
         NEW r \in Segs, r.at = e, r.len >= 1, r.by = o
  PROVE  /\ Laid(S \cup {r}, o, e + r.len)
         /\ \A s \in S : Beside(r, s) /\ Beside(s, r)
         /\ Full(S, e) => Full(S \cup {r}, e + r.len)
<1> USE BblogAssumption
<1>f. PICK f \in Int : f = e + r.len
  BY DEF Segs
<1>1. \A s \in S \cup {r} : s.at \in Nat /\ s.len \in Nat
  BY DEF Segs
<1>2. \A s \in S : Beside(r, s) /\ Beside(s, r)
  BY <1>1 DEF Laid, Beside
<1>3. \A s \in S \cup {r} : s.len >= 1 /\ s.at >= PrefixLen /\ s.at + s.len <= f /\ s.by = o
  BY <1>1, <1>f DEF Laid
<1>4. \A s1, s2 \in S \cup {r} : s1 # s2 => Beside(s1, s2)
  BY <1>2 DEF Laid
<1>5. ASSUME Full(S, e), NEW x \in PrefixLen .. (f - 1)
      PROVE  \E s \in S \cup {r} : s.at <= x /\ x < s.at + s.len
  <2>1. CASE x < e
    BY <1>1, <1>f, <1>5, <2>1 DEF Full
  <2>2. CASE ~(x < e)
    BY <1>1, <1>f, <2>2
  <2>3. QED
    BY <2>1, <2>2
<1>6. Laid(S \cup {r}, o, f)
  BY <1>3, <1>4, Zenon DEF Laid
<1>7. Full(S, e) => Full(S \cup {r}, f)
  BY <1>5, Zenon DEF Full
<1>8. QED
  BY <1>2, <1>6, <1>7, <1>f

(* The slots of a buffer are records. *)
LEMMA SlotsType ==
  ASSUME TypeOK, NEW p \in Addrs
  PROVE  Slots(p) \subseteq Segs /\ \A a \in Actors : Reserved(a) \in Segs
<1>1. ASSUME NEW a \in Actors PROVE Reserved(a) \in Segs
  <2>1. th[a] \in Locals
    BY DEF TypeOK
  <2>2. QED
    BY <2>1 DEF Reserved, Locals, Segs, TypeOK
<1>2. At(p, "copy") \subseteq Actors
  BY DEF At
<1>3. QED
  BY <1>1, <1>2 DEF Slots, TypeOK

(* What the fetch-and-add of _blog() does. *)
LEMMA AddStep ==
  ASSUME TypeOK, RolesOK, NEW t \in Actors, FetchAndAdd(t)
  PROVE  LET p == th[t].cur
             n == th[t].size
             w == header[p]
         IN /\ p \in Addrs /\ w \in Words /\ w.ref \in Int /\ w.idx \in Nat
            /\ n \in 1 .. BufferSize /\ n \in Nat
            /\ Sound(t) /\ GoodPtr(w) /\ pc[t] = "add"
            /\ header'[p] = add(w, n, 1) /\ header'[p].ref = w.ref + 1
            /\ \A q \in Addrs : q # p => header'[q] = header[q] /\ debt'[q] = debt[q]
            /\ \A q \in Addrs : q # p => (q \in torn' <=> q \in torn)
            /\ torn \subseteq torn' /\ segs' = segs /\ pid' = pid
            /\ \A b \in Actors : b # t => pc'[b] = pc[b] /\ th'[b] = th[b]
            /\ \A b \in Actors : /\ th'[b].cur = th[b].cur /\ Sound(b)' = Sound(b)
                                 /\ th'[b].size = th[b].size /\ th'[b].rec = th[b].rec
            /\ th'[t].idx = w.idx
            /\ \/ /\ pc'[t] = "copy" /\ w.pid = pid /\ w.idx + n < Limit
                  /\ debt' = debt /\ (p \notin torn' => debt[p] = 0)
               \/ pc'[t] = "undo" /\ debt'[p] = debt[p] + n /\ torn' = torn
<1>p. PICK p \in Addrs : p = th[t].cur
  BY DEF FetchAndAdd, Sound, TypeOK, Locals
<1>w. PICK w \in Words : w = header[p]
  BY DEF TypeOK
<1>n. PICK n \in 1 .. BufferSize : n = th[t].size
  BY DEF FetchAndAdd, RolesOK, Appending
<1>l. \A b \in Actors : th[b] \in Locals
  BY DEF TypeOK
<1>1. w.ref \in Int /\ w.idx \in Nat /\ n \in Nat
  BY BblogAssumption DEF Words
<1>2. Sound(t) /\ GoodPtr(w) /\ pc[t] = "add"
  BY <1>p, <1>w DEF FetchAndAdd
<1>3. header' = [header EXCEPT ![p] = add(w, n, 1)]
  BY <1>p, <1>w, <1>n DEF FetchAndAdd
<1>4. add(w, n, 1).ref = w.ref + 1
  BY <1>1, AddType
<1>5. header'[p] = add(w, n, 1) /\ \A q \in Addrs : q # p => header'[q] = header[q]
  BY <1>3 DEF TypeOK
<1>6. /\ segs' = segs /\ pid' = pid /\ th'[t].idx = w.idx
      /\ \A b \in Actors : b # t => pc'[b] = pc[b] /\ th'[b] = th[b]
      /\ \A b \in Actors : /\ th'[b].cur = th[b].cur /\ th'[b].stale = th[b].stale
                           /\ th'[b].size = th[b].size /\ th'[b].rec = th[b].rec
  BY <1>p, <1>w, <1>l DEF FetchAndAdd, Goto, process, TypeOK, Locals
<1>7. \A b \in Actors : Sound(b)' = Sound(b)
  BY <1>6 DEF Sound
<1>r. PICK room \in BOOLEAN : room <=> w.pid = pid /\ w.idx + n < Limit
  OBVIOUS
<1>8. /\ pc'[t] = IF room THEN "copy" ELSE "undo"
      /\ debt' = IF room THEN debt ELSE [debt EXCEPT ![p] = @ + n]
      /\ torn' = IF room /\ debt[p] # 0 THEN torn \cup {p} ELSE torn
  BY <1>p, <1>w, <1>n, <1>r DEF FetchAndAdd, Reserve, Goto, TypeOK
<1>9. /\ \A q \in Addrs : q # p => debt'[q] = debt[q]
      /\ room => debt' = debt
      /\ ~room => debt'[p] = debt[p] + n
  BY <1>8 DEF TypeOK
<1>10. QED
  BY <1>p, <1>w, <1>n, <1>r, <1>1, <1>2, <1>4, <1>5, <1>6, <1>7, <1>8, <1>9

(* The new reference has a holder. *)
LEMMA AddHolder ==
  ASSUME TypeOK, RolesOK, NEW t \in Actors, FetchAndAdd(t), NEW p, p = th[t].cur
  PROVE  Leaked(p)' <=> Leaked(p)
<1>1. /\ Sound(t) /\ pc[t] = "add" /\ pc'[t] \in {"copy", "undo"}
      /\ header[p].ref \in Int /\ header'[p].ref = header[p].ref + 1
      /\ \A b \in Actors : b # t => pc'[b] = pc[b]
      /\ \A b \in Actors : th'[b].cur = th[b].cur /\ Sound(b)' = Sound(b)
  BY AddStep
<1>2. Holders(p)' = Holders(p) \cup {t} /\ t \notin Holders(p)
  BY <1>1 DEF Holders, Holding
<1>3. Cardinality(Holders(p)') = Cardinality(Holders(p)) + 1
  BY <1>2, HoldersFinite, FS_AddElement
<1>4. Cardinality(Holders(p)) \in Nat
  BY HoldersFinite, FS_CardinalityType
<1>5. QED
  BY <1>1, <1>3, <1>4 DEF Leaked

(* The bytes of a reservation that fails are among those to give back. *)
LEMMA AddBytes ==
  ASSUME TypeOK, RolesOK, NEW t \in Actors, FetchAndAdd(t), NEW p, p = th[t].cur
  PROVE  /\ pc'[t] = "undo" =>
              Cardinality(Bytes(p)') = Cardinality(Bytes(p)) + th[t].size
         /\ pc'[t] = "copy" => Bytes(p)' = Bytes(p)
<1>n. PICK n \in Nat : n = th[t].size /\ n \in 1 .. BufferSize
  BY AddStep
<1>1. /\ Sound(t) /\ pc[t] = "add"
      /\ \A b \in Actors : b # t => pc'[b] = pc[b]
      /\ \A b \in Actors : /\ th'[b].cur = th[b].cur /\ Sound(b)' = Sound(b)
                           /\ th'[b].size = th[b].size
  BY AddStep
<1>2. CASE pc'[t] = "undo"
  <2>1. At(p, "undo")' = At(p, "undo") \cup {t} /\ t \notin At(p, "undo")
    BY <1>1, <1>2 DEF At
  <2>2. ASSUME NEW x \in Bytes(p)' PROVE x \in Bytes(p) \cup ({t} \X (1 .. n))
    <3>1. /\ x \in Actors \X (1 .. BufferSize) /\ x[1] \in At(p, "undo") \cup {t}
          /\ x[2] <= th[x[1]].size
      BY <1>1, <2>1 DEF Bytes
    <3>2. CASE x[1] = t
      BY <1>n, <3>1, <3>2
    <3>3. CASE x[1] # t
      BY <3>1, <3>3 DEF Bytes
    <3>4. QED
      BY <3>2, <3>3
  <2>3. ASSUME NEW x \in Bytes(p) PROVE x \in Bytes(p)'
    BY <1>1, <2>1 DEF Bytes
  <2>4. ASSUME NEW x \in {t} \X (1 .. n) PROVE x \in Bytes(p)'
    <3>1. x[1] = t /\ x[2] \in 1 .. n /\ x \in Actors \X (1 .. BufferSize)
      BY <1>n, BblogAssumption
    <3>2. x[2] <= th'[t].size
      BY <1>n, <1>1, <3>1
    <3>3. QED
      BY <2>1, <3>1, <3>2 DEF Bytes
  <2>5. Bytes(p)' = Bytes(p) \cup ({t} \X (1 .. n))
    BY <2>2, <2>3, <2>4
  <2>6. \A k : <<t, k>> \notin Bytes(p)
    BY <2>1 DEF Bytes
  <2>7. Cardinality(Bytes(p) \cup ({t} \X (1 .. n))) = Cardinality(Bytes(p)) + n
    BY <2>6, BytesFinite, CountMore
  <2>8. QED
    BY <1>n, <1>2, <2>5, <2>7
<1>3. CASE pc'[t] = "copy"
  <2>1. At(p, "undo")' = At(p, "undo")
    BY <1>1, <1>3 DEF At
  <2>2. Bytes(p)' = Bytes(p)
    BY <1>1, <2>1 DEF Bytes
  <2>3. QED
    BY <1>3, <2>2
<1>4. QED
  BY <1>2, <1>3

(* A reservation lands behind all others, unless it fails, or tears the    *)
(* buffer.                                                                 *)
LEMMA RecordAdd ==
  ASSUME TypeOK, TypeOK', FlushInv, RecordInv, NEW t \in Actors, FetchAndAdd(t)
  PROVE  BuffersWhole' /\ WriteWhole'
<1> USE DEF RecordInv
<1>a. Limit \in Nat /\ PrefixLen \in Nat /\ IdxMod \in Nat /\ IdxMod > Limit
  BY BblogAssumption
<1>p. PICK p \in Addrs : p = th[t].cur
  BY AddStep
<1>w. PICK w \in Words : w = header[p]
  BY <1>p, AddStep
<1>n. PICK n \in Nat : n = th[t].size /\ n >= 1
  BY AddStep
<1>1. /\ Sound(t) /\ GoodPtr(w) /\ pc[t] = "add" /\ w.idx \in Nat
      /\ header'[p] = add(w, n, 1)
      /\ \A q \in Addrs : q # p => header'[q] = header[q] /\ debt'[q] = debt[q]
      /\ \A q \in Addrs : q # p => (q \in torn' <=> q \in torn)
      /\ torn \subseteq torn' /\ segs' = segs /\ pid' = pid
      /\ \A b \in Actors : b # t => pc'[b] = pc[b] /\ th'[b] = th[b]
      /\ \A b \in Actors : /\ th'[b].cur = th[b].cur /\ Sound(b)' = Sound(b)
                           /\ th'[b].size = th[b].size /\ th'[b].rec = th[b].rec
      /\ th'[t].idx = w.idx
  BY <1>p, <1>w, <1>n, AddStep
<1>2. \/ /\ pc'[t] = "copy" /\ w.pid = pid /\ w.idx + n < Limit
         /\ debt' = debt /\ (p \notin torn' => debt[p] = 0)
      \/ pc'[t] = "undo" /\ debt'[p] = debt[p] + n /\ torn' = torn
  BY <1>p, <1>w, <1>n, AddStep
<1>3. Leaked(p)' <=> Leaked(p)
  BY <1>p, AddHolder
<1>4. debt[p] \in Int /\ Val(w) \in Int /\ Val(header'[p]) = Val(w) + n
  BY <1>1, AddVal DEF TypeOK
<1>5. ASSUME NEW q \in Addrs, q # p PROVE Kept(q)'
  BY <1>p, <1>1, <1>5, OtherBuffer DEF BuffersWhole
<1>6. Kept(p) /\ Repaid(p) /\ (p \notin torn => Content(p) /\ Separate(p))
  BY <1>w, <1>1 DEF BuffersWhole, Kept
<1>7. At(p, "copy") \subseteq Actors /\ t \notin At(p, "copy")
  BY <1>1 DEF At
<1>8. \A b \in At(p, "copy") : Reserved(b)' = Reserved(b)
  BY <1>1, <1>7 DEF Reserved
<1>9. ASSUME pc'[t] = "undo" PROVE Kept(p)'
  <2>1. debt'[p] = debt[p] + n /\ torn' = torn
    BY <1>2, <1>9
  <2>2. Repaid(p)'
    <3>1. Cardinality(Bytes(p)') = Cardinality(Bytes(p)) + n
      BY <1>p, <1>n, <1>9, AddBytes
    <3>2. QED
      BY <1>3, <1>4, <1>6, <2>1, <3>1 DEF Repaid
  <2>3. At(p, "copy")' = At(p, "copy")
    BY <1>1, <1>9 DEF At
  <2>4. Slots(p)' = Slots(p) /\ (Separate(p) => Separate(p)')
    BY <1>1, <1>8, <2>3 DEF Slots, Separate, Beside
  <2>5. ASSUME Content(p) PROVE Content(p)'
    <3>1. PICK o \in Int, e \in PrefixLen .. (IdxMod - 1) :
            Ends(p, o, e) /\ Laid(Slots(p), o, e) /\ (Leaked(p) \/ Full(Slots(p), e))
      BY <2>5 DEF Content
    <3>2. o * IdxMod \in Int
      BY <1>a
    <3>3. Ends(p, o, e)'
      BY <1>w, <1>4, <2>1, <3>1, <3>2 DEF Ends
    <3>4. Laid(Slots(p), o, e)' /\ (Full(Slots(p), e) => Full(Slots(p), e)')
      BY <2>4, <3>1 DEF Laid, Full, Beside
    <3>5. QED
      BY <1>3, <3>1, <3>3, <3>4 DEF Content
  <2>6. QED
    BY <1>6, <2>1, <2>2, <2>4, <2>5 DEF Kept
<1>10. ASSUME pc'[t] = "copy" PROVE Kept(p)'
  <2>1. w.pid = pid /\ w.idx + n < Limit /\ debt' = debt /\ (p \notin torn' => debt[p] = 0)
    BY <1>2, <1>10
  <2>2. Repaid(p)'
    BY <1>p, <1>3, <1>6, <1>10, <2>1, AddBytes DEF Repaid
  <2>3. ASSUME p \notin torn' PROVE Separate(p)' /\ Content(p)'
    <3>0. p \notin torn /\ debt[p] = 0 /\ debt'[p] = 0
      BY <1>1, <2>1, <2>3
    <3>1. PICK o \in Int, e \in PrefixLen .. (IdxMod - 1) :
            Ends(p, o, e) /\ Laid(Slots(p), o, e) /\ (Leaked(p) \/ Full(Slots(p), e))
      BY <1>6, <3>0 DEF Content
    <3>2. o * IdxMod \in Int /\ e \in 0 .. IdxMod - 1 /\ e \in Nat
      BY <1>a
    <3>3. Val(w) = o * IdxMod + e
      BY <1>w, <3>0, <3>1, <3>2 DEF Ends
    <3>4. o = pid /\ e = w.idx
      BY <2>1, <3>2, <3>3, ValUnique
    <3>5. PICK r \in Segs : /\ r = Reserved(t)' /\ r.at = e /\ r.len = n /\ r.by = o
      <4>1. Reserved(t)' \in Segs
        BY <1>p, SlotsType DEF TypeOK, Reserved, Locals, Segs
      <4>2. Reserved(t)' = [at |-> w.idx, len |-> n, rec |-> th[t].rec, by |-> pid]
        BY <1>n, <1>1 DEF Reserved
      <4>3. QED
        BY <3>4, <4>1, <4>2
    <3>6. At(p, "copy")' = At(p, "copy") \cup {t}
      BY <1>p, <1>1, <1>10 DEF At
    <3>7. Slots(p)' = Slots(p) \cup {r}
      BY <1>1, <1>7, <1>8, <3>5, <3>6 DEF Slots
    <3>8. /\ Laid(Slots(p) \cup {r}, o, e + n)
          /\ \A s \in Slots(p) : Beside(r, s) /\ Beside(s, r)
          /\ Full(Slots(p), e) => Full(Slots(p) \cup {r}, e + n)
      <4>1. Slots(p) \in SUBSET Segs /\ PrefixLen <= e /\ r.len >= 1
        BY <1>a, <1>n, <3>5, SlotsType
      <4>2. QED
        BY <3>1, <3>2, <3>5, <4>1, LaidAdd
    <3>9. Separate(p)'
      <4>1. Separate(p)
        BY <1>6, <3>0
      <4>2. /\ \A s \in segs[p] : Beside(r, s)
            /\ \A b \in At(p, "copy") : Beside(r, Reserved(b)) /\ Beside(Reserved(b), r)
        BY <3>8 DEF Slots
      <4>3. /\ \A a \in At(p, "copy") \cup {t} :
                 /\ \A s \in segs'[p] : Beside(Reserved(a)', s)
                 /\ \A b \in At(p, "copy") \cup {t} : b # a => Beside(Reserved(a)', Reserved(b)')
        BY <1>1, <1>7, <1>8, <3>5, <4>1, <4>2 DEF Separate
      <4>4. QED
        BY <3>6, <4>3 DEF Separate, Beside
    <3>10. e + n \in PrefixLen .. (IdxMod - 1) /\ e + n < Limit
      BY <1>a, <1>n, <2>1, <3>4
    <3>11. Ends(p, o, e + n)'
      BY <1>4, <3>0, <3>2, <3>3, <3>10 DEF Ends
    <3>12. Laid(Slots(p), o, e + n)' /\ (Full(Slots(p), e) => Full(Slots(p), e + n)')
      BY <3>7, <3>8 DEF Laid, Full, Beside
    <3>13. Content(p)'
      BY <1>3, <3>1, <3>10, <3>11, <3>12 DEF Content
    <3>14. QED
      BY <3>9, <3>13
  <2>4. QED
    BY <2>2, <2>3 DEF Kept
<1>11. BuffersWhole'
  BY <1>2, <1>5, <1>9, <1>10 DEF BuffersWhole
<1>12. WriteWhole'
  <2>1. \A b \in Actors : pc'[b] = "write" /\ Sound(b)' => b # t
    BY <1>2
  <2>2. QED
    BY <1>1, <2>1, WriteFrame
<1>13. QED
  BY <1>11, <1>12

(* A record is copied to where room was reserved for it and nothing lies,  *)
(* unless the buffer is torn.                                              *)
LEMMA RecordCopy ==
  ASSUME TypeOK, TypeOK', FlushInv, RecordInv, NEW t \in Actors, Memcpy(t)
  PROVE  BuffersWhole' /\ WriteWhole'
<1> USE DEF RecordInv
<1>0. PICK p \in Addrs : p = th[t].cur
  BY DEF Memcpy, Sound, TypeOK, Locals
<1>r. PICK r : r = Reserved(t)
  OBVIOUS
<1>1. /\ pc[t] = "copy" /\ Sound(t) /\ pc'[t] = "unref" /\ th' = th /\ header' = header
      /\ pid' = pid /\ debt' = debt /\ torn' = torn
      /\ \A b \in Actors : b # t => pc'[b] = pc[b]
  BY DEF Memcpy, Goto, process, history, TypeOK
<1>2. /\ segs'[p] = {s \in segs[p] : Extent(s) \cap Extent(r) = {}} \cup {r}
      /\ \A q \in Addrs : q # p => segs'[q] = segs[q]
  BY <1>0, <1>r DEF Memcpy, Reserved, TypeOK
<1>3. \A b \in Actors : Sound(b)' = Sound(b) /\ Reserved(b)' = Reserved(b)
  BY <1>1 DEF Sound, Reserved
<1>4. ASSUME NEW q \in Addrs, q # p PROVE Kept(q)'
  BY <1>0, <1>1, <1>2, <1>4, OtherBuffer DEF BuffersWhole
<1>5. Leaked(p)' <=> Leaked(p)
  <2>1. Holders(p)' = Holders(p)
    BY <1>1, <1>3 DEF Holders, Holding
  <2>2. QED
    BY <1>1, <2>1 DEF Leaked
<1>6. At(p, "undo")' = At(p, "undo") /\ At(p, "copy")' = At(p, "copy") \ {t}
  BY <1>1, <1>3 DEF At
<1>7. t \in At(p, "copy") /\ At(p, "copy") \subseteq Actors
  BY <1>0, <1>1 DEF At
<1>8. Repaid(p) => Repaid(p)'
  <2>1. Bytes(p)' = Bytes(p)
    BY <1>1, <1>6 DEF Bytes
  <2>2. QED
    BY <1>1, <1>5, <2>1 DEF Repaid
<1>9. ASSUME Separate(p) PROVE Separate(p)' /\ Slots(p)' = Slots(p)
  <2>1. ASSUME NEW s \in segs[p] PROVE Extent(s) \cap Extent(r) = {}
    <3>1. s \in Segs /\ r \in Segs
      BY <1>r, <1>7, SlotsType DEF Slots
    <3>2. /\ s.at \in Nat /\ s.len \in Nat /\ r.at \in Nat /\ r.len \in Nat
          /\ s.at + s.len <= r.at \/ r.at + r.len <= s.at
      BY <1>r, <1>7, <1>9, <3>1 DEF Separate, Beside, Segs
    <3>3. QED
      BY <3>2 DEF Extent
  <2>2. segs'[p] = segs[p] \cup {r}
    BY <1>2, <2>1
  <2>3. Slots(p)' = Slots(p)
    <3>1. Slots(p)' = (segs[p] \cup {r}) \cup {Reserved(b) : b \in At(p, "copy") \ {t}}
      BY <1>3, <1>6, <1>7, <2>2 DEF Slots
    <3>2. QED
      BY <1>r, <1>7, <3>1 DEF Slots
  <2>4. \A a \in At(p, "copy") \ {t} :
          /\ \A s \in segs'[p] : Beside(Reserved(a)', s)
          /\ \A b \in At(p, "copy") \ {t} : b # a => Beside(Reserved(a)', Reserved(b)')
    BY <1>3, <1>7, <1>9, <1>r, <2>2 DEF Separate
  <2>5. Separate(p)'
    BY <1>6, <2>4 DEF Separate, Beside
  <2>6. QED
    BY <2>3, <2>5
<1>10. ASSUME Separate(p), Content(p) PROVE Content(p)'
  <2>1. PICK o \in Int, e \in PrefixLen .. (IdxMod - 1) :
          Ends(p, o, e) /\ Laid(Slots(p), o, e) /\ (Leaked(p) \/ Full(Slots(p), e))
    BY <1>10 DEF Content
  <2>2. Ends(p, o, e)'
    BY <1>1, <2>1 DEF Ends, Val
  <2>3. Laid(Slots(p), o, e)' /\ (Full(Slots(p), e) => Full(Slots(p), e)')
    BY <1>9, <1>10, <2>1 DEF Laid, Full, Beside
  <2>4. QED
    BY <1>5, <2>1, <2>2, <2>3 DEF Content
<1>11. Kept(p)'
  <2>1. Kept(p)
    BY DEF BuffersWhole
  <2>2. QED
    BY <1>1, <1>8, <1>9, <1>10, <2>1 DEF Kept
<1>12. BuffersWhole'
  BY <1>4, <1>11 DEF BuffersWhole
<1>13. WriteWhole'
  <2> SUFFICES ASSUME NEW b \in Actors, pc'[b] = "write", Sound(b)'
               PROVE  pc[b] = "write" /\ Sound(b) /\ segs'[th[b].cur] = segs[th[b].cur]
    BY <1>1, WriteFrame
  <2>1. b # t /\ pc[b] = "write" /\ Sound(b) /\ th[b].cur \in Addrs
    BY <1>1, <1>3 DEF Sound, TypeOK, Locals
  <2>2. th[b].cur # p
    BY <1>0, <1>1, <2>1 DEF FlushInv, ExclusiveFlush, Holding
  <2>3. QED
    BY <1>2, <2>1, <2>2
<1>14. QED
  BY <1>12, <1>13

(* What giving a reference back does, with the room or not. *)
LEMMA DropStep ==
  ASSUME TypeOK, RolesOK, NEW t \in Actors, Unref(t) \/ Undo(t)
  PROVE  LET p == th[t].cur
             n == IF pc[t] = "undo" THEN th[t].size ELSE 0
             w == header[p]
         IN /\ p \in Addrs /\ w \in Words /\ w.ref \in Int
            /\ n \in Nat /\ n \in 0 .. BufferSize
            /\ Sound(t) /\ pc[t] \in {"unref", "undo"} /\ pc'[t] \in {"idle", "check"}
            /\ header'[p].ref = w.ref - 1 /\ header'[p].ptr = w.ptr
            /\ Val(header'[p]) = Val(w) - n /\ Val(w) \in Int
            /\ debt'[p] = debt[p] - n
            /\ \A q \in Addrs : q # p => header'[q] = header[q] /\ debt'[q] = debt[q]
            /\ torn' = torn /\ segs' = segs /\ pid' = pid
            /\ \A b \in Actors : b # t => pc'[b] = pc[b] /\ th'[b] = th[b]
            /\ th'[t].cur \in {p, NULL}
<1>p. PICK p \in Addrs : p = th[t].cur
  BY DEF Unref, Undo, Sound, TypeOK, Locals
<1>w. PICK w \in Words : w = header[p]
  BY DEF TypeOK
<1>m. PICK n : n = IF pc[t] = "undo" THEN th[t].size ELSE 0
  OBVIOUS
<1>i. Idle.cur = NULL
  BY DEF Idle, Local
<1>1. Sound(t) /\ pc[t] \in {"unref", "undo"} /\ w.ref \in Int
  BY DEF Unref, Undo, Words
<1>2. n \in Nat /\ n \in 0 .. BufferSize
  BY <1>m, <1>1, BblogAssumption DEF RolesOK, Appending
<1>d. PICK d \in Int : d + n = 0 /\ header' = [header EXCEPT ![p] = add(w, d, -1)]
  <2>1. CASE Unref(t)
    <3>1. 0 \in Int /\ 0 + n = 0
      BY <1>m, <2>1 DEF Unref
    <3>2. QED
      BY <1>p, <1>w, <2>1, <3>1 DEF Unref
  <2>2. CASE Undo(t)
    <3>1. n = th[t].size
      BY <1>m, <2>2 DEF Undo
    <3>2. -n \in Int /\ (-n) + n = 0
      BY <1>2, <3>1
    <3>3. QED
      BY <1>p, <1>w, <2>2, <3>1, <3>2 DEF Undo
  <2>3. QED
    BY <2>1, <2>2
<1>3. header'[p] = add(w, d, -1) /\ \A q \in Addrs : q # p => header'[q] = header[q]
  BY <1>d DEF TypeOK
<1>4. add(w, d, -1).ref = w.ref - 1 /\ add(w, d, -1).ptr = w.ptr
  BY <1>1, AddType
<1>5. Val(header'[p]) = Val(w) + d /\ Val(w) \in Int
  BY <1>3, AddVal
<1>6. Val(header'[p]) = Val(w) - n
  BY <1>2, <1>d, <1>5
<1>7. debt'[p] = debt[p] - n /\ \A q \in Addrs : q # p => debt'[q] = debt[q]
  <2>1. CASE Unref(t)
    <3>1. n = 0 /\ debt' = debt /\ debt[p] \in Int
      BY <1>m, <2>1 DEF Unref, history, TypeOK
    <3>2. QED
      BY <3>1
  <2>2. CASE Undo(t)
    <3>1. n = th[t].size
      BY <1>m, <2>2 DEF Undo
    <3>2. QED
      BY <1>p, <2>2, <3>1 DEF Undo, TypeOK
  <2>3. QED
    BY <2>1, <2>2
<1>8. /\ torn' = torn /\ segs' = segs /\ pid' = pid /\ pc'[t] \in {"idle", "check"}
      /\ \A b \in Actors : b # t => pc'[b] = pc[b] /\ th'[b] = th[b]
      /\ th'[t].cur \in {p, NULL}
  BY <1>p, <1>i DEF Unref, Undo, Goto, process, history, TypeOK
<1>9. QED
  BY <1>p, <1>w, <1>m, <1>1, <1>2, <1>3, <1>4, <1>5, <1>6, <1>7, <1>8

(* The reference that is given back was its holder's. *)
LEMMA DropHolder ==
  ASSUME TypeOK, RolesOK, NEW t \in Actors, Unref(t) \/ Undo(t), NEW p, p = th[t].cur
  PROVE  Leaked(p)' <=> Leaked(p)
<1>1. /\ Sound(t) /\ pc[t] \in {"unref", "undo"} /\ pc'[t] \in {"idle", "check"}
      /\ header[p].ref \in Int /\ header'[p].ref = header[p].ref - 1
      /\ \A b \in Actors : b # t => pc'[b] = pc[b] /\ th'[b] = th[b]
  BY DropStep
<1>2. Holders(p)' = Holders(p) \ {t} /\ t \in Holders(p)
  BY <1>1 DEF Holders, Holding, Sound
<1>3. Cardinality(Holders(p)') = Cardinality(Holders(p)) - 1
  BY <1>2, HoldersFinite, FS_RemoveElement
<1>4. Cardinality(Holders(p)) \in Nat
  BY HoldersFinite, FS_CardinalityType
<1>5. QED
  BY <1>1, <1>3, <1>4 DEF Leaked

(* The bytes that are given back need not be given back any more. *)
LEMMA DropBytes ==
  ASSUME TypeOK, RolesOK, NEW t \in Actors, Unref(t) \/ Undo(t), NEW p, p = th[t].cur
  PROVE  /\ pc[t] = "undo" =>
              Cardinality(Bytes(p)) = Cardinality(Bytes(p)') + th[t].size
         /\ pc[t] = "unref" => Bytes(p)' = Bytes(p)
<1>1. /\ Sound(t) /\ pc[t] \in {"unref", "undo"} /\ pc'[t] \in {"idle", "check"}
      /\ \A b \in Actors : b # t => pc'[b] = pc[b] /\ th'[b] = th[b]
  BY DropStep
<1>s. At(p, "undo")' = At(p, "undo") \ {t}
  BY <1>1 DEF At, Sound
<1>2. CASE pc[t] = "undo"
  <2>n. PICK n \in Nat : n = th[t].size /\ n \in 0 .. BufferSize
    BY <1>2, DropStep
  <2>1. t \in At(p, "undo")
    BY <1>1, <1>2 DEF At
  <2>2. ASSUME NEW x \in Bytes(p) PROVE x \in Bytes(p)' \cup ({t} \X (1 .. n))
    <3>1. x \in Actors \X (1 .. BufferSize) /\ x[1] \in At(p, "undo") /\ x[2] <= th[x[1]].size
      BY DEF Bytes
    <3>2. CASE x[1] = t
      BY <2>n, <3>1, <3>2
    <3>3. CASE x[1] # t
      BY <1>1, <1>s, <3>1, <3>3 DEF Bytes
    <3>4. QED
      BY <3>2, <3>3
  <2>3. ASSUME NEW x \in Bytes(p)' PROVE x \in Bytes(p)
    <3>1. /\ x \in Actors \X (1 .. BufferSize) /\ x[1] \in At(p, "undo") \ {t}
          /\ x[2] <= th'[x[1]].size
      BY <1>s DEF Bytes
    <3>2. th'[x[1]] = th[x[1]]
      BY <1>1, <3>1
    <3>3. QED
      BY <3>1, <3>2 DEF Bytes
  <2>4. ASSUME NEW x \in {t} \X (1 .. n) PROVE x \in Bytes(p)
    <3>1. x[1] = t /\ x[2] \in 1 .. n /\ x \in Actors \X (1 .. BufferSize)
      BY <2>n, BblogAssumption
    <3>2. x[2] <= th[t].size
      BY <2>n, <3>1
    <3>3. QED
      BY <2>1, <3>1, <3>2 DEF Bytes
  <2>5. Bytes(p) = Bytes(p)' \cup ({t} \X (1 .. n))
    BY <2>2, <2>3, <2>4
  <2>6. \A k : <<t, k>> \notin Bytes(p)'
    BY <1>s DEF Bytes
  <2>f. IsFiniteSet(Bytes(p)')
    <3>1. Bytes(p)' \subseteq Bytes(p)
      BY <2>3
    <3>2. QED
      BY <3>1, BytesFinite, FS_Subset
  <2>7. Cardinality(Bytes(p)' \cup ({t} \X (1 .. n))) = Cardinality(Bytes(p)') + n
    BY <2>6, <2>f, CountMore
  <2>8. QED
    BY <1>2, <2>n, <2>5, <2>7
<1>3. CASE pc[t] = "unref"
  <2>1. At(p, "undo")' = At(p, "undo") /\ t \notin At(p, "undo") /\ At(p, "undo") \subseteq Actors
    BY <1>s, <1>3 DEF At
  <2>2. \A b \in At(p, "undo") : th'[b] = th[b]
    BY <1>1, <2>1
  <2>3. Bytes(p)' = Bytes(p)
    BY <2>1, <2>2 DEF Bytes
  <2>4. QED
    BY <1>3, <2>3
<1>4. QED
  BY <1>1, <1>2, <1>3

(* A reference is given back, with the room or not: the records stay. *)
LEMMA RecordDrop ==
  ASSUME TypeOK, TypeOK', FlushInv, RecordInv, NEW t \in Actors, Unref(t) \/ Undo(t)
  PROVE  BuffersWhole' /\ WriteWhole'
<1> USE DEF RecordInv
<1>a. IdxMod \in Nat /\ NULL \notin Addrs
  BY BblogAssumption
<1>p. PICK p \in Addrs : p = th[t].cur
  BY DropStep
<1>n. PICK n \in Nat : n = IF pc[t] = "undo" THEN th[t].size ELSE 0
  BY DropStep
<1>1. /\ Sound(t) /\ pc[t] \in {"unref", "undo"} /\ pc'[t] \in {"idle", "check"}
      /\ header[p] \in Words /\ header[p].ref \in Int
      /\ header'[p].ref = header[p].ref - 1 /\ header'[p].ptr = header[p].ptr
      /\ Val(header'[p]) = Val(header[p]) - n /\ Val(header[p]) \in Int
      /\ debt'[p] = debt[p] - n
      /\ \A q \in Addrs : q # p => header'[q] = header[q] /\ debt'[q] = debt[q]
      /\ torn' = torn /\ segs' = segs /\ pid' = pid
      /\ \A b \in Actors : b # t => pc'[b] = pc[b] /\ th'[b] = th[b]
      /\ th'[t].cur \in {p, NULL}
  BY <1>p, <1>n, DropStep
<1>2. debt[p] \in Int /\ Cardinality(Bytes(p)) \in Nat /\ Cardinality(Bytes(p)') \in Nat
  <2>1. IsFiniteSet(Bytes(p)')
    <3>1. Bytes(p)' \subseteq Actors \X (1 .. BufferSize)
      BY DEF Bytes
    <3>2. IsFiniteSet(1 .. BufferSize)
      BY BblogAssumption, FS_Interval
    <3>3. QED
      BY <3>1, <3>2, ActorsFinite, FS_Product, FS_Subset
  <2>2. QED
    BY <2>1, BytesFinite, FS_CardinalityType DEF TypeOK
<1>3. Leaked(p)' <=> Leaked(p)
  BY <1>p, DropHolder
<1>4. ASSUME NEW q \in Addrs, q # p PROVE Kept(q)'
  BY <1>a, <1>p, <1>1, <1>4, OtherBuffer DEF BuffersWhole
<1>5. GoodPtr(header'[p]) => GoodPtr(header[p])
  BY <1>1 DEF GoodPtr
<1>6. At(p, "copy")' = At(p, "copy") /\ t \notin At(p, "copy") /\ At(p, "copy") \subseteq Actors
  BY <1>1 DEF At, Sound
<1>7. \A b \in At(p, "copy") : Reserved(b)' = Reserved(b)
  BY <1>1, <1>6 DEF Reserved
<1>8. Slots(p)' = Slots(p) /\ (Separate(p) => Separate(p)')
  BY <1>1, <1>6, <1>7 DEF Slots, Separate, Beside
<1>9. Repaid(p) => Repaid(p)'
  <2>1. Cardinality(Bytes(p)) = Cardinality(Bytes(p)') + n
    <3>1. CASE pc[t] = "undo"
      BY <1>p, <1>n, <3>1, DropBytes
    <3>2. CASE pc[t] = "unref"
      <4>1. n = 0 /\ Bytes(p)' = Bytes(p)
        BY <1>p, <1>n, <3>2, DropBytes
      <4>2. QED
        BY <1>2, <4>1
    <3>3. QED
      BY <1>1, <3>1, <3>2
  <2>2. QED
    BY <1>1, <1>2, <1>3, <2>1 DEF Repaid
<1>10. ASSUME Content(p) PROVE Content(p)'
  <2>1. PICK o \in Int, e \in PrefixLen .. (IdxMod - 1) :
          Ends(p, o, e) /\ Laid(Slots(p), o, e) /\ (Leaked(p) \/ Full(Slots(p), e))
    BY <1>10 DEF Content
  <2>2. o * IdxMod \in Int /\ e \in Int
    BY <1>a, BblogAssumption
  <2>3. Ends(p, o, e)'
    BY <1>1, <1>2, <2>1, <2>2 DEF Ends
  <2>4. Laid(Slots(p), o, e)' /\ (Full(Slots(p), e) => Full(Slots(p), e)')
    BY <1>8, <2>1 DEF Laid, Full, Beside
  <2>5. QED
    BY <1>3, <2>1, <2>3, <2>4 DEF Content
<1>11. Kept(p)'
  <2>1. Kept(p)
    BY DEF BuffersWhole
  <2>2. QED
    BY <1>1, <1>5, <1>8, <1>9, <1>10, <2>1 DEF Kept
<1>12. BuffersWhole'
  BY <1>4, <1>11 DEF BuffersWhole
<1>13. WriteWhole'
  <2>1. \A b \in Actors : pc'[b] = "write" /\ Sound(b)' => b # t
    BY <1>1
  <2>2. \A b \in Actors : b # t => Sound(b)' = Sound(b)
    BY <1>1 DEF Sound
  <2>3. QED
    BY <1>1, <2>1, <2>2, WriteFrame
<1>14. QED
  BY <1>12, <1>13

-----------------------------------------------------------------------------
(* Everyone else.                                                          *)

(* free(p) changes what others believe of p, and nothing they remember. *)
LEMMA FreedKeeps ==
  ASSUME TypeOK, NEW a \in Actors, NEW p, th' = Freed(p, a)
  PROVE  \A b \in Actors : b # a =>
           /\ th'[b].cur = th[b].cur /\ th'[b].new = th[b].new /\ th'[b].idx = th[b].idx
           /\ th'[b].size = th[b].size /\ th'[b].rec = th[b].rec
           /\ th'[b].owner = th[b].owner
<1>1. ASSUME NEW b \in Actors, b # a
      PROVE  /\ th'[b].cur = th[b].cur /\ th'[b].new = th[b].new /\ th'[b].idx = th[b].idx
             /\ th'[b].size = th[b].size /\ th'[b].rec = th[b].rec
             /\ th'[b].owner = th[b].owner
  <2>1. th'[b] = [th[b] EXCEPT !.stale = @ \/ th[b].cur = p]
    BY <1>1 DEF Freed
  <2>2. th[b] \in Locals
    BY DEF TypeOK
  <2>3. QED
    BY <2>1, <2>2 DEF Locals
<1>2. QED
  BY <1>1

(* swap_buffers(), up to the new buffer's word, touches no buffer. *)
LEMMA RecordSwap ==
  ASSUME TypeOK, TypeOK', FlushInv, RecordInv, NEW a \in Actors,
         SwapCheck(a) \/ Alloc(a) \/ AllocFail(a) \/ SwapCas(a)
  PROVE  BuffersWhole' /\ WriteWhole'
<1> USE DEF RecordInv, Goto, Return, buffers, process, history
<1>r. ReturnPc(a) \in {"sleep", "none", "done", "load", "idle"}
  BY ReturnRole
<1>1. CASE SwapCheck(a) \/ Alloc(a) \/ AllocFail(a)
  <2>1. /\ header' = header /\ segs' = segs /\ pid' = pid /\ debt' = debt /\ torn' = torn
        /\ \A b \in Actors : b # a => pc'[b] = pc[b] /\ th'[b] = th[b]
        /\ pc[a] \in {"check", "alloc"}
        /\ pc'[a] \in {"alloc", "init", "fpid", "sleep", "none", "done", "load", "idle"}
    BY <1>1, <1>r DEF SwapCheck, Alloc, AllocFail, TypeOK
  <2>2. QED
    BY <2>1, RecordFrame DEF Holding, Sound
<1>4. CASE SwapCas(a)
  <2>1. /\ header' = header /\ segs' = segs /\ pid' = pid /\ debt' = debt /\ torn' = torn
        /\ \A b \in Actors : b # a => pc'[b] = pc[b]
        /\ pc[a] = "cas" /\ pc'[a] \in {"fpid", "sleep", "none", "done", "load", "idle"}
    BY <1>4, <1>r DEF SwapCas, TypeOK
  <2>2. \A b \in Actors : Sound(b) => th[b].cur # th[a].new
    BY <2>1 DEF FlushInv, NewPrivate, Making
  <2>3. CASE procPibr = th[a].cur
    <3>1. \A b \in Actors : b # a => th'[b] = th[b]
      BY <1>4, <2>3 DEF SwapCas, TypeOK
    <3>2. QED
      BY <2>1, <3>1, RecordFrame DEF Holding, Sound
  <2>4. CASE procPibr # th[a].cur
    <3>1. th' = Freed(th[a].new, a)
      BY <1>4, <2>4 DEF SwapCas
    <3>2. \A b \in Actors : b # a => Sound(b)' = (Sound(b) /\ th[b].cur # th[a].new)
      BY <3>1, FreedFacts
    <3>3. \A b \in Actors : b # a => Sound(b)' = Sound(b)
      BY <2>2, <3>2, Zenon DEF Sound
    <3>4. QED
      BY <2>1, <3>1, <3>3, FreedKeeps, RecordFrame DEF Holding
  <2>5. QED
    BY <2>3, <2>4
<1>5. QED
  BY <1>1, <1>4

(* init_buffer(): a new buffer is whole, for it is empty. *)
LEMMA RecordInit ==
  ASSUME TypeOK, TypeOK', FlushInv, RecordInv, NEW a \in Actors, InitBuffer(a)
  PROVE  BuffersWhole' /\ WriteWhole'
<1> USE DEF RecordInv
<1>a. PrefixLen \in Nat /\ IdxMod \in Nat /\ IdxMod > PrefixLen
  BY BblogAssumption
<1>0. pc[a] = "init"
  BY DEF InitBuffer
<1>p. PICK p \in Addrs : p = th[a].new
  BY <1>0 DEF FlushInv, NewPrivate, Making, TypeOK
<1>1. /\ segs' = segs /\ pid' = pid /\ th' = th /\ debt'[p] = 0
      /\ \A q \in Addrs : q # p => debt'[q] = debt[q] /\ (q \in torn => q \in torn')
      /\ \A b \in Actors : b # a => pc'[b] = pc[b]
      /\ pc[a] = "init" /\ pc'[a] = "cas"
  BY <1>p DEF InitBuffer, Goto, TypeOK
<1>2. segs[p] = {} /\ \A b \in Actors : Sound(b) => th[b].cur # p
  BY <1>p, <1>0 DEF FlushInv, NewPrivate, Making, NewEmpty
<1>3. \A b \in Actors : Sound(b)' = Sound(b)
  BY <1>1 DEF Sound
<1>4. /\ \A q \in Addrs : q # p => header'[q] = header[q]
      /\ GoodPtr(header'[p]) => Val(header'[p]) = pid * IdxMod + PrefixLen
  <2>1. \A w \in Garbage(p) : ~GoodPtr(w)
    BY DEF Garbage, Zero, GoodPtr
  <2>2. Val(pack_buffer(p, pid, PrefixLen)) = pid * IdxMod + PrefixLen
    BY DEF pack_buffer, Val
  <2>3. QED
    BY <1>p, <2>1, <2>2 DEF InitBuffer, TypeOK
<1>5. ASSUME NEW q \in Addrs, q # p PROVE Kept(q)'
  BY <1>1, <1>3, <1>4, <1>5, KeptFrame DEF BuffersWhole, Holding
<1>6. Kept(p)'
  <2>1. At(p, "undo")' = {} /\ At(p, "copy")' = {} /\ segs'[p] = {}
    BY <1>1, <1>2, <1>3 DEF At
  <2>2. Slots(p)' = {} /\ Bytes(p)' = {} /\ Separate(p)'
    BY <2>1 DEF Slots, Bytes, Separate
  <2>3. Repaid(p)'
    BY <1>1, <2>2, FS_EmptySet DEF Repaid
  <2>4. Laid(Slots(p), pid, PrefixLen)' /\ Full(Slots(p), PrefixLen)'
    BY <1>a, <2>2 DEF Laid, Full
  <2>5. GoodPtr(header'[p]) => Ends(p, pid, PrefixLen)'
    <3>1. pid' * IdxMod + PrefixLen + 0 = pid * IdxMod + PrefixLen
      BY <1>a, <1>1 DEF TypeOK
    <3>2. QED
      BY <1>1, <1>4, <3>1 DEF Ends
  <2>6. pid' \in Int /\ PrefixLen \in PrefixLen .. (IdxMod - 1)
    BY <1>a DEF TypeOK
  <2>7. QED
    BY <2>2, <2>3, <2>4, <2>5, <2>6 DEF Kept, Content
<1>7. BuffersWhole'
  BY <1>5, <1>6 DEF BuffersWhole
<1>8. WriteWhole'
  <2>1. ASSUME NEW b \in Actors, pc'[b] = "write", Sound(b)'
        PROVE  pc[b] = "write" /\ Sound(b) /\ (th[b].cur \in torn => th[b].cur \in torn')
    <3>1. pc[b] = "write" /\ Sound(b) /\ th[b].cur \in Addrs
      BY <1>1, <1>3, <2>1 DEF Sound, TypeOK, Locals
    <3>2. QED
      BY <1>1, <1>2, <3>1
  <2>2. QED
    BY <1>1, <2>1, WriteFrame
<1>9. QED
  BY <1>7, <1>8

(* The compare-and-swap of flush_buffer() shows that nobody holds a        *)
(* reservation, so that the index is the end of the last record.           *)
LEMMA CasWhole ==
  ASSUME TypeOK, FlushInv, RecordInv, NEW a \in Actors, FlushCas(a), th[a].cur \notin torn
  PROVE  /\ th[a].idx >= PrefixLen /\ th[a].idx < Limit
         /\ Laid(segs[th[a].cur], th[a].owner, th[a].idx)
         /\ Full(segs[th[a].cur], th[a].idx)
<1> USE DEF RecordInv
<1>p. PICK p \in Addrs : p = th[a].cur
  BY DEF FlushCas, Sound, TypeOK, Locals
<1>n. NULL \notin Addrs /\ IdxMod \in Nat /\ PrefixLen \in Nat
  BY BblogAssumption
<1>1. pc[a] = "fcas" /\ Sound(a) /\ p \in alive
  BY <1>p DEF FlushCas, FlushInv, PointersAlive
<1>2. /\ header[p].ref = 0 /\ header[p].idx = th[a].idx /\ header[p].pid = th[a].owner
      /\ GoodPtr(header[p])
  BY <1>n, <1>p DEF FlushCas, Unreferenced, pack_buffer, GoodPtr
<1>3. Holders(p) = {} /\ ~Leaked(p)
  <2>1. Cardinality(Holders(p)) \in Nat
    BY HoldersFinite, FS_CardinalityType
  <2>2. Cardinality(Holders(p)) = 0
    BY <1>1, <1>2, <2>1 DEF FlushInv, RefsCounted
  <2>3. QED
    BY <1>2, <2>2, HoldersFinite, FS_EmptySet DEF Leaked
<1>4. At(p, "copy") = {} /\ At(p, "undo") = {}
  BY <1>3 DEF Holders, At, Holding
<1>5. Bytes(p) = {} /\ Slots(p) = segs[p]
  BY <1>4 DEF Bytes, Slots
<1>6. Repaid(p) /\ Content(p)
  BY <1>p, <1>2 DEF BuffersWhole, Kept
<1>7. debt[p] = 0
  BY <1>3, <1>5, <1>6, FS_EmptySet DEF Repaid
<1>8. PICK o \in Int, e \in PrefixLen .. (IdxMod - 1) :
        Ends(p, o, e) /\ Laid(Slots(p), o, e) /\ Full(Slots(p), e)
  BY <1>3, <1>6 DEF Content
<1>9. Val(header[p]) = o * IdxMod + e /\ e \in 0 .. IdxMod - 1
  <2>1. o * IdxMod \in Int
    BY <1>n
  <2>2. QED
    BY <1>n, <1>7, <1>8, <2>1 DEF Ends
<1>10. header[p] \in Words
  BY DEF TypeOK
<1>11. o = th[a].owner /\ e = th[a].idx
  BY <1>2, <1>9, <1>10, ValUnique
<1>12. e < Limit
  BY <1>1, <1>8, <1>11 DEF IdxRead, Ends
<1>13. QED
  BY <1>p, <1>5, <1>8, <1>11, <1>12

(* flush_buffer(): what the compare-and-swap lets through is whole, and    *)
(* what is written is freed.                                               *)
LEMMA RecordFlush ==
  ASSUME TypeOK, TypeOK', FlushInv, RecordInv, NEW a \in Actors,
         \/ FlushReadPid(a) \/ FlushReadIdx(a) \/ FlushCas(a) \/ Spin(a) \/ FlushWrite(a)
  PROVE  BuffersWhole' /\ WriteWhole'
<1> USE DEF RecordInv, Goto, Return, buffers, process, history
<1>r. ReturnPc(a) \in {"sleep", "none", "done", "load", "idle"}
  BY ReturnRole
<1>1. ASSUME FlushReadPid(a) \/ FlushReadIdx(a) PROVE BuffersWhole' /\ WriteWhole'
  <2>1. /\ header' = header /\ segs' = segs /\ pid' = pid /\ debt' = debt /\ torn' = torn
        /\ \A b \in Actors : b # a => pc'[b] = pc[b] /\ th'[b] = th[b]
        /\ pc[a] \in {"fpid", "fidx"}
        /\ pc'[a] \in {"fidx", "fcas", "sleep", "none", "done", "load", "idle"}
    BY <1>1, <1>r DEF FlushReadPid, FlushReadIdx, TypeOK
  <2>2. QED
    BY <2>1, RecordFrame DEF Holding, Sound
<1>2. CASE FlushCas(a)
  <2>0. PICK p \in Addrs : p = th[a].cur
    BY <1>2 DEF FlushCas, Sound, TypeOK, Locals
  <2>1. /\ segs' = segs /\ pid' = pid /\ th' = th /\ debt' = debt /\ torn' = torn
        /\ header' = [header EXCEPT ![p] = Zero]
        /\ \A b \in Actors : b # a => pc'[b] = pc[b]
        /\ pc[a] = "fcas" /\ pc'[a] = "write" /\ Sound(a)
    BY <1>2, <2>0 DEF FlushCas, TypeOK
  <2>2. \A q \in Addrs : header'[q] = header[q] \/ ~GoodPtr(header'[q])
    BY <2>1 DEF Zero, GoodPtr, TypeOK
  <2>3. \A b \in Actors : Sound(b)' = Sound(b)
    BY <2>1 DEF Sound
  <2>4. BuffersWhole'
    BY <2>1, <2>2, <2>3, KeptFrame DEF BuffersWhole, Holding
  <2>5. WriteWhole'
    <3> SUFFICES ASSUME NEW b \in Actors, pc'[b] = "write", Sound(b)', th[b].cur \notin torn
                 PROVE  /\ th[b].idx >= PrefixLen /\ th[b].idx < Limit
                        /\ Laid(segs[th[b].cur], th[b].owner, th[b].idx)
                        /\ Full(segs[th[b].cur], th[b].idx)
      BY <2>1 DEF WriteWhole, Laid, Full, Beside
    <3>1. CASE b = a
      BY <1>2, <3>1, CasWhole
    <3>2. CASE b # a
      BY <2>1, <2>3, <3>2 DEF WriteWhole
    <3>3. QED
      BY <3>1, <3>2
  <2>6. QED
    BY <2>4, <2>5
<1>3. CASE Spin(a)
  <2>1. UNCHANGED vars /\ pc[a] = "fcas"
    BY <1>3 DEF Spin
  <2>2. /\ header' = header /\ segs' = segs /\ pid' = pid /\ debt' = debt /\ torn' = torn
        /\ pc' = pc /\ th' = th
    BY <2>1 DEF vars
  <2>3. QED
    BY <2>1, <2>2, RecordFrame DEF Holding, Sound
<1>4. CASE FlushWrite(a)
  <2>0. PICK p \in Addrs : p = th[a].cur
    BY <1>4 DEF FlushWrite, Sound, TypeOK, Locals
  <2>1. /\ header' = header /\ pid' = pid /\ debt' = debt /\ torn' = torn
        /\ th' = Freed(p, a)
        /\ \A b \in Actors : b # a => pc'[b] = pc[b]
        /\ \A q \in Addrs : q # p => segs'[q] = segs[q]
        /\ pc[a] = "write" /\ Sound(a)
        /\ pc'[a] \in {"sleep", "none", "done", "load", "idle"}
    BY <1>4, <1>r, <2>0 DEF FlushWrite, TypeOK
  <2>2. \A b \in Actors : b # a => Sound(b)' = (Sound(b) /\ th[b].cur # p)
    BY <2>1, FreedFacts
  <2>3. \A b \in Actors : b # a =>
          /\ th'[b].cur = th[b].cur /\ th'[b].idx = th[b].idx /\ th'[b].owner = th[b].owner
          /\ th'[b].size = th[b].size /\ th'[b].rec = th[b].rec
    BY <2>1, FreedKeeps
  <2>4. ASSUME NEW q \in Addrs, q # p PROVE Kept(q)'
    <3>1. \A b \in Actors : b # a /\ th[b].cur = q => Sound(b)' = Sound(b)
      BY <2>2, <2>4, Zenon DEF Sound
    <3>2. QED
      BY <2>1, <2>3, <2>4, <3>1, KeptFrame DEF BuffersWhole, Holding
  <2>5. Kept(p)'
    <3>1. ~GoodPtr(header'[p])
      BY <2>0, <2>1 DEF FlushInv, WriteZeroed, GoodPtr
    <3>2. At(p, "copy")' = {}
      BY <2>1, <2>2, <2>3 DEF At
    <3>3. QED
      BY <3>1, <3>2 DEF Kept, Separate
  <2>6. WriteWhole'
    <3>1. ASSUME NEW b \in Actors, pc'[b] = "write", Sound(b)'
          PROVE  /\ pc[b] = "write" /\ Sound(b) /\ th'[b].cur = th[b].cur
                 /\ th'[b].idx = th[b].idx /\ th'[b].owner = th[b].owner
                 /\ segs'[th[b].cur] = segs[th[b].cur]
      <4>1. b # a /\ pc[b] = "write"
        BY <2>1, <3>1
      <4>2. Sound(b) /\ th[b].cur # p
        BY <2>2, <3>1, <4>1
      <4>3. th[b].cur \in Addrs
        BY <4>2 DEF Sound, TypeOK, Locals
      <4>4. QED
        BY <2>1, <2>3, <4>1, <4>2, <4>3
    <3>2. QED
      BY <2>1, <3>1, WriteFrame
  <2>7. QED
    BY <2>4, <2>5, <2>6 DEF BuffersWhole
<1>5. QED
  BY <1>1, <1>2, <1>3, <1>4

(* A child of fork() has the buffers, and none of the holders.             *)
LEMMA RecordFork ==
  ASSUME TypeOK, FlushInv, RecordInv, NEW a \in Actors, Fork(a)
  PROVE  BuffersWhole' /\ WriteWhole'
<1> USE DEF RecordInv
<1>1. header' = header /\ segs' = segs /\ debt' = debt /\ torn' = torn
  BY DEF Fork, buffers, history
<1>2. \A b \in Actors : ~Sound(b)'
  BY DEF Fork, Sound, Idle, Local
<1>3. ASSUME NEW q \in Addrs PROVE Kept(q)'
  <2>1. Holders(q)' = {} /\ At(q, "copy")' = {} /\ At(q, "undo")' = {}
    BY <1>2 DEF Holders, At
  <2>2. Separate(q)' /\ Bytes(q)' = {} /\ Slots(q)' = segs[q]
    BY <1>1, <2>1 DEF Separate, Bytes, Slots
  <2>3. Cardinality(Holders(q)') = 0
    BY <2>1, FS_EmptySet
  <2>4. ASSUME GoodPtr(header[q]), header[q].ref = 0
        PROVE  ~Leaked(q) /\ Bytes(q) = {} /\ Slots(q) = segs[q]
    <3>1. Cardinality(Holders(q)) \in Nat
      BY HoldersFinite, FS_CardinalityType
    <3>2. Holders(q) = {}
      <4>1. CASE q \in alive
        <5>1. Cardinality(Holders(q)) = 0
          BY <2>4, <3>1, <4>1 DEF FlushInv, RefsCounted
        <5>2. QED
          BY <5>1, HoldersFinite, FS_EmptySet
      <4>2. CASE q \notin alive
        BY <4>2 DEF FlushInv, PointersAlive, Holders
      <4>3. QED
        BY <4>1, <4>2
    <3>3. At(q, "copy") = {} /\ At(q, "undo") = {}
      BY <3>2 DEF Holders, At, Holding
    <3>4. QED
      BY <2>4, <3>1, <3>3 DEF Leaked, Bytes, Slots
  <2>5. GoodPtr(header[q]) => header[q].ref = 0 \/ Leaked(q)'
    <3>1. header[q].ref \in Int
      BY DEF TypeOK, Words
    <3>2. QED
      BY <1>1, <2>3, <3>1 DEF Leaked, GoodPtr
  <2>6. GoodPtr(header[q]) => Repaid(q)'
    BY <1>1, <2>2, <2>4, <2>5 DEF Repaid, BuffersWhole, Kept
  <2>7. ASSUME GoodPtr(header[q]), q \notin torn PROVE Content(q)'
    <3>1. PICK o \in Int, e \in PrefixLen .. (IdxMod - 1) :
            Ends(q, o, e) /\ Laid(Slots(q), o, e) /\ (Leaked(q) \/ Full(Slots(q), e))
      BY <2>7 DEF Content, BuffersWhole, Kept
    <3>2. Ends(q, o, e)'
      BY <1>1, <3>1 DEF Ends, Val
    <3>3. Laid(Slots(q), o, e)'
      <4>1. segs[q] \subseteq Slots(q)
        BY DEF Slots
      <4>2. QED
        BY <2>2, <3>1, <4>1 DEF Laid, Beside
    <3>4. Leaked(q)' \/ Full(Slots(q), e)'
      BY <2>2, <2>4, <2>5, <2>7, <3>1 DEF Full
    <3>5. QED
      BY <3>1, <3>2, <3>3, <3>4 DEF Content
  <2>8. QED
    BY <1>1, <2>2, <2>6, <2>7 DEF Kept
<1>4. QED
  BY <1>2, <1>3 DEF BuffersWhole, WriteWhole

(* The flusher, exit, signals and calls of the application.                *)
LEMMA RecordOther ==
  ASSUME TypeOK, TypeOK', FlushInv, RecordInv, NEW a \in Actors,
         \/ LoadProcPibr(a) \/ FetchAndAddFault(a)
         \/ FlusherThread(a) \/ Exit(a) \/ BadAccess(a)
         \/ Call(a) \/ \E v \in Threads \cup {Flusher} : a = Handler /\ Signal(v)
  PROVE  BuffersWhole' /\ WriteWhole'
<1> USE DEF RecordInv, Goto, buffers, process, history
<1>1. ASSUME /\ header' = header /\ segs' = segs /\ pid' = pid /\ debt' = debt /\ torn' = torn
             /\ \A b \in Actors : b # a => pc'[b] = pc[b] /\ th'[b] = th[b],
             pc[a] \notin Holding, pc'[a] \notin Holding \cup {"write"}
      PROVE  BuffersWhole' /\ WriteWhole'
  BY <1>1, RecordFrame DEF Sound
<1>2. ASSUME header' = header, segs' = segs, pid' = pid, debt' = debt, torn' = torn,
             pc' = pc, th' = th
      PROVE  BuffersWhole' /\ WriteWhole'
  <2>1. BuffersWhole'
    <3>1. ASSUME NEW q \in Addrs PROVE Kept(q)'
      <4>1. /\ At(q, "copy")' = At(q, "copy") /\ At(q, "undo")' = At(q, "undo")
            /\ Holders(q)' = Holders(q)
        BY <1>2 DEF At, Holders, Sound
      <4>2. QED
        BY <1>2, <4>1, KeptSame DEF BuffersWhole
    <3>2. QED
      BY <3>1 DEF BuffersWhole
  <2>2. WriteWhole'
    BY <1>2, WriteFrame DEF Sound
  <2>3. QED
    BY <2>1, <2>2
<1>3. CASE LoadProcPibr(a)
  BY <1>1, <1>3 DEF LoadProcPibr, Load, Local, TypeOK, Holding
<1>4. CASE FetchAndAddFault(a) \/ BadAccess(a) \/ ProcessExit(a)
  BY <1>2, <1>4 DEF FetchAndAddFault, BadAccess, ProcessExit
<1>5. CASE FlWake(a) \/ FlPeekPtr(a) \/ FlPeek(a) \/ FlReload(a)
  BY <1>1, <1>5 DEF FlWake, FlPeekPtr, FlPeek, FlReload, Load, TypeOK, Holding
<1>6. CASE ExitJoin(a)
  <2>1. CASE Load(a) /\ pc' = [pc EXCEPT ![a] = "zero"]
    BY <1>1, <1>6, <2>1 DEF ExitJoin, Load, TypeOK, Holding
  <2>2. CASE UNCHANGED <<pc, th>>
    BY <1>2, <1>6, <2>2 DEF ExitJoin
  <2>3. QED
    BY <1>6, <2>1, <2>2 DEF ExitJoin
<1>7. CASE ExitZero(a)
  <2>0. PICK p \in Addrs : p = th[a].cur
    BY <1>7 DEF ExitZero, Sound, TypeOK, Locals
  <2>1. /\ segs' = segs /\ pid' = pid /\ debt' = debt /\ torn' = torn
        /\ header' = [header EXCEPT ![p] = Zero]
        /\ \A b \in Actors : b # a => pc'[b] = pc[b] /\ th'[b] = th[b]
        /\ pc[a] = "zero" /\ pc'[a] \in {"zero", "fpid", "done"}
    BY <1>7, <2>0 DEF ExitZero, TypeOK
  <2>2. \A q \in Addrs : header'[q] = header[q] \/ ~GoodPtr(header'[q])
    BY <2>1 DEF Zero, GoodPtr, TypeOK
  <2>3. \A b \in Actors : b # a => Sound(b)' = Sound(b)
    BY <2>1 DEF Sound
  <2>4. BuffersWhole'
    BY <2>1, <2>2, <2>3, KeptFrame DEF BuffersWhole, Holding
  <2>5. WriteWhole'
    BY <2>1, <2>3, WriteFrame
  <2>6. QED
    BY <2>4, <2>5
<1>8. CASE \E s \in Sizes : bblog(a, s)
  BY <1>1, <1>8 DEF bblog, TypeOK, Holding
<1>9. CASE BblogInit(a) \/ Spawn(a) \/ ExitBegin(a)
  BY <1>1, <1>9 DEF BblogInit, Spawn, ExitBegin, TypeOK, Holding
<1>10. CASE Fork(a)
  BY <1>10, RecordFork
<1>11. ASSUME NEW v \in Threads \cup {Flusher}, a = Handler, Signal(v)
       PROVE  BuffersWhole' /\ WriteWhole'
  BY <1>1, <1>11 DEF Signal, Load, TypeOK, Holding
<1>12. QED
  BY <1>3, <1>4, <1>5, <1>6, <1>7, <1>8, <1>9, <1>10, <1>11 DEF FlusherThread, Exit, Call

(* flush_buffer() goes on only with an index that is not the prefix's. *)
LEMMA IdxReadNext ==
  ASSUME TypeOK, RolesOK, IdxRead, [Next]_vars
  PROVE  IdxRead'
<1> USE DEF Goto, Return
<1>1. ASSUME NEW a \in Actors,
             \A b \in Actors : b # a => pc'[b] = pc[b] /\ th'[b].idx = th[b].idx,
             pc'[a] \in {"fcas", "write"} => th'[a].idx # PrefixLen
      PROVE  IdxRead'
  BY <1>1 DEF IdxRead
<1>2. ASSUME pc' = pc, th' = th PROVE IdxRead'
  BY <1>2 DEF IdxRead
<1>r. \A a \in Actors : ReturnPc(a) \notin {"fcas", "write"}
  BY ReturnRole
<1>3. ASSUME NEW a \in Actors, Blog(a) PROVE IdxRead'
  <2>1. CASE FetchAndAddFault(a)
    BY <1>2, <2>1 DEF FetchAndAddFault
  <2>2. CASE ~FetchAndAddFault(a)
    BY <1>1, <1>3, <2>2 DEF Blog, LoadProcPibr, FetchAndAdd, Memcpy, Unref, Undo, Load, TypeOK
  <2>3. QED
    BY <2>1, <2>2
<1>4. ASSUME NEW a \in Actors, SwapAndFlush(a) PROVE IdxRead'
  <2>1. CASE SwapCheck(a) \/ Alloc(a) \/ AllocFail(a) \/ InitBuffer(a) \/ FlushReadPid(a)
    BY <1>1, <1>r, <2>1 DEF SwapCheck, Alloc, AllocFail, InitBuffer, FlushReadPid, TypeOK
  <2>2. CASE FlushReadIdx(a)
    <3>1. th[a] \in Locals
      BY DEF TypeOK
    <3>2. pc'[a] \in {"fcas", "write"} => th'[a].idx # PrefixLen
      BY <1>r, <2>2, <3>1 DEF FlushReadIdx, TypeOK, Locals
    <3>3. QED
      BY <1>1, <2>2, <3>2 DEF FlushReadIdx, TypeOK
  <2>3. CASE FlushCas(a)
    BY <1>1, <2>3 DEF FlushCas, IdxRead, TypeOK
  <2>4. CASE Spin(a)
    BY <1>2, <2>4 DEF Spin, vars
  <2>5. CASE SwapCas(a)
    <3>1. /\ \A b \in Actors : b # a => pc'[b] = pc[b]
          /\ pc'[a] \notin {"fcas", "write"}
      BY <1>r, <2>5 DEF SwapCas, TypeOK
    <3>2. CASE procPibr = th[a].cur
      BY <1>1, <2>5, <3>1, <3>2 DEF SwapCas, TypeOK
    <3>3. CASE procPibr # th[a].cur
      <4>1. th' = Freed(th[a].new, a)
        BY <2>5, <3>3 DEF SwapCas
      <4>2. QED
        BY <1>1, <3>1, <4>1, FreedKeeps
    <3>4. QED
      BY <3>2, <3>3
  <2>6. CASE FlushWrite(a)
    <3>1. /\ \A b \in Actors : b # a => pc'[b] = pc[b]
          /\ pc'[a] \notin {"fcas", "write"} /\ th' = Freed(th[a].cur, a)
      BY <1>r, <2>6 DEF FlushWrite, TypeOK
    <3>2. QED
      BY <1>1, <3>1, FreedKeeps
  <2>7. QED
    BY <1>4, <2>1, <2>2, <2>3, <2>4, <2>5, <2>6 DEF SwapAndFlush
<1>5. ASSUME NEW a \in Actors, FlusherThread(a) \/ Exit(a) \/ BadAccess(a) PROVE IdxRead'
  <2>1. CASE FlWake(a) \/ FlPeekPtr(a) \/ FlPeek(a) \/ FlReload(a) \/ ExitZero(a)
    BY <1>1, <2>1 DEF FlWake, FlPeekPtr, FlPeek, FlReload, ExitZero, Load, TypeOK
  <2>2. CASE ExitJoin(a)
    <3>1. CASE Load(a) /\ pc' = [pc EXCEPT ![a] = "zero"]
      BY <1>1, <2>2, <3>1 DEF ExitJoin, Load, TypeOK
    <3>2. CASE UNCHANGED <<pc, th>>
      BY <1>2, <2>2, <3>2 DEF ExitJoin
    <3>3. QED
      BY <2>2, <3>1, <3>2 DEF ExitJoin
  <2>3. CASE ProcessExit(a) \/ BadAccess(a)
    BY <1>2, <2>3 DEF ProcessExit, BadAccess
  <2>4. QED
    BY <1>5, <2>1, <2>2, <2>3 DEF FlusherThread, Exit
<1>6. ASSUME NEW a \in Actors, Call(a) PROVE IdxRead'
  <2>1. CASE (\E s \in Sizes : bblog(a, s)) \/ BblogInit(a) \/ Spawn(a) \/ ExitBegin(a)
    <3>1. CASE pc' = pc /\ th' = th
      BY <1>2, <3>1
    <3>2. CASE ~(pc' = pc /\ th' = th)
      BY <1>1, <2>1, <3>2 DEF bblog, BblogInit, Spawn, ExitBegin, TypeOK
    <3>3. QED
      BY <3>1, <3>2
  <2>2. CASE Fork(a)
    BY <2>2 DEF Fork, IdxRead
  <2>3. QED
    BY <1>6, <2>1, <2>2 DEF Call
<1>7. ASSUME NEW v \in Threads \cup {Flusher}, Signal(v) PROVE IdxRead'
  <2>1. Handler \in Actors
    BY DEF Actors
  <2>2. QED
    BY <1>1, <1>7, <2>1 DEF Signal, Load, TypeOK
<1>8. QED
  BY <1>2, <1>3, <1>4, <1>5, <1>6, <1>7 DEF Next, Step, Rest, Tick, vars

(* A buffer is empty until it is published, and after it is freed.         *)
LEMMA EmptyNext ==
  ASSUME TypeOK, TypeOK', FlushInv, NewEmpty, [Next]_vars
  PROVE  NewEmpty'
<1> USE DEF Goto, Return, buffers, process
<1>1. ASSUME segs' = segs, alive' = alive, NEW a \in Actors,
             \A b \in Actors : b # a => pc'[b] = pc[b] /\ th'[b] = th[b],
             pc'[a] \in Making => pc[a] \in Making /\ th'[a].new = th[a].new
      PROVE  NewEmpty'
  BY <1>1 DEF NewEmpty
<1>2. ASSUME segs' = segs, alive' = alive, pc' = pc, th' = th PROVE NewEmpty'
  BY <1>2 DEF NewEmpty
<1>r. \A a \in Actors : ReturnPc(a) \notin Making
  BY ReturnType DEF Making
<1>3. ASSUME NEW a \in Actors, Blog(a) PROVE NewEmpty'
  <2>1. CASE Memcpy(a)
    <3>1. PICK p \in Addrs : p = th[a].cur
      BY <2>1 DEF Memcpy, Sound, TypeOK, Locals
    <3>2. /\ p \in alive /\ alive' = alive /\ th' = th
          /\ \A q \in Addrs : q # p => segs'[q] = segs[q]
          /\ \A b \in Actors : pc'[b] \in Making => pc[b] \in Making /\ th[b].new # p
      BY <2>1, <3>1 DEF Memcpy, FlushInv, PointersAlive, NewPrivate, Making, TypeOK
    <3>3. QED
      BY <3>2 DEF NewEmpty, FlushInv, NewPrivate, TypeOK
  <2>2. CASE LoadProcPibr(a)
    BY <1>1, <2>2 DEF LoadProcPibr, Load, Making, TypeOK
  <2>3. CASE FetchAndAdd(a) \/ Unref(a) \/ Undo(a)
    BY <1>1, <2>3 DEF FetchAndAdd, Unref, Undo, Making, TypeOK
  <2>4. CASE FetchAndAddFault(a)
    BY <1>2, <2>4 DEF FetchAndAddFault
  <2>5. QED
    BY <1>3, <2>1, <2>2, <2>3, <2>4 DEF Blog
<1>4. ASSUME NEW a \in Actors, SwapAndFlush(a) PROVE NewEmpty'
  <2>1. CASE SwapCheck(a) \/ AllocFail(a) \/ FlushReadPid(a) \/ FlushReadIdx(a) \/ FlushCas(a)
    BY <1>1, <1>r, <2>1 DEF SwapCheck, AllocFail, FlushReadPid, FlushReadIdx, FlushCas, Making,
       TypeOK
  <2>2. CASE InitBuffer(a)
    BY <1>1, <2>2 DEF InitBuffer, Making, TypeOK
  <2>3. CASE Spin(a)
    BY <1>2, <2>3 DEF Spin, vars
  <2>4. CASE Alloc(a)
    <3>1. PICK p \in Addrs \ alive : alive' = alive \cup {p} /\ th' = [th EXCEPT ![a].new = p]
      BY <2>4 DEF Alloc
    <3>2. /\ th'[a].new = p /\ segs' = segs
          /\ \A b \in Actors : b # a => pc'[b] = pc[b] /\ th'[b] = th[b]
      BY <2>4, <3>1 DEF Alloc, TypeOK, Locals
    <3>3. QED
      BY <3>1, <3>2 DEF NewEmpty
  <2>5. CASE SwapCas(a)
    <3>1. pc[a] = "cas" /\ segs' = segs /\ pc'[a] \notin Making
          /\ \A b \in Actors : b # a => pc'[b] = pc[b]
      BY <1>r, <2>5 DEF SwapCas, Making, TypeOK
    <3>2. CASE procPibr = th[a].cur
      BY <1>1, <2>5, <3>1, <3>2 DEF SwapCas, TypeOK
    <3>3. CASE procPibr # th[a].cur
      <4>1. alive' = alive \ {th[a].new} /\ th' = Freed(th[a].new, a)
        BY <2>5, <3>3 DEF SwapCas
      <4>2. \A b \in Actors : b # a => th'[b].new = th[b].new
        BY <4>1, FreedKeeps
      <4>3. QED
        BY <3>1, <4>1, <4>2 DEF NewEmpty, Making
    <3>4. QED
      BY <3>2, <3>3
  <2>6. CASE FlushWrite(a)
    <3>1. PICK p \in Addrs : p = th[a].cur
      BY <2>6 DEF FlushWrite, Sound, TypeOK, Locals
    <3>2. /\ alive' = alive \ {p} /\ th' = Freed(p, a) /\ segs' = [segs EXCEPT ![p] = {}]
          /\ pc'[a] \notin Making /\ \A b \in Actors : b # a => pc'[b] = pc[b]
      BY <1>r, <2>6, <3>1 DEF FlushWrite, TypeOK
    <3>3. \A b \in Actors : b # a => th'[b].new = th[b].new
      BY <3>2, FreedKeeps
    <3>4. \A q \in Addrs : segs[q] = {} \/ q = p => segs'[q] = {}
      BY <3>2 DEF TypeOK
    <3>5. \A b \in Actors : pc[b] \in Making => th[b].new \in Addrs
      BY DEF FlushInv, NewPrivate, TypeOK
    <3>6. QED
      BY <3>2, <3>3, <3>4, <3>5 DEF NewEmpty
  <2>7. QED
    BY <1>4, <2>1, <2>2, <2>3, <2>4, <2>5, <2>6 DEF SwapAndFlush
<1>5. ASSUME NEW a \in Actors, FlusherThread(a) \/ Exit(a) \/ BadAccess(a) PROVE NewEmpty'
  <2>1. CASE FlWake(a) \/ FlPeekPtr(a) \/ FlPeek(a) \/ FlReload(a) \/ ExitZero(a)
    BY ZenonT(60), <1>1, <2>1 DEF FlWake, FlPeekPtr, FlPeek, FlReload, ExitZero, Load, Making, TypeOK
  <2>2. CASE ExitJoin(a)
    <3>1. CASE Load(a) /\ pc' = [pc EXCEPT ![a] = "zero"]
      BY <1>1, <2>2, <3>1 DEF ExitJoin, Load, Making, TypeOK
    <3>2. CASE UNCHANGED <<pc, th>>
      BY <1>2, <2>2, <3>2 DEF ExitJoin
    <3>3. QED
      BY <2>2, <3>1, <3>2 DEF ExitJoin
  <2>3. CASE ProcessExit(a) \/ BadAccess(a)
    BY <1>2, <2>3 DEF ProcessExit, BadAccess
  <2>4. QED
    BY <1>5, <2>1, <2>2, <2>3 DEF FlusherThread, Exit
<1>6. ASSUME NEW a \in Actors, Call(a) PROVE NewEmpty'
  <2>1. CASE (\E s \in Sizes : bblog(a, s)) \/ BblogInit(a) \/ Spawn(a) \/ ExitBegin(a)
    BY <1>1, <2>1 DEF bblog, BblogInit, Spawn, ExitBegin, Making, TypeOK
  <2>2. CASE Fork(a)
    <3>1. /\ alive' = alive /\ segs' = segs
          /\ \A b \in Actors : pc'[b] \in {"idle", "off", "none", "dead"}
      BY <2>2 DEF Fork
    <3>2. QED
      BY <3>1 DEF NewEmpty, Making
  <2>3. QED
    BY <1>6, <2>1, <2>2 DEF Call
<1>7. ASSUME NEW v \in Threads \cup {Flusher}, Signal(v) PROVE NewEmpty'
  <2>1. Handler \in Actors
    BY DEF Actors
  <2>2. QED
    BY <1>1, <1>7, <2>1 DEF Signal, Load, Making, TypeOK
<1>8. QED
  BY <1>2, <1>3, <1>4, <1>5, <1>6, <1>7 DEF Next, Step, Rest, Tick, vars

-----------------------------------------------------------------------------
(* The theorems.                                                           *)

(* After bblog_init() the buffer holds the prefix and no record. *)
LEMMA RecordStart ==
  ASSUME Init
  PROVE  RecordInv
<1>a. PrefixLen \in Nat /\ IdxMod \in Nat /\ IdxMod > PrefixLen /\ NULL \notin Addrs
  BY BblogAssumption
<1>1. /\ \A a \in Actors : /\ ~Sound(a) /\ th[a].rec = 0
                           /\ pc[a] \in {"sleep", "off", "none", "idle"}
      /\ \A p \in Addrs : segs[p] = {} /\ debt[p] = 0
  BY DEF Init, Sound, Idle, Local
<1>2. \A a \in Actors : pc[a] = "idle" => a \in Threads
  BY DEF Init, Actors
<1>3. RolesOK /\ NewEmpty /\ IdxRead /\ WriteWhole
  BY <1>1, <1>2 DEF RolesOK, NewEmpty, IdxRead, WriteWhole, Appending, Making
<1>4. ASSUME NEW p \in Addrs PROVE Kept(p)
  <2>1. At(p, "undo") = {} /\ At(p, "copy") = {}
    BY <1>1 DEF At
  <2>2. Slots(p) = {} /\ Bytes(p) = {} /\ Separate(p)
    BY <1>1, <2>1 DEF Slots, Bytes, Separate
  <2>3. Repaid(p)
    BY <1>1, <2>2, FS_EmptySet DEF Repaid
  <2>4. Laid(Slots(p), 1, PrefixLen) /\ Full(Slots(p), PrefixLen)
    BY <1>a, <2>2 DEF Laid, Full
  <2>5. GoodPtr(header[p]) => Ends(p, 1, PrefixLen)
    <3>1. ~GoodPtr(Zero) /\ \A q : \A w \in Garbage(q) : ~GoodPtr(w)
      BY DEF Garbage, Zero, GoodPtr
    <3>2. \A q : Val(pack_buffer(q, 1, PrefixLen)) = 1 * IdxMod + PrefixLen
      BY DEF pack_buffer, Val
    <3>3. \A q : \A w \in FirstWord(q) : GoodPtr(w) => Val(w) = 1 * IdxMod + PrefixLen
      BY <3>1, <3>2 DEF FirstWord
    <3>4. GoodPtr(header[p]) => Val(header[p]) = 1 * IdxMod + PrefixLen
      BY <3>1, <3>3 DEF Init
    <3>5. QED
      BY <1>a, <1>1, <3>4 DEF Ends
  <2>6. PrefixLen \in PrefixLen .. (IdxMod - 1)
    BY <1>a
  <2>7. QED
    BY <2>2, <2>3, <2>4, <2>5, <2>6 DEF Kept, Content
<1>5. QED
  BY <1>3, <1>4 DEF RecordInv, BuffersWhole

(* Every step keeps the record invariant. *)
LEMMA RecordNext ==
  ASSUME TypeOK, TypeOK', FlushInv, RecordInv, [Next]_vars
  PROVE  RecordInv'
<1>1. RolesOK' /\ NewEmpty' /\ IdxRead'
  BY RolesNext, EmptyNext, IdxReadNext DEF RecordInv
<1>2. ASSUME NEW a \in Actors, Step(a) PROVE BuffersWhole' /\ WriteWhole'
  BY <1>2, RecordAdd, RecordCopy, RecordDrop, RecordSwap, RecordInit, RecordFlush, RecordOther
     DEF Step, Blog, SwapAndFlush
<1>3. ASSUME NEW a \in Actors, Call(a) PROVE BuffersWhole' /\ WriteWhole'
  BY <1>3, RecordOther
<1>4. ASSUME NEW v \in Threads \cup {Flusher}, Signal(v) PROVE BuffersWhole' /\ WriteWhole'
  <2>1. Handler \in Actors
    BY DEF Actors
  <2>2. QED
    BY <1>4, <2>1, RecordOther
<1>5. ASSUME header' = header, segs' = segs, pid' = pid, debt' = debt, torn' = torn,
             pc' = pc, th' = th
      PROVE  BuffersWhole' /\ WriteWhole'
  <2>1. ASSUME NEW q \in Addrs PROVE Kept(q)'
    <3>1. /\ At(q, "copy")' = At(q, "copy") /\ At(q, "undo")' = At(q, "undo")
          /\ Holders(q)' = Holders(q)
      BY <1>5 DEF At, Holders, Sound
    <3>2. QED
      BY <1>5, <3>1, KeptSame DEF RecordInv, BuffersWhole
  <2>2. WriteWhole'
    BY <1>5, WriteFrame DEF Sound, RecordInv
  <2>3. QED
    BY <2>1, <2>2 DEF BuffersWhole
<1>6. BuffersWhole' /\ WriteWhole'
  BY <1>2, <1>3, <1>4, <1>5 DEF Next, Rest, Tick, vars, buffers, process, history
<1>7. QED
  BY <1>1, <1>6 DEF RecordInv

(* Records that lie side by side without a gap cover their range once. *)
LEMMA LaidCover ==
  ASSUME NEW S \in SUBSET Segs, NEW o, NEW e \in Nat, Laid(S, o, e), Full(S, e)
  PROVE  /\ \A s1, s2 \in S : s1 # s2 => Extent(s1) \cap Extent(s2) = {}
         /\ UNION {Extent(s) : s \in S} = PrefixLen .. (e - 1)
         /\ {s \in S : s.at + s.len <= e} = S
<1>a. PrefixLen \in Nat
  BY BblogAssumption
<1>1. \A s \in S : s.at \in Nat /\ s.len \in Nat
  BY DEF Segs
<1>2. ASSUME NEW s1 \in S, NEW s2 \in S, s1 # s2 PROVE Extent(s1) \cap Extent(s2) = {}
  <2>1. s1.at + s1.len <= s2.at \/ s2.at + s2.len <= s1.at
    BY <1>2 DEF Laid, Beside
  <2>2. QED
    BY <1>1, <2>1 DEF Extent
<1>3. ASSUME NEW x \in UNION {Extent(s) : s \in S} PROVE x \in PrefixLen .. (e - 1)
  <2>1. PICK s \in S : x \in Extent(s)
    OBVIOUS
  <2>2. s.at >= PrefixLen /\ s.at + s.len <= e
    BY DEF Laid
  <2>3. QED
    BY <1>a, <1>1, <2>1, <2>2 DEF Extent
<1>4. ASSUME NEW x \in PrefixLen .. (e - 1) PROVE x \in UNION {Extent(s) : s \in S}
  <2>1. PICK s \in S : s.at <= x /\ x < s.at + s.len
    BY <1>4 DEF Full
  <2>2. x \in Extent(s)
    BY <1>a, <1>1, <2>1 DEF Extent
  <2>3. QED
    BY <2>2
<1>5. UNION {Extent(s) : s \in S} = PrefixLen .. (e - 1)
  BY <1>3, <1>4
<1>6. {s \in S : s.at + s.len <= e} = S
  BY DEF Laid
<1>7. QED
  BY <1>2, <1>5, <1>6

(* flush_buffer() appends the one message; from a buffer that is not torn, *)
(* with all that is in it.                                                 *)
LEMMA WriteStep ==
  ASSUME TypeOK, RecordInv, NEW a \in Actors, FlushWrite(a)
  PROVE  LET p == th[a].cur IN
         /\ p \in Addrs /\ th[a].idx \in Nat /\ segs[p] \in SUBSET Segs
         /\ pc[a] = "write" /\ Sound(a)
         /\ p \notin torn => /\ th[a].idx >= PrefixLen /\ th[a].idx < Limit
                             /\ Laid(segs[p], th[a].owner, th[a].idx) /\ Full(segs[p], th[a].idx)
         /\ \E S \in SUBSET segs[p] :
              /\ p \notin torn => S = segs[p]
              /\ log' = Append(log, [pid |-> th[a].owner, by |-> pid, end |-> th[a].idx,
                                     torn |-> p \in torn, segs |-> S])
<1>p. PICK p : p = th[a].cur
  OBVIOUS
<1>1. pc[a] = "write" /\ Sound(a) /\ th[a] \in Locals
  BY DEF FlushWrite, TypeOK
<1>2. p \in Addrs /\ th[a].idx \in Nat
  BY <1>p, <1>1 DEF Sound, Locals
<1>3. segs[p] \in SUBSET Segs
  BY <1>2 DEF TypeOK
<1>4. p \notin torn => /\ th[a].idx >= PrefixLen /\ th[a].idx < Limit
                       /\ Laid(segs[p], th[a].owner, th[a].idx) /\ Full(segs[p], th[a].idx)
  BY <1>p, <1>1 DEF RecordInv, WriteWhole
<1>S. PICK S : S = {s \in segs[p] : s.at + s.len <= th[a].idx}
  OBVIOUS
<1>5. S \in SUBSET segs[p] /\ (p \notin torn => S = segs[p])
  BY <1>2, <1>3, <1>4, <1>S, LaidCover
<1>6. log' = Append(log, [pid |-> th[a].owner, by |-> pid, end |-> th[a].idx,
                          torn |-> p \in torn, segs |-> S])
  BY <1>p, <1>S DEF FlushWrite
<1>7. QED
  BY <1>p, <1>1, <1>2, <1>3, <1>4, <1>5, <1>6

(* No other step gives anything to the log. *)
LEMMA LogStep ==
  ASSUME [Next]_vars
  PROVE  log' = log \/ \E a \in Actors : FlushWrite(a)
<1>1. ASSUME NEW a \in Actors, Step(a) PROVE log' = log \/ FlushWrite(a)
  BY <1>1 DEF Step, Blog, SwapAndFlush, FlusherThread, Exit, BadAccess, LoadProcPibr, FetchAndAdd,
     FetchAndAddFault, Memcpy, Unref, Undo, SwapCheck, Alloc, AllocFail, InitBuffer, SwapCas,
     FlushReadPid, FlushReadIdx, FlushCas, Spin, FlWake, FlPeekPtr, FlPeek, FlReload, ExitJoin,
     ExitZero, ProcessExit, vars
<1>2. ASSUME NEW a \in Actors, Call(a) PROVE log' = log
  BY <1>2 DEF Call, bblog, BblogInit, Spawn, ExitBegin, Fork
<1>3. QED
  BY <1>1, <1>2 DEF Next, Signal, Tick, Rest, vars

(* A message that is whole. *)
WholeMessage(m) ==
  ~m.torn => /\ m.end < Limit
             /\ \A s1, s2 \in m.segs : s1 # s2 => Extent(s1) \cap Extent(s2) = {}
             /\ UNION {Extent(s) : s \in m.segs} = PrefixLen .. (m.end - 1)

(* Every step keeps the messages whole. *)
LEMMA WholeNext ==
  ASSUME TypeOK, RecordInv, WholeRecords, [Next]_vars
  PROVE  WholeRecords'
<1>1. CASE log' = log
  BY <1>1 DEF WholeRecords, Extent
<1>2. ASSUME NEW a \in Actors, FlushWrite(a) PROVE WholeRecords'
  <2>p. PICK p : p = th[a].cur
    OBVIOUS
  <2>0. /\ p \in Addrs /\ th[a].idx \in Nat /\ segs[p] \in SUBSET Segs
        /\ p \notin torn => /\ th[a].idx >= PrefixLen /\ th[a].idx < Limit
                            /\ Laid(segs[p], th[a].owner, th[a].idx) /\ Full(segs[p], th[a].idx)
    BY <1>2, <2>p, WriteStep
  <2>S. PICK S \in SUBSET segs[p] :
          /\ p \notin torn => S = segs[p]
          /\ log' = Append(log, [pid |-> th[a].owner, by |-> pid, end |-> th[a].idx,
                                 torn |-> p \in torn, segs |-> S])
    BY <1>2, <2>p, WriteStep
  <2>m. PICK m : m = [pid |-> th[a].owner, by |-> pid, end |-> th[a].idx,
                      torn |-> p \in torn, segs |-> S]
    OBVIOUS
  <2>1. /\ log' = Append(log, m) /\ m.segs = S /\ m.end = th[a].idx
        /\ (m.torn <=> p \in torn)
    BY <2>S, <2>m
  <2>2. WholeMessage(m)
    <3>1. CASE p \in torn
      BY <2>1, <3>1 DEF WholeMessage
    <3>2. CASE p \notin torn
      <4>1. /\ th[a].idx < Limit
            /\ \A s1, s2 \in S : s1 # s2 => Extent(s1) \cap Extent(s2) = {}
            /\ UNION {Extent(s) : s \in S} = PrefixLen .. (th[a].idx - 1)
        BY <2>0, <2>S, <3>2, LaidCover
      <4>2. QED
        BY <2>1, <4>1 DEF WholeMessage
    <3>3. QED
      BY <3>1, <3>2
  <2>3. log \in Seq(Messages) /\ Len(log) \in Nat
    BY DEF TypeOK
  <2>4. ASSUME NEW i \in 1 .. Len(log') PROVE WholeMessage(log'[i])
    <3>1. CASE i \in 1 .. Len(log)
      <4>1. log'[i] = log[i]
        BY <2>1, <2>3, <3>1
      <4>2. QED
        BY <3>1, <4>1 DEF WholeRecords, WholeMessage
    <3>2. CASE i = Len(log) + 1
      <4>1. log'[i] = m
        BY <2>1, <2>3, <3>2
      <4>2. QED
        BY <2>2, <4>1
    <3>3. QED
      BY <2>1, <2>3, <3>1, <3>2
  <2>5. QED
    BY <2>4 DEF WholeRecords, WholeMessage, Extent
<1>3. QED
  BY <1>1, <1>2, LogStep

(* The record invariant holds in every behaviour: the two upper fields of  *)
(* a buffer's word, read as one number, are the end of its records plus    *)
(* the bytes still to be given back, and between the prefix and that end   *)
(* lie the records copied and the room reserved, without overlap, and      *)
(* without gap as long as all holders of references exist; unless room was *)
(* reserved above bytes still to be given back.                            *)
THEOREM RecordInvariant == Spec => []RecordInv
<1>1. Init => RecordInv
  BY RecordStart
<1>2. TypeOK /\ TypeOK' /\ FlushInv /\ RecordInv /\ [Next]_vars => RecordInv'
  BY RecordNext
<1>3. QED
  BY <1>1, <1>2, TypeCorrect, FlushInvariant, PTL DEF Spec

(* Any number of threads that append, the flusher, signals, forks, an exit *)
(* in the middle and a failing memalign(): every message flush_buffer()    *)
(* writes from a buffer that is not torn fits the logger's payload and is  *)
(* the prefix followed by whole records, without gap, overlap or a record  *)
(* cut short.                                                              *)
THEOREM RecordsAreWhole == Spec => []WholeRecords
<1>1. Init => WholeRecords
  BY DEF Init, WholeRecords
<1>2. TypeOK /\ RecordInv /\ WholeRecords /\ [Next]_vars => WholeRecords'
  BY WholeNext
<1>3. QED
  BY <1>1, <1>2, TypeCorrect, RecordInvariant, PTL DEF Spec
=============================================================================
