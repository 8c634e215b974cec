----------------------- MODULE BblogRefinementProofs -----------------------
(***************************************************************************)
(* Proof that Bblog implements RecordLog, whatever the number of threads   *)
(* that append: no step loses a record that was copied into a buffer,      *)
(* other than by writing it, unless the buffer is torn, and none writes it *)
(* twice.  Then that a process writes only records of its own.             *)
(***************************************************************************)
EXTENDS BblogRecordProofs, SequenceTheorems

-----------------------------------------------------------------------------
(* The inductive invariant.                                                *)

(* Records are numbered once. *)
Numbered ==
  /\ cntr <= MaxRecs
  /\ \A a \in Actors : th[a].rec <= cntr
  /\ \A p \in Addrs : \A s \in segs[p] : s.rec <= cntr
  /\ \A i \in 1 .. Len(log) : \A s \in log[i].segs : s.rec <= cntr

(* A record that is being appended is not in a buffer or a message, and no *)
(* other actor appends it.                                                 *)
Single ==
  /\ \A a, b \in Actors : a # b /\ th[a].rec # 0 => th[a].rec # th[b].rec
  /\ \A a \in Actors : th[a].rec # 0 /\ pc[a] # "unref" =>
       /\ \A p \in Addrs : \A s \in segs[p] : s.rec # th[a].rec
       /\ \A i \in 1 .. Len(log) : \A s \in log[i].segs : s.rec # th[a].rec

(* No record is in two places. *)
Disjoint ==
  \A p, q \in Addrs : \A s \in segs[p], u \in segs[q] : s.rec = u.rec => p = q /\ s = u

LogInv == Numbered /\ Single /\ Disjoint

-----------------------------------------------------------------------------
(* Steps that copy, write and number nothing.                              *)

(* Records stay where they are, and no actor takes up a record. *)
Still ==
  /\ cntr' = cntr /\ log' = log /\ segs' = segs
  /\ \A b \in Actors : /\ th'[b].rec \in {0, th[b].rec}
                       /\ pc[b] = "unref" => pc'[b] = "unref" \/ th'[b].rec = 0

(* Nor is any of them torn, or whole again. *)
Quiet == Still /\ \A p \in Addrs : segs[p] # {} => (p \in torn' <=> p \in torn)

(* A step of one actor that keeps its record or gives it up is quiet. *)
LEMMA QuietLocal ==
  ASSUME cntr' = cntr, log' = log, segs' = segs, torn' = torn, NEW a \in Actors,
         \A b \in Actors : b # a => pc'[b] = pc[b] /\ th'[b].rec = th[b].rec,
         th'[a].rec \in {0, th[a].rec}, pc[a] = "unref" => th'[a].rec = 0
  PROVE  Quiet
BY DEF Quiet, Still

(* A step that changes neither buffers nor actors is quiet. *)
LEMMA QuietStutter ==
  ASSUME UNCHANGED <<cntr, log, segs, torn, pc, th>>
  PROVE  Quiet
BY DEF Quiet, Still

(* swap_buffers() and flush_buffer() are quiet, up to the write. *)
LEMMA QuietSwapAndFlush ==
  ASSUME TypeOK, RolesOK, NewEmpty, NEW a \in Actors, SwapAndFlush(a), ~FlushWrite(a)
  PROVE  Quiet
<1> USE DEF Goto, Return, buffers, process, history
<1>r. Returned(th[a]).rec = th[a].rec
  BY ReturnRole
<1>l. \A b \in Actors : th[b] \in Locals
  BY DEF TypeOK
<1>1. CASE SwapCheck(a) \/ Alloc(a) \/ AllocFail(a)
  <2>1. /\ cntr' = cntr /\ log' = log /\ segs' = segs /\ torn' = torn
        /\ \A b \in Actors : b # a => pc'[b] = pc[b] /\ th'[b] = th[b]
        /\ pc[a] # "unref"
    BY <1>1 DEF SwapCheck, Alloc, AllocFail, TypeOK
  <2>2. th'[a].rec = th[a].rec
    <3>1. CASE SwapCheck(a)
      BY <1>l, <1>r, <3>1 DEF SwapCheck, TypeOK, Locals
    <3>2. CASE Alloc(a)
      BY <1>l, <3>2 DEF Alloc, TypeOK, Locals
    <3>3. CASE AllocFail(a)
      BY <1>r, <3>3 DEF AllocFail, TypeOK
    <3>4. QED
      BY <1>1, <3>1, <3>2, <3>3
  <2>3. QED
    BY <2>1, <2>2, QuietLocal
<1>2. CASE InitBuffer(a)
  <2>1. /\ cntr' = cntr /\ log' = log /\ segs' = segs /\ th' = th
        /\ torn' = torn \ {th[a].new} /\ pc[a] = "init"
        /\ \A b \in Actors : b # a => pc'[b] = pc[b]
    BY <1>2 DEF InitBuffer, TypeOK
  <2>2. segs[th[a].new] = {}
    BY <2>1 DEF NewEmpty, Making
  <2>3. QED
    BY <2>1, <2>2 DEF Quiet, Still
<1>3. CASE SwapCas(a)
  <2>1. /\ cntr' = cntr /\ log' = log /\ segs' = segs /\ torn' = torn /\ pc[a] = "cas"
        /\ \A b \in Actors : b # a => pc'[b] = pc[b]
    BY <1>3 DEF SwapCas, TypeOK
  <2>2. CASE procPibr = th[a].cur
    <3>1. th'[a].rec = th[a].rec /\ \A b \in Actors : b # a => th'[b] = th[b]
      BY <1>3, <1>r, <2>2 DEF SwapCas, Local, TypeOK
    <3>2. QED
      BY <2>1, <3>1, QuietLocal
  <2>3. CASE procPibr # th[a].cur
    <3>1. th' = Freed(th[a].new, a)
      BY <1>3, <2>3 DEF SwapCas
    <3>2. th'[a].rec = th[a].rec
      BY <1>r, <3>1 DEF Freed
    <3>3. QED
      BY <2>1, <3>1, <3>2, FreedKeeps, QuietLocal
  <2>4. QED
    BY <2>2, <2>3
<1>4. CASE FlushReadPid(a) \/ FlushReadIdx(a)
  <2>1. /\ cntr' = cntr /\ log' = log /\ segs' = segs /\ torn' = torn
        /\ \A b \in Actors : b # a => pc'[b] = pc[b] /\ th'[b] = th[b]
        /\ pc[a] # "unref"
    BY <1>4 DEF FlushReadPid, FlushReadIdx, TypeOK
  <2>2. \/ th' = [th EXCEPT ![a] = Returned(th[a])]
        \/ th' = [th EXCEPT ![a].owner = header[th[a].cur].pid]
        \/ th' = [th EXCEPT ![a].idx = header[th[a].cur].idx]
    BY <1>4 DEF FlushReadPid, FlushReadIdx
  <2>3. th'[a].rec = th[a].rec
    BY <1>l, <1>r, <2>2 DEF TypeOK, Locals
  <2>4. QED
    BY <2>1, <2>3, QuietLocal
<1>5. CASE FlushCas(a)
  BY <1>5, QuietLocal DEF FlushCas, TypeOK
<1>6. CASE Spin(a)
  BY <1>6, QuietStutter DEF Spin, vars
<1>7. QED
  BY <1>1, <1>2, <1>3, <1>4, <1>5, <1>6 DEF SwapAndFlush

(* So are giving references back, the flusher, exit, signals and the calls *)
(* of the application, other than bblog().                                 *)
LEMMA QuietOther ==
  ASSUME TypeOK, NEW a \in Actors,
         \/ LoadProcPibr(a) \/ FetchAndAddFault(a) \/ Unref(a) \/ Undo(a)
         \/ FlusherThread(a) \/ Exit(a) \/ BadAccess(a)
         \/ BblogInit(a) \/ Spawn(a) \/ ExitBegin(a) \/ Fork(a)
         \/ \E v \in Threads \cup {Flusher} : a = Handler /\ Signal(v)
  PROVE  Quiet
<1> USE DEF Goto, buffers, process, history
<1>i. Idle.rec = 0
  BY DEF Idle, Local
<1>1. CASE LoadProcPibr(a) \/ Unref(a) \/ Undo(a)
  <2>1. /\ cntr' = cntr /\ log' = log /\ segs' = segs /\ torn' = torn
        /\ \A b \in Actors : b # a => pc'[b] = pc[b] /\ th'[b] = th[b]
        /\ th'[a].rec \in {0, th[a].rec} /\ (pc[a] = "unref" => th'[a].rec = 0)
    BY <1>1, <1>i DEF LoadProcPibr, Unref, Undo, Load, Local, TypeOK
  <2>2. QED
    BY <2>1, QuietLocal
<1>2. CASE FetchAndAddFault(a) \/ BadAccess(a) \/ ProcessExit(a)
  BY <1>2, QuietStutter DEF FetchAndAddFault, BadAccess, ProcessExit
<1>3. CASE FlWake(a) \/ FlPeekPtr(a) \/ FlPeek(a) \/ FlReload(a)
  <2>1. /\ cntr' = cntr /\ log' = log /\ segs' = segs /\ torn' = torn
        /\ \A b \in Actors : b # a => pc'[b] = pc[b] /\ th'[b] = th[b]
        /\ th'[a].rec \in {0, th[a].rec} /\ pc[a] # "unref"
    BY <1>3, <1>i DEF FlWake, FlPeekPtr, FlPeek, FlReload, Load, Local, TypeOK
  <2>2. QED
    BY <2>1, QuietLocal
<1>4. CASE ExitJoin(a)
  <2>1. CASE Load(a) /\ pc' = [pc EXCEPT ![a] = "zero"]
    <3>1. /\ cntr' = cntr /\ log' = log /\ segs' = segs /\ torn' = torn
          /\ \A b \in Actors : b # a => pc'[b] = pc[b] /\ th'[b] = th[b]
          /\ th'[a].rec = th[a].rec /\ pc[a] # "unref"
      BY <1>4, <2>1 DEF ExitJoin, Load, Local, TypeOK
    <3>2. QED
      BY <3>1, QuietLocal
  <2>2. CASE UNCHANGED <<pc, th>>
    BY <1>4, <2>2, QuietStutter DEF ExitJoin
  <2>3. QED
    BY <1>4, <2>1, <2>2 DEF ExitJoin
<1>5. CASE ExitZero(a)
  <2>1. /\ cntr' = cntr /\ log' = log /\ segs' = segs /\ torn' = torn
        /\ \A b \in Actors : b # a => pc'[b] = pc[b] /\ th'[b] = th[b]
        /\ th'[a].rec \in {0, th[a].rec} /\ pc[a] # "unref"
    BY <1>5, <1>i DEF ExitZero, TypeOK
  <2>2. QED
    BY <2>1, QuietLocal
<1>6. CASE BblogInit(a) \/ Spawn(a) \/ ExitBegin(a)
  BY <1>6, QuietLocal DEF BblogInit, Spawn, ExitBegin, TypeOK
<1>7. CASE Fork(a)
  <2>1. /\ cntr' = cntr /\ log' = log /\ segs' = segs /\ torn' = torn
        /\ \A b \in Actors : th'[b].rec = 0
    BY <1>7, <1>i DEF Fork
  <2>2. QED
    BY <2>1 DEF Quiet, Still
<1>8. ASSUME NEW v \in Threads \cup {Flusher}, a = Handler, Signal(v) PROVE Quiet
  <2>1. /\ cntr' = cntr /\ log' = log /\ segs' = segs /\ torn' = torn
        /\ \A b \in Actors : b # a => pc'[b] = pc[b] /\ th'[b] = th[b]
        /\ th'[a].rec = th[a].rec /\ pc[a] # "unref"
    BY <1>8 DEF Signal, Load, Local, TypeOK
  <2>2. QED
    BY <2>1, QuietLocal
<1>9. QED
  BY <1>1, <1>2, <1>3, <1>4, <1>5, <1>6, <1>7, <1>8 DEF FlusherThread, Exit

(* The steps that are not quiet. *)
LEMMA StepKinds ==
  ASSUME TypeOK, RolesOK, NewEmpty, [Next]_vars
  PROVE  \/ Quiet
         \/ \E t \in Actors : \/ FetchAndAdd(t) \/ Memcpy(t) \/ FlushWrite(t)
                              \/ \E s \in Sizes : bblog(t, s)
<1>1. ASSUME NEW a \in Actors, Step(a)
      PROVE  Quiet \/ FetchAndAdd(a) \/ Memcpy(a) \/ FlushWrite(a)
  BY <1>1, QuietSwapAndFlush, QuietOther DEF Step, Blog
<1>2. ASSUME NEW a \in Actors, Call(a) PROVE Quiet \/ \E s \in Sizes : bblog(a, s)
  BY <1>2, QuietOther DEF Call
<1>3. ASSUME NEW v \in Threads \cup {Flusher}, Signal(v) PROVE Quiet
  <2>1. Handler \in Actors
    BY DEF Actors
  <2>2. QED
    BY <1>3, <2>1, QuietOther
<1>4. ASSUME Tick \/ Rest \/ UNCHANGED vars PROVE Quiet
  BY <1>4, QuietStutter DEF Tick, Rest, vars, buffers, process, history
<1>5. QED
  BY <1>1, <1>2, <1>3, <1>4 DEF Next

-----------------------------------------------------------------------------
(* The numbers of records.                                                 *)

(* A step that takes up no record keeps their numbers. *)
LEMMA NumberedStill ==
  ASSUME TypeOK, LogInv, Still
  PROVE  LogInv'
<1>1. cntr \in Nat /\ \A b \in Actors : th[b].rec \in Nat
  BY DEF TypeOK, Locals
<1>2. Numbered'
  BY <1>1 DEF LogInv, Numbered, Still
<1>3. Single'
  BY DEF LogInv, Single, Still
<1>4. Disjoint'
  BY DEF LogInv, Disjoint, Still
<1>5. QED
  BY <1>2, <1>3, <1>4 DEF LogInv

(* The fetch-and-add is one. *)
LEMMA AddStill ==
  ASSUME TypeOK, RolesOK, NEW t \in Actors, FetchAndAdd(t)
  PROVE  Still
<1>1. /\ segs' = segs /\ pc[t] = "add"
      /\ \A b \in Actors : b # t => pc'[b] = pc[b] /\ th'[b] = th[b]
      /\ th'[t].rec = th[t].rec
  BY AddStep
<1>2. cntr' = cntr /\ log' = log
  BY DEF FetchAndAdd, process
<1>3. QED
  BY <1>1, <1>2 DEF Still

(* bblog() gives the record a number that was not used. *)
LEMMA NumberedCall ==
  ASSUME TypeOK, LogInv, NEW t \in Actors, NEW s \in Sizes, bblog(t, s)
  PROVE  LogInv'
<1> USE DEF LogInv
<1>1. /\ log' = log /\ segs' = segs /\ cntr' = cntr + 1 /\ cntr < MaxRecs
      /\ pc[t] = "idle" /\ pc'[t] \in {"idle", "load"}
      /\ th'[t].rec = cntr + 1 \/ th'[t].rec = th[t].rec
      /\ \A b \in Actors : b # t => th'[b] = th[b] /\ pc'[b] = pc[b]
  BY DEF bblog, Goto, buffers, Local, TypeOK
<1>2. cntr \in Nat /\ MaxRecs \in Nat /\ \A b \in Actors : th[b].rec \in Nat
  BY BblogAssumption DEF TypeOK, Locals
<1>3. /\ \A p \in Addrs : \A u \in segs[p] : u.rec \in Nat
      /\ \A i \in 1 .. Len(log) : \A u \in log[i].segs : u.rec \in Nat
  <2>1. \A p \in Addrs : \A u \in segs[p] : u.rec \in Nat
    BY DEF TypeOK, Segs
  <2>2. ASSUME NEW i \in 1 .. Len(log), NEW u \in log[i].segs PROVE u.rec \in Nat
    <3>1. log[i] \in Messages
      BY DEF TypeOK
    <3>2. u \in Segs
      BY <3>1 DEF Messages
    <3>3. QED
      BY <3>2 DEF Segs
  <2>3. QED
    BY <2>1, <2>2
<1>4. Numbered'
  BY <1>1, <1>2, <1>3 DEF Numbered
<1>5. Single'
  BY <1>1, <1>2, <1>3 DEF Single, Numbered
<1>6. Disjoint'
  BY <1>1 DEF Disjoint
<1>7. QED
  BY <1>4, <1>5, <1>6

(* What lies where this actor is going to copy to. *)
Hit(t) == {s \in segs[th[t].cur] : Extent(s) \cap Extent(Reserved(t)) # {}}

(* memcpy() destroys nothing, unless the buffer is torn. *)
LEMMA CopyStep ==
  ASSUME TypeOK, RecordInv, NEW t \in Actors, Memcpy(t)
  PROVE  LET p == th[t].cur IN
         /\ p \in Addrs /\ Reserved(t) \in Segs
         /\ Reserved(t).rec = th[t].rec /\ th[t].rec # 0
         /\ segs'[p] = (segs[p] \ Hit(t)) \cup {Reserved(t)}
         /\ \A q \in Addrs : q # p => segs'[q] = segs[q]
         /\ p \notin torn => Hit(t) = {}
         /\ log' = log /\ cntr' = cntr /\ th' = th /\ torn' = torn
         /\ pc[t] = "copy" /\ pc'[t] = "unref"
         /\ \A b \in Actors : b # t => pc'[b] = pc[b]
<1>0. PICK p \in Addrs : p = th[t].cur
  BY DEF Memcpy, Sound, TypeOK, Locals
<1>1. /\ log' = log /\ cntr' = cntr /\ th' = th /\ torn' = torn
      /\ pc[t] = "copy" /\ Sound(t) /\ pc'[t] = "unref"
      /\ \A b \in Actors : b # t => pc'[b] = pc[b]
  BY DEF Memcpy, Goto, process, history, TypeOK
<1>r. PICK r : r = Reserved(t)
  OBVIOUS
<1>2. /\ segs'[p] = {s \in segs[p] : Extent(s) \cap Extent(r) = {}} \cup {r}
      /\ \A q \in Addrs : q # p => segs'[q] = segs[q]
  BY <1>0, <1>r DEF Memcpy, Reserved, TypeOK
<1>3. r \in Segs /\ r.rec = th[t].rec /\ th[t].rec # 0
  <2>1. r \in Segs /\ r.rec = th[t].rec
    BY <1>r, <1>0, SlotsType DEF Reserved
  <2>2. QED
    BY <1>1, <2>1 DEF RecordInv, RolesOK, Appending
<1>4. ASSUME p \notin torn, NEW s \in segs[p] PROVE Extent(s) \cap Extent(r) = {}
  <2>1. s.at \in Nat /\ s.len \in Nat /\ r.at \in Nat /\ r.len \in Nat
    BY <1>3, <1>4 DEF TypeOK, Segs
  <2>2. r.at + r.len <= s.at \/ s.at + s.len <= r.at
    <3>1. Separate(p) /\ t \in At(p, "copy")
      BY <1>0, <1>1, <1>4 DEF RecordInv, BuffersWhole, Kept, At
    <3>2. QED
      BY <1>r, <1>4, <3>1 DEF Separate, Beside
  <2>3. QED
    BY <2>1, <2>2 DEF Extent
<1>5. p \notin torn => Hit(t) = {}
  BY <1>0, <1>r, <1>4 DEF Hit
<1>6. segs'[p] = (segs[p] \ Hit(t)) \cup {r}
  BY <1>0, <1>r, <1>2 DEF Hit
<1>7. QED
  BY <1>0, <1>1, <1>2, <1>3, <1>5, <1>6, <1>r

(* A copied record is in one place. *)
LEMMA NumberedCopy ==
  ASSUME TypeOK, RecordInv, LogInv, NEW t \in Actors, Memcpy(t)
  PROVE  LogInv'
<1> USE DEF LogInv
<1>0. PICK p \in Addrs : p = th[t].cur
  BY CopyStep
<1>r. PICK r \in Segs : r = Reserved(t)
  BY CopyStep
<1>1. /\ segs'[p] \subseteq segs[p] \cup {r} /\ r.rec = th[t].rec /\ r.rec # 0
      /\ \A q \in Addrs : q # p => segs'[q] = segs[q]
      /\ log' = log /\ cntr' = cntr /\ th' = th /\ pc[t] = "copy" /\ pc'[t] = "unref"
      /\ \A b \in Actors : b # t => pc'[b] = pc[b]
  BY <1>0, <1>r, CopyStep
<1>c. \A q \in Addrs : \A s \in segs'[q] : s \in segs[q] \/ (q = p /\ s = r)
  BY <1>1
<1>2. Numbered'
  BY <1>1, <1>c DEF Numbered
<1>3. Single'
  <2>1. ASSUME NEW a \in Actors, th[a].rec # 0, pc'[a] # "unref",
               NEW q \in Addrs, NEW s \in segs'[q]
        PROVE  s.rec # th[a].rec
    <3>1. a # t /\ pc[a] # "unref"
      BY <1>1, <2>1
    <3>2. CASE s \in segs[q]
      BY <2>1, <3>1, <3>2 DEF Single
    <3>3. CASE s = r
      BY <1>1, <2>1, <3>1, <3>3 DEF Single
    <3>4. QED
      BY <1>c, <2>1, <3>2, <3>3
  <2>2. QED
    BY <1>1, <2>1 DEF Single
<1>4. Disjoint'
  <2>1. \A q \in Addrs : \A s \in segs[q] : s.rec # r.rec
    BY <1>1 DEF Single
  <2>2. QED
    BY <1>c, <2>1 DEF Disjoint
<1>5. QED
  BY <1>2, <1>3, <1>4

(* flush_buffer() moves the records of one buffer to the log, all of them  *)
(* unless the buffer is torn.                                              *)
LEMMA WriteMoves ==
  ASSUME TypeOK, RecordInv, NEW a \in Actors, FlushWrite(a)
  PROVE  LET p == th[a].cur IN
         /\ p \in Addrs /\ segs'[p] = {} /\ cntr' = cntr /\ torn' = torn
         /\ \A q \in Addrs : q # p => segs'[q] = segs[q]
         /\ Len(log) \in Nat /\ Len(log') = Len(log) + 1
         /\ \A i \in 1 .. Len(log) : log'[i] = log[i]
         /\ log'[Len(log) + 1].segs \subseteq segs[p]
         /\ p \notin torn => log'[Len(log) + 1].segs = segs[p]
<1>0. PICK p \in Addrs : p = th[a].cur
  BY WriteStep
<1>S. PICK S \in SUBSET segs[p] :
        /\ p \notin torn => S = segs[p]
        /\ log' = Append(log, [pid |-> th[a].owner, by |-> pid, end |-> th[a].idx,
                               torn |-> p \in torn, segs |-> S])
  BY <1>0, WriteStep
<1>m. PICK m : m = [pid |-> th[a].owner, by |-> pid, end |-> th[a].idx,
                    torn |-> p \in torn, segs |-> S]
  OBVIOUS
<1>1. log' = Append(log, m) /\ m.segs = S
  BY <1>S, <1>m
<1>2. log \in Seq(Messages) /\ Len(log) \in Nat
  BY DEF TypeOK
<1>3. /\ Len(log') = Len(log) + 1 /\ log'[Len(log) + 1] = m
      /\ \A i \in 1 .. Len(log) : log'[i] = log[i]
  BY <1>1, <1>2
<1>4. /\ segs'[p] = {} /\ cntr' = cntr /\ torn' = torn
      /\ \A q \in Addrs : q # p => segs'[q] = segs[q]
  BY <1>0 DEF FlushWrite, process, history, TypeOK
<1>5. QED
  BY <1>0, <1>S, <1>1, <1>2, <1>3, <1>4

(* A message holds records that are in no buffer any more. *)
LEMMA NumberedWrite ==
  ASSUME TypeOK, RecordInv, LogInv, NEW a \in Actors, FlushWrite(a)
  PROVE  LogInv'
<1> USE DEF LogInv
<1>0. PICK p \in Addrs : p = th[a].cur
  BY WriteMoves
<1>r. /\ ReturnPc(a) \in {"sleep", "none", "done", "load", "idle"}
      /\ Returned(th[a]).rec = th[a].rec
  BY ReturnRole DEF RecordInv
<1>1. /\ segs'[p] = {} /\ \A q \in Addrs : q # p => segs'[q] = segs[q]
      /\ cntr' = cntr /\ Len(log) \in Nat /\ Len(log') = Len(log) + 1
      /\ \A i \in 1 .. Len(log) : log'[i] = log[i]
      /\ log'[Len(log) + 1].segs \subseteq segs[p]
  BY <1>0, WriteMoves
<1>2. /\ pc[a] = "write" /\ pc'[a] \in {"sleep", "none", "done", "load", "idle"}
      /\ th' = Freed(p, a) /\ th'[a].rec = th[a].rec
      /\ \A b \in Actors : b # a => pc'[b] = pc[b]
  BY <1>0, <1>r DEF FlushWrite, Return, Goto, Freed, TypeOK
<1>3. \A b \in Actors : th'[b].rec = th[b].rec
  BY <1>2, FreedKeeps
<1>4. ASSUME NEW i \in 1 .. Len(log'), NEW s \in log'[i].segs
      PROVE  s \in segs[p] \/ (i \in 1 .. Len(log) /\ s \in log[i].segs)
  <2>1. i \in 1 .. Len(log) \/ i = Len(log) + 1
    BY <1>1
  <2>2. QED
    BY <1>1, <2>1
<1>5. \A q \in Addrs : \A s \in segs'[q] : s \in segs[q]
  BY <1>1
<1>6. Numbered'
  BY <1>1, <1>3, <1>4, <1>5 DEF Numbered
<1>7. Single'
  BY <1>2, <1>3, <1>4, <1>5 DEF Single
<1>8. Disjoint'
  BY <1>5 DEF Disjoint
<1>9. QED
  BY <1>6, <1>7, <1>8

(* Every step keeps the invariant. *)
LEMMA LogNext ==
  ASSUME TypeOK, RecordInv, LogInv, [Next]_vars
  PROVE  LogInv'
<1>1. RolesOK /\ NewEmpty
  BY DEF RecordInv
<1>2. CASE Quiet
  BY <1>2, NumberedStill DEF Quiet
<1>3. ASSUME NEW t \in Actors, FetchAndAdd(t) PROVE LogInv'
  BY <1>1, <1>3, AddStill, NumberedStill
<1>4. QED
  BY <1>1, <1>2, <1>3, StepKinds, NumberedCopy, NumberedWrite, NumberedCall

(* The invariant holds in every behaviour: a record is in one place, and   *)
(* one that is being appended is in no buffer and no message yet.          *)
THEOREM LogInvariant == Spec => []LogInv
<1>1. Init => LogInv
  <2> SUFFICES ASSUME Init PROVE LogInv
    OBVIOUS
  <2>1. /\ cntr = 0 /\ Len(log) = 0 /\ MaxRecs \in Nat
        /\ \A a \in Actors : th[a].rec = 0
        /\ \A p \in Addrs : segs[p] = {}
    BY BblogAssumption DEF Init, Idle, Local
  <2>2. QED
    BY <2>1 DEF LogInv, Numbered, Single, Disjoint
<1>2. TypeOK /\ RecordInv /\ LogInv /\ [Next]_vars => LogInv'
  BY LogNext
<1>3. QED
  BY <1>1, <1>2, TypeCorrect, RecordInvariant, PTL DEF Spec

-----------------------------------------------------------------------------
(* The refinement.                                                         *)

(* A record is pending if a buffer has it, and exposed if the buffer is    *)
(* torn; memory that is not allocated holds no record.                     *)
LEMMA PendingIn ==
  ASSUME TypeOK, NewEmpty, NEW r
  PROVE  /\ r \in PendingRecs <=> \E p \in Addrs : \E s \in segs[p] : r = s.rec
         /\ r \in ExposedRecs <=> \E p \in torn : \E s \in segs[p] : r = s.rec
<1>1. alive \subseteq Addrs /\ torn \subseteq Addrs
  BY DEF TypeOK
<1>2. \A p \in Addrs : \A s \in segs[p] : p \in alive
  BY DEF NewEmpty
<1>3. r \in PendingRecs <=> \E p \in alive : \E s \in segs[p] : r = s.rec
  BY DEF PendingRecs, Recs
<1>4. r \in ExposedRecs <=> \E p \in alive \cap torn : \E s \in segs[p] : r = s.rec
  BY DEF ExposedRecs, Recs
<1>5. QED
  BY <1>1, <1>2, <1>3, <1>4

(* The same after a step. *)
LEMMA PendingNext ==
  ASSUME TypeOK', NewEmpty', NEW r
  PROVE  /\ r \in PendingRecs' <=> \E p \in Addrs : \E s \in segs'[p] : r = s.rec
         /\ r \in ExposedRecs' <=> \E p \in torn' : \E s \in segs'[p] : r = s.rec
<1>1. alive' \subseteq Addrs /\ torn' \subseteq Addrs
  BY DEF TypeOK
<1>2. \A p \in Addrs : \A s \in segs'[p] : p \in alive'
  BY DEF NewEmpty
<1>3. r \in PendingRecs' <=> \E p \in alive' : \E s \in segs'[p] : r = s.rec
  BY DEF PendingRecs, Recs
<1>4. r \in ExposedRecs' <=> \E p \in alive' \cap torn' : \E s \in segs'[p] : r = s.rec
  BY DEF ExposedRecs, Recs
<1>5. QED
  BY <1>1, <1>2, <1>3, <1>4

(* A record is written if a message has it. *)
LEMMA WrittenIn ==
  ASSUME TypeOK, NEW r
  PROVE  r \in R!Written <=> \E i \in 1 .. Len(log) : \E s \in log[i].segs : r = s.rec
<1>1. Len(log) \in Nat
  BY DEF TypeOK
<1>2. Len(WrittenRecs) = Len(log)
  BY <1>1 DEF WrittenRecs
<1>3. \A i \in 1 .. Len(log) : WrittenRecs[i] = {s.rec : s \in log[i].segs}
  BY DEF WrittenRecs, Recs
<1>4. QED
  BY <1>2, <1>3 DEF R!Written

(* A quiet step, and the call of bblog(), leave the records where they are. *)
LEMMA QuietRefines ==
  ASSUME TypeOK, TypeOK', NewEmpty, NewEmpty', segs' = segs, log' = log,
         \A p \in Addrs : segs[p] # {} => (p \in torn' <=> p \in torn)
  PROVE  UNCHANGED R!rvars
<1>1. torn \subseteq Addrs /\ torn' \subseteq Addrs
  BY DEF TypeOK
<1>2. PendingRecs' = PendingRecs
  <2>1. ASSUME NEW r PROVE r \in PendingRecs' <=> r \in PendingRecs
    <3>1. r \in PendingRecs <=> \E p \in Addrs : \E s \in segs[p] : r = s.rec
      BY PendingIn
    <3>2. r \in PendingRecs' <=> \E p \in Addrs : \E s \in segs[p] : r = s.rec
      BY PendingNext
    <3>3. QED
      BY <3>1, <3>2
  <2>2. QED
    BY <2>1
<1>3. ExposedRecs' = ExposedRecs
  <2>1. ASSUME NEW r PROVE r \in ExposedRecs' <=> r \in ExposedRecs
    <3>1. r \in ExposedRecs <=> \E p \in torn : \E s \in segs[p] : r = s.rec
      BY PendingIn
    <3>2. r \in ExposedRecs' <=> \E p \in torn' : \E s \in segs[p] : r = s.rec
      BY PendingNext
    <3>3. QED
      BY <1>1, <3>1, <3>2
  <2>2. QED
    BY <2>1
<1>4. WrittenRecs' = WrittenRecs
  BY DEF WrittenRecs, Recs
<1>5. QED
  BY <1>2, <1>3, <1>4 DEF R!rvars

(* A fetch-and-add may tear a buffer, and so expose what it holds. *)
LEMMA AddExposes ==
  ASSUME TypeOK, TypeOK', RecordInv, RecordInv', NEW t \in Actors, FetchAndAdd(t)
  PROVE  R!RNext
<1>0. PICK p \in Addrs : p = th[t].cur
  BY AddStep DEF RecordInv
<1>1. /\ segs' = segs /\ torn \subseteq torn'
      /\ \A q \in Addrs : q # p => (q \in torn' <=> q \in torn)
  BY <1>0, AddStep DEF RecordInv
<1>2. log' = log
  BY DEF FetchAndAdd
<1>s. PICK S : S = IF p \in torn' THEN Recs(segs[p]) ELSE {}
  OBVIOUS
<1>3. S \subseteq PendingRecs
  BY <1>s, PendingIn DEF RecordInv, Recs
<1>4. PendingRecs' = PendingRecs
  <2>1. ASSUME NEW r PROVE r \in PendingRecs' <=> r \in PendingRecs
    <3>1. r \in PendingRecs <=> \E q \in Addrs : \E s \in segs[q] : r = s.rec
      BY PendingIn DEF RecordInv
    <3>2. r \in PendingRecs' <=> \E q \in Addrs : \E s \in segs[q] : r = s.rec
      BY <1>1, PendingNext DEF RecordInv
    <3>3. QED
      BY <3>1, <3>2
  <2>2. QED
    BY <2>1
<1>5. ExposedRecs' = ExposedRecs \cup S
  <2>0. torn \subseteq Addrs /\ torn' \subseteq Addrs
    BY DEF TypeOK
  <2>1. ASSUME NEW r PROVE r \in ExposedRecs' <=> r \in ExposedRecs \cup S
    <3>1. r \in ExposedRecs <=> \E q \in torn : \E s \in segs[q] : r = s.rec
      BY PendingIn DEF RecordInv
    <3>2. r \in ExposedRecs' <=> \E q \in torn' : \E s \in segs[q] : r = s.rec
      BY <1>1, PendingNext DEF RecordInv
    <3>3. r \in S <=> p \in torn' /\ \E s \in segs[p] : r = s.rec
      BY <1>s DEF Recs
    <3>4. QED
      BY <1>1, <2>0, <3>1, <3>2, <3>3
  <2>2. QED
    BY <2>1
<1>6. WrittenRecs' = WrittenRecs
  BY <1>2 DEF WrittenRecs, Recs
<1>7. R!Expose(S)
  BY <1>4, <1>5, <1>6 DEF R!Expose
<1>8. QED
  BY <1>3, <1>7 DEF R!RNext

(* memcpy() accepts the record; into a torn buffer, over what lies there. *)
LEMMA CopyAccepts ==
  ASSUME TypeOK, TypeOK', RecordInv, RecordInv', LogInv, NEW t \in Actors, Memcpy(t)
  PROVE  R!RNext
<1> USE DEF LogInv
<1>0. PICK p \in Addrs : p = th[t].cur
  BY CopyStep
<1>r. PICK r \in Segs : r = Reserved(t)
  BY CopyStep
<1>h. PICK H : H = Hit(t)
  OBVIOUS
<1>1. /\ segs'[p] = (segs[p] \ H) \cup {r} /\ r.rec = th[t].rec /\ r.rec # 0
      /\ \A q \in Addrs : q # p => segs'[q] = segs[q]
      /\ log' = log /\ torn' = torn /\ pc[t] = "copy" /\ (p \notin torn => H = {})
  BY <1>0, <1>r, <1>h, CopyStep
<1>2. H \subseteq segs[p]
  BY <1>0, <1>h DEF Hit
<1>L. PICK L : L = Recs(H)
  OBVIOUS
<1>3. r.rec \in 1 .. MaxRecs
  BY SMTT(60), <1>1, BblogAssumption DEF Numbered, Segs, TypeOK
<1>4. r.rec \notin PendingRecs /\ r.rec \notin R!Written
  BY <1>1, PendingIn, WrittenIn DEF Single, RecordInv
<1>l. \A x : x \in L <=> \E s \in H : x = s.rec
  BY <1>L DEF Recs
<1>d. \A q \in Addrs : \A s \in segs[q] : s.rec \in L <=> q = p /\ s \in H
  BY <1>2, <1>l DEF Disjoint
<1>t. torn \subseteq Addrs
  BY DEF TypeOK
<1>n. \A x : (\E q \in Addrs : \E s \in segs'[q] : x = s.rec) <=>
             ((\E q \in Addrs : \E s \in segs[q] : x = s.rec) /\ x \notin L) \/ x = r.rec
  <2>1. ASSUME NEW x, NEW q \in Addrs, NEW s \in segs'[q], x = s.rec
        PROVE  ((\E q2 \in Addrs : \E s2 \in segs[q2] : x = s2.rec) /\ x \notin L) \/ x = r.rec
    BY <1>1, <1>d, <2>1
  <2>2. ASSUME NEW x, NEW q \in Addrs, NEW s \in segs[q], x = s.rec, x \notin L
        PROVE  s \in segs'[q]
    BY <1>1, <1>d, <2>2
  <2>3. r \in segs'[p]
    BY <1>1
  <2>4. QED
    BY <2>1, <2>2, <2>3
<1>e. \A x : (\E q \in torn : \E s \in segs'[q] : x = s.rec) <=>
             ((\E q \in torn : \E s \in segs[q] : x = s.rec) /\ x \notin L)
             \/ (x = r.rec /\ p \in torn)
  <2>1. ASSUME NEW x, NEW q \in torn, NEW s \in segs'[q], x = s.rec
        PROVE  ((\E q2 \in torn : \E s2 \in segs[q2] : x = s2.rec) /\ x \notin L)
               \/ (x = r.rec /\ p \in torn)
    BY <1>1, <1>d, <1>t, <2>1
  <2>2. ASSUME NEW x, NEW q \in torn, NEW s \in segs[q], x = s.rec, x \notin L
        PROVE  s \in segs'[q]
    BY <1>1, <1>d, <1>t, <2>2
  <2>3. r \in segs'[p]
    BY <1>1
  <2>4. QED
    BY <2>1, <2>2, <2>3
<1>5. PendingRecs' = (PendingRecs \ L) \cup {r.rec}
  <2>1. ASSUME NEW x PROVE x \in PendingRecs' <=> x \in (PendingRecs \ L) \cup {r.rec}
    <3>1. x \in PendingRecs' <=> \E q \in Addrs : \E s \in segs'[q] : x = s.rec
      BY PendingNext DEF RecordInv
    <3>2. x \in PendingRecs <=> \E q \in Addrs : \E s \in segs[q] : x = s.rec
      BY PendingIn DEF RecordInv
    <3>3. QED
      BY <1>n, <3>1, <3>2
  <2>2. QED
    BY <2>1
<1>6. ExposedRecs' = IF p \in torn THEN (ExposedRecs \ L) \cup {r.rec} ELSE ExposedRecs \ L
  <2>1. ASSUME NEW x
        PROVE  x \in ExposedRecs' <=> (x \in ExposedRecs /\ x \notin L) \/ (x = r.rec /\ p \in torn)
    <3>1. x \in ExposedRecs' <=> \E q \in torn : \E s \in segs'[q] : x = s.rec
      BY <1>1, PendingNext DEF RecordInv
    <3>2. x \in ExposedRecs <=> \E q \in torn : \E s \in segs[q] : x = s.rec
      BY PendingIn DEF RecordInv
    <3>3. QED
      BY <1>e, <3>1, <3>2
  <2>2. QED
    BY <2>1
<1>7. WrittenRecs' = WrittenRecs
  BY <1>1 DEF WrittenRecs, Recs
<1>8. CASE p \notin torn
  <2>1. L = {}
    BY <1>1, <1>L, <1>8 DEF Recs
  <2>2. R!Accept(r.rec)
    BY <1>4, <1>5, <1>6, <1>7, <1>8, <2>1 DEF R!Accept
  <2>3. QED
    BY <1>3, <2>2 DEF R!RNext
<1>9. CASE p \in torn
  <2>1. L \subseteq ExposedRecs
    BY <1>2, <1>l, <1>9, PendingIn DEF RecordInv
  <2>2. R!AcceptExposed(r.rec, L)
    BY <1>4, <1>5, <1>6, <1>7, <1>9 DEF R!AcceptExposed
  <2>3. QED
    BY <1>3, <2>1, <2>2 DEF R!RNext
<1>10. QED
  BY <1>8, <1>9

(* A sequence with one more element. *)
LEMMA AppendWritten ==
  ASSUME TypeOK, NEW S, Len(log') = Len(log) + 1,
         \A i \in 1 .. Len(log) : log'[i] = log[i],
         Recs(log'[Len(log) + 1].segs) = S
  PROVE  WrittenRecs' = Append(WrittenRecs, S)
<1>0. Len(log) \in Nat
  BY DEF TypeOK
<1>1. /\ Len(WrittenRecs) = Len(log) /\ DOMAIN WrittenRecs = 1 .. Len(log)
      /\ \A i \in 1 .. Len(log) : WrittenRecs[i] = Recs(log[i].segs)
  BY <1>0 DEF WrittenRecs
<1>2. PICK T : WrittenRecs \in Seq(T) /\ S \in T
  <2>1. WrittenRecs \in Seq({S} \cup {Recs(log[i].segs) : i \in 1 .. Len(log)})
    BY <1>0 DEF WrittenRecs
  <2>2. QED
    BY <2>1
<1>3. WrittenRecs' = [i \in 1 .. Len(log) + 1 |-> IF i = Len(log) + 1 THEN S ELSE WrittenRecs[i]]
  <2>1. WrittenRecs' = [i \in 1 .. Len(log) + 1 |-> Recs(log'[i].segs)]
    BY DEF WrittenRecs, Recs
  <2>2. \A i \in 1 .. Len(log) + 1 :
          Recs(log'[i].segs) = IF i = Len(log) + 1 THEN S ELSE WrittenRecs[i]
    BY <1>0, <1>1
  <2>3. QED
    BY <2>1, <2>2
<1>4. Append(WrittenRecs, S) =
        [i \in 1 .. Len(log) + 1 |-> IF i = Len(log) + 1 THEN S ELSE WrittenRecs[i]]
  <2>1. /\ Append(WrittenRecs, S) \in Seq(T) /\ Len(Append(WrittenRecs, S)) = Len(log) + 1
        /\ \A i \in 1 .. Len(log) : Append(WrittenRecs, S)[i] = WrittenRecs[i]
        /\ Append(WrittenRecs, S)[Len(log) + 1] = S
    BY <1>1, <1>2, AppendProperties
  <2>2. PICK y : y = [i \in 1 .. Len(log) + 1 |-> IF i = Len(log) + 1 THEN S ELSE WrittenRecs[i]]
    OBVIOUS
  <2>3. \A i \in 1 .. Len(log) + 1 : y[i] \in T
    BY <1>0, <1>1, <1>2, <2>2
  <2>4. y \in Seq(T) /\ Len(y) = Len(log) + 1
    BY <1>0, <2>2, <2>3
  <2>5. \A i \in 1 .. Len(log) + 1 : Append(WrittenRecs, S)[i] = y[i]
    BY <1>0, <2>1, <2>2
  <2>6. Append(WrittenRecs, S) = y
    BY <2>1, <2>4, <2>5, SeqEqual
  <2>7. QED
    BY <2>2, <2>6
<1>5. QED
  BY <1>3, <1>4

(* flush_buffer() emits what the buffer holds, which is not nothing; of a  *)
(* torn buffer, what the index does not cut off.                           *)
LEMMA WriteEmits ==
  ASSUME TypeOK, TypeOK', RecordInv, RecordInv', LogInv, NEW a \in Actors, FlushWrite(a)
  PROVE  R!RNext
<1> USE DEF LogInv
<1>0. PICK p \in Addrs : p = th[a].cur
  BY WriteMoves
<1>1. /\ segs'[p] = {} /\ torn' = torn /\ \A q \in Addrs : q # p => segs'[q] = segs[q]
      /\ Len(log') = Len(log) + 1 /\ \A i \in 1 .. Len(log) : log'[i] = log[i]
      /\ log'[Len(log) + 1].segs \subseteq segs[p]
      /\ p \notin torn => log'[Len(log) + 1].segs = segs[p]
  BY <1>0, WriteMoves
<1>s. PICK S : S = Recs(log'[Len(log) + 1].segs)
  OBVIOUS
<1>b. PICK B : B = Recs(segs[p])
  OBVIOUS
<1>2. \A x : x \in B <=> \E s \in segs[p] : x = s.rec
  BY <1>b DEF Recs
<1>3. S \subseteq B /\ (p \notin torn => S = B)
  BY <1>1, <1>s, <1>b DEF Recs
<1>t. torn \subseteq Addrs
  BY DEF TypeOK
<1>4. \A q \in Addrs : \A s \in segs[q] : s.rec \in B <=> q = p
  BY <1>2 DEF Disjoint
<1>5. PendingRecs' = PendingRecs \ B /\ B \subseteq PendingRecs
  <2>1. ASSUME NEW x PROVE x \in PendingRecs' <=> x \in PendingRecs \ B
    <3>1. x \in PendingRecs' <=> \E q \in Addrs : \E s \in segs'[q] : x = s.rec
      BY PendingNext DEF RecordInv
    <3>2. x \in PendingRecs <=> \E q \in Addrs : \E s \in segs[q] : x = s.rec
      BY PendingIn DEF RecordInv
    <3>3. QED
      BY <1>1, <1>4, <3>1, <3>2
  <2>2. ASSUME NEW x \in B PROVE x \in PendingRecs
    BY <1>2, <2>2, PendingIn DEF RecordInv
  <2>3. QED
    BY <2>1, <2>2
<1>6. ExposedRecs' = ExposedRecs \ B
  <2>1. ASSUME NEW x PROVE x \in ExposedRecs' <=> x \in ExposedRecs \ B
    <3>1. x \in ExposedRecs' <=> \E q \in torn : \E s \in segs'[q] : x = s.rec
      BY <1>1, PendingNext DEF RecordInv
    <3>2. x \in ExposedRecs <=> \E q \in torn : \E s \in segs[q] : x = s.rec
      BY PendingIn DEF RecordInv
    <3>3. QED
      BY <1>1, <1>4, <1>t, <3>1, <3>2
  <2>2. QED
    BY <2>1
<1>7. \A x \in ExposedRecs : x \in B => p \in torn
  <2>1. ASSUME NEW x \in ExposedRecs, x \in B PROVE p \in torn
    <3>1. PICK q \in torn : \E s \in segs[q] : x = s.rec
      BY <2>1, PendingIn DEF RecordInv
    <3>2. QED
      BY <1>4, <1>t, <2>1, <3>1
  <2>2. QED
    BY <2>1
<1>8. p \in torn => B \subseteq ExposedRecs
  BY <1>2, PendingIn DEF RecordInv
<1>9. WrittenRecs' = Append(WrittenRecs, S)
  BY <1>1, <1>s, AppendWritten
<1>10. CASE p \notin torn
  <2>1. S # {}
    <3>1. /\ Full(segs[p], th[a].idx) /\ th[a].idx \in Nat
          /\ th[a].idx >= PrefixLen /\ th[a].idx # PrefixLen
      BY <1>0, <1>10, WriteStep DEF RecordInv, IdxRead
    <3>2. PrefixLen \in PrefixLen .. (th[a].idx - 1)
      BY <3>1, BblogAssumption
    <3>3. PICK s \in segs[p] : TRUE
      BY <3>1, <3>2 DEF Full
    <3>4. QED
      BY <1>2, <1>3, <1>10, <3>3
  <2>2. S = B /\ S \subseteq PendingRecs \ ExposedRecs /\ ExposedRecs' = ExposedRecs
    BY <1>3, <1>5, <1>6, <1>7, <1>10
  <2>3. R!Emit(S)
    BY <1>5, <1>9, <2>1, <2>2 DEF R!Emit
  <2>4. QED
    BY <2>2, <2>3 DEF R!RNext
<1>11. CASE p \in torn
  <2>1. PICK L : L = B \ S
    OBVIOUS
  <2>2. S \cap L = {} /\ S \cup L = B
    BY <1>3, <2>1
  <2>3. R!EmitExposed(S, L)
    BY <1>5, <1>6, <1>9, <2>2 DEF R!EmitExposed
  <2>4. S \in SUBSET ExposedRecs /\ L \in SUBSET ExposedRecs
    BY <1>8, <1>11, <2>2
  <2>5. QED
    BY <2>3, <2>4 DEF R!RNext
<1>12. QED
  BY <1>10, <1>11

(* Every step is a step of RecordLog, or leaves the records alone. *)
LEMMA RefineNext ==
  ASSUME TypeOK, TypeOK', RecordInv, RecordInv', LogInv, [Next]_vars
  PROVE  [R!RNext]_R!rvars
<1>1. RolesOK /\ NewEmpty /\ NewEmpty'
  BY DEF RecordInv
<1>2. CASE Quiet
  BY <1>1, <1>2, QuietRefines DEF Quiet, Still
<1>3. ASSUME NEW t \in Actors, NEW s \in Sizes, bblog(t, s) PROVE UNCHANGED R!rvars
  <2>1. segs' = segs /\ log' = log /\ torn' = torn
    BY <1>3 DEF bblog, buffers, history
  <2>2. QED
    BY <1>1, <2>1, QuietRefines
<1>4. QED
  BY <1>1, <1>2, <1>3, StepKinds, AddExposes, CopyAccepts, WriteEmits

(* bblog.c keeps what RecordLog promises, however many threads append: no  *)
(* step loses a record that was copied in, other than by writing it,       *)
(* unless the record lies in a buffer in which a reservation succeeded     *)
(* above one that had failed and was not given back; and none writes a     *)
(* record twice.                                                           *)
THEOREM BblogRefinesRecordLog == Spec => ImplementsRecordLog
<1>1. Init => R!RInit
  <2> SUFFICES ASSUME Init PROVE R!RInit
    OBVIOUS
  <2>1. log = <<>> /\ torn = {} /\ \A p \in Addrs : segs[p] = {}
    BY DEF Init
  <2>2. alive \subseteq Addrs
    BY DEF Init
  <2>3. PendingRecs = {}
    BY <2>1, <2>2 DEF PendingRecs, Recs
  <2>4. ExposedRecs = {}
    BY <2>1 DEF ExposedRecs
  <2>5. WrittenRecs = <<>>
    BY <2>1 DEF WrittenRecs
  <2>6. QED
    BY <2>3, <2>4, <2>5 DEF R!RInit
<1>2. TypeOK /\ TypeOK' /\ RecordInv /\ RecordInv' /\ LogInv /\ [Next]_vars
      => [R!RNext]_R!rvars
  BY RefineNext
<1>3. QED
  BY <1>1, <1>2, TypeCorrect, RecordInvariant, LogInvariant, PTL
     DEF Spec, ImplementsRecordLog, R!RSpec

-----------------------------------------------------------------------------
(* Whose records a process writes.                                         *)

(* In a process that has no prefix of its own yet, memalign() does not     *)
(* fail and the prefix fits: a step of swap_buffers() leaves procid as it  *)
(* is only where it names this process.                                    *)
PrefixMade == \A a \in Actors : AllocFail(a) \/ InitBuffer(a) => procid' = pid

(* Actor a is going to write the buffer of this process, unless exit has   *)
(* zeroed its word.                                                        *)
Reads(a) == pc[a] \in {"fpid", "fidx", "fcas"} /\ Sound(a) /\ header[th[a].cur].ptr # NULL
FlushesOwn(a) ==
  /\ pc[a] = "cas" \/ Reads(a) => procid = pid
  /\ Reads(a) /\ pc[a] # "fpid" => th[a].owner = pid
  /\ pc[a] = "write" /\ Sound(a) => th[a].owner = pid

OwnInv == \A a \in Actors : FlushesOwn(a)

(* A step of actor a that keeps the words of the buffers that others       *)
(* flush.                                                                  *)
LEMMA FlushesFrame ==
  ASSUME TypeOK, OwnInv, NEW a \in Actors, pid' = pid, procid' \in {procid, pid},
         \A b \in Actors : b # a =>
           /\ pc'[b] = pc[b] /\ th'[b].cur = th[b].cur /\ th'[b].owner = th[b].owner
           /\ Sound(b)' => Sound(b)
           /\ pc[b] \in Flushing /\ Sound(b)' =>
                header'[th[b].cur].ptr \in {NULL, header[th[b].cur].ptr},
         FlushesOwn(a)'
  PROVE  \A b \in Actors : FlushesOwn(b)'
<1>1. ASSUME NEW b \in Actors, b # a PROVE FlushesOwn(b)'
  <2>1. FlushesOwn(b)
    BY DEF OwnInv
  <2>2. Reads(b)' => Reads(b)
    BY <1>1 DEF Reads, Flushing
  <2>3. QED
    BY <1>1, <2>1, <2>2 DEF FlushesOwn
<1>2. QED
  BY <1>1

(* So is a step of a that leaves the buffers alone, and after which a is   *)
(* not flushing.                                                           *)
LEMMA FlushesLocal ==
  ASSUME TypeOK, OwnInv, NEW a \in Actors, UNCHANGED <<pid, procid, header>>,
         \A b \in Actors : b # a => pc'[b] = pc[b] /\ th'[b] = th[b],
         FlushesOwn(a)' \/ pc'[a] \notin Flushing \cup {"cas"}
  PROVE  \A b \in Actors : FlushesOwn(b)'
<1>1. FlushesOwn(a)'
  BY DEF FlushesOwn, Reads, Flushing
<1>2. \A b \in Actors : b # a => (Sound(b)' => Sound(b))
  BY DEF Sound
<1>3. QED
  BY <1>1, <1>2, FlushesFrame

(* swap_buffers() and flush_buffer() keep to the buffers of this process.  *)
LEMMA FlushesSwap ==
  ASSUME TypeOK, FlushInv, RolesOK, OwnInv, PrefixMade, NEW a \in Actors, SwapAndFlush(a)
  PROVE  \A b \in Actors : FlushesOwn(b)'
<1> USE DEF Goto, Return, buffers, process
<1>o. FlushesOwn(a)
  BY DEF OwnInv
<1>l. \A b \in Actors : th[b] \in Locals
  BY DEF TypeOK
<1>r. ReturnPc(a) \notin Flushing \cup {"cas"}
  BY ReturnRole DEF Flushing
<1>n. \A b \in Actors : Sound(b) => th[b].cur \in Addrs
  BY <1>l DEF Sound, Locals
<1>1. CASE SwapCheck(a)
  <2>1. /\ UNCHANGED <<pid, procid, header>> /\ pc'[a] \notin Flushing \cup {"cas"}
        /\ \A b \in Actors : b # a => pc'[b] = pc[b] /\ th'[b] = th[b]
    BY <1>1, <1>r DEF SwapCheck, TypeOK, Flushing
  <2>2. QED
    BY <2>1, FlushesLocal
<1>2. CASE Alloc(a)
  <2>1. /\ UNCHANGED <<pid, procid, header>> /\ pc'[a] \notin Flushing \cup {"cas"}
        /\ \A b \in Actors : b # a => pc'[b] = pc[b] /\ th'[b] = th[b]
    BY <1>2 DEF Alloc, TypeOK, Flushing
  <2>2. QED
    BY <2>1, FlushesLocal
<1>3. CASE AllocFail(a)
  <2>1. /\ UNCHANGED <<pid, procid, header>>
        /\ \A b \in Actors : b # a => pc'[b] = pc[b] /\ th'[b] = th[b]
        /\ pc'[a] = "fpid" \/ pc'[a] \notin Flushing \cup {"cas"}
    BY <1>3, <1>r DEF AllocFail, TypeOK
  <2>2. procid' = pid'
    BY <1>3, <2>1 DEF PrefixMade
  <2>3. pc'[a] = "fpid" => FlushesOwn(a)'
    BY <2>2 DEF FlushesOwn
  <2>4. QED
    BY <2>1, <2>3, FlushesLocal
<1>4. CASE InitBuffer(a)
  <2>1. /\ pid' = pid /\ procid' = pid /\ th' = th
        /\ pc[a] = "init" /\ pc'[a] = "cas" /\ \A b \in Actors : b # a => pc'[b] = pc[b]
    BY <1>4 DEF InitBuffer, PrefixMade, TypeOK
  <2>2. \A p \in Addrs : p # th[a].new => header'[p] = header[p]
    BY <1>4 DEF InitBuffer, TypeOK
  <2>3. \A b \in Actors : Sound(b) => th[b].cur # th[a].new
    BY <2>1 DEF FlushInv, NewPrivate, Making
  <2>4. \A b \in Actors : Sound(b)' = Sound(b)
    BY <2>1 DEF Sound
  <2>5. FlushesOwn(a)'
    BY <2>1 DEF FlushesOwn, Reads
  <2>6. QED
    BY <1>n, <2>1, <2>2, <2>3, <2>4, <2>5, FlushesFrame
<1>5. CASE SwapCas(a)
  <2>1. /\ UNCHANGED <<pid, procid, header>> /\ pc[a] = "cas"
        /\ \A b \in Actors : b # a => pc'[b] = pc[b]
        /\ pc'[a] = "fpid" \/ pc'[a] \notin Flushing \cup {"cas"}
    BY <1>5, <1>r DEF SwapCas, TypeOK
  <2>2. FlushesOwn(a)'
    <3>1. procid' = pid'
      BY <1>o, <2>1 DEF FlushesOwn
    <3>2. CASE pc'[a] = "fpid"
      BY <3>1, <3>2 DEF FlushesOwn
    <3>3. CASE pc'[a] \notin Flushing \cup {"cas"}
      BY <3>3 DEF FlushesOwn, Reads, Flushing
    <3>4. QED
      BY <2>1, <3>2, <3>3
  <2>3. CASE procPibr = th[a].cur
    <3>1. \A b \in Actors : b # a => th'[b] = th[b]
      BY <1>5, <2>3 DEF SwapCas, TypeOK
    <3>2. QED
      BY <2>1, <2>2, <3>1, FlushesLocal
  <2>4. CASE procPibr # th[a].cur
    <3>1. th' = Freed(th[a].new, a)
      BY <1>5, <2>4 DEF SwapCas
    <3>2. \A b \in Actors : b # a => th'[b].cur = th[b].cur /\ (Sound(b)' => Sound(b))
      BY <3>1, FreedFacts
    <3>3. \A b \in Actors : b # a => th'[b].owner = th[b].owner
      BY <1>l, <3>1 DEF Freed, Locals
    <3>4. QED
      BY <2>1, <2>2, <3>2, <3>3, FlushesFrame
  <2>5. QED
    BY <2>3, <2>4
<1>6. CASE FlushReadPid(a)
  <2>1. /\ UNCHANGED <<pid, procid, header>> /\ pc[a] = "fpid" /\ Sound(a)
        /\ \A b \in Actors : b # a => pc'[b] = pc[b] /\ th'[b] = th[b]
    BY <1>6 DEF FlushReadPid, TypeOK
  <2>2. CASE header[th[a].cur].pid = procid
    <3>1. /\ pc'[a] = "fidx" /\ th'[a].cur = th[a].cur
          /\ th'[a].owner = procid
      BY <1>6, <1>l, <2>2, SMTT(60) DEF FlushReadPid, TypeOK, Locals
    <3>2. Reads(a)' => procid = pid
      BY <1>o, <2>1, <3>1 DEF FlushesOwn, Reads
    <3>3. FlushesOwn(a)'
      BY <2>1, <3>1, <3>2 DEF FlushesOwn
    <3>4. QED
      BY <2>1, <3>3, FlushesLocal
  <2>3. CASE header[th[a].cur].pid # procid
    <3>1. pc'[a] = ReturnPc(a)
      BY <1>6, <2>3 DEF FlushReadPid, TypeOK
    <3>2. QED
      BY <1>r, <2>1, <3>1, FlushesLocal
  <2>4. QED
    BY <2>2, <2>3
<1>7. CASE FlushReadIdx(a)
  <2>1. /\ UNCHANGED <<pid, procid, header>> /\ pc[a] = "fidx" /\ Sound(a)
        /\ \A b \in Actors : b # a => pc'[b] = pc[b] /\ th'[b] = th[b]
    BY <1>7 DEF FlushReadIdx, TypeOK
  <2>2. CASE header[th[a].cur].idx # PrefixLen
    <3>1. pc'[a] = "fcas" /\ th'[a].cur = th[a].cur /\ th'[a].owner = th[a].owner
      BY ZenonT(60), <1>7, <1>l, <2>2 DEF FlushReadIdx, TypeOK, Locals
    <3>2. FlushesOwn(a)'
      BY <1>o, <2>1, <3>1 DEF FlushesOwn, Reads
    <3>3. QED
      BY <2>1, <3>2, FlushesLocal
  <2>3. CASE header[th[a].cur].idx = PrefixLen
    <3>1. pc'[a] = ReturnPc(a)
      BY <1>7, <2>3 DEF FlushReadIdx, TypeOK
    <3>2. QED
      BY <1>r, <2>1, <3>1, FlushesLocal
  <2>4. QED
    BY <2>2, <2>3
<1>8. CASE FlushCas(a)
  <2>0. PICK p \in Addrs : p = th[a].cur
    BY <1>n, <1>8 DEF FlushCas
  <2>1. /\ UNCHANGED <<pid, procid, th>> /\ pc[a] = "fcas" /\ Sound(a)
        /\ header' = [header EXCEPT ![p] = Zero] /\ pc'[a] = "write"
        /\ \A b \in Actors : b # a => pc'[b] = pc[b]
    BY <1>8, <2>0 DEF FlushCas, TypeOK
  <2>2. header[p].ptr = p /\ header[p].ref = 0 /\ header[p].pid = th[a].owner
    BY <1>8, <2>0 DEF FlushCas, Unreferenced, pack_buffer
  <2>3. GoodPtr(header[p]) /\ Reads(a)
    BY <2>0, <2>1, <2>2 DEF GoodPtr, Reads, Sound
  <2>4. th[a].owner = pid
    BY <1>o, <2>1, <2>3 DEF FlushesOwn
  <2>5. FlushesOwn(a)'
    BY <2>0, <2>1, <2>4 DEF FlushesOwn, Reads
  <2>6. \A q \in Addrs : header'[q].ptr \in {NULL, header[q].ptr}
    BY <2>1 DEF Zero, TypeOK
  <2>7. \A b \in Actors : Sound(b)' = Sound(b)
    BY <2>1 DEF Sound
  <2>8. QED
    BY <1>n, <2>1, <2>5, <2>6, <2>7, FlushesFrame
<1>9. CASE Spin(a)
  <2>1. UNCHANGED <<pid, procid, header, pc, th>>
    BY <1>9 DEF Spin, vars
  <2>2. FlushesOwn(a)'
    BY <1>o, <2>1 DEF FlushesOwn, Reads, Sound
  <2>3. QED
    BY <2>1, <2>2, FlushesLocal
<1>10. CASE FlushWrite(a)
  <2>0. PICK p \in Addrs : p = th[a].cur
    BY <1>n, <1>10 DEF FlushWrite
  <2>1. /\ UNCHANGED <<pid, procid, header>> /\ th' = Freed(p, a) /\ pc'[a] = ReturnPc(a)
        /\ \A b \in Actors : b # a => pc'[b] = pc[b]
    BY <1>10, <2>0 DEF FlushWrite, TypeOK
  <2>2. \A b \in Actors : b # a =>
          th'[b].cur = th[b].cur /\ (Sound(b)' => Sound(b) /\ th[b].cur # p)
    BY <2>1, FreedFacts
  <2>3. \A b \in Actors : b # a => th'[b].owner = th[b].owner
    BY <1>l, <2>1 DEF Freed, Locals
  <2>4. FlushesOwn(a)'
    BY <1>r, <2>1 DEF FlushesOwn, Reads, Flushing
  <2>5. QED
    BY <1>n, <2>1, <2>2, <2>3, <2>4, FlushesFrame
<1>11. QED
  BY <1>1, <1>2, <1>3, <1>4, <1>5, <1>6, <1>7, <1>8, <1>9, <1>10 DEF SwapAndFlush

(* So do appending, the flusher, exit, signals and the calls.              *)
LEMMA FlushesOther ==
  ASSUME TypeOK, FlushInv, RolesOK, OwnInv, NEW a \in Actors,
         \/ Blog(a) \/ FlusherThread(a) \/ Exit(a) \/ BadAccess(a) \/ Call(a)
         \/ \E v \in Threads \cup {Flusher} : a = Handler /\ Signal(v)
  PROVE  \A b \in Actors : FlushesOwn(b)'
<1> USE DEF Goto, buffers, process
<1>l. \A b \in Actors : th[b] \in Locals
  BY DEF TypeOK
<1>n. \A b \in Actors : Sound(b) => th[b].cur \in Addrs
  BY <1>l DEF Sound, Locals
<1>1. ASSUME UNCHANGED <<pid, procid, header, pc, th>>
      PROVE  \A b \in Actors : FlushesOwn(b)'
  <2>1. FlushesOwn(a)'
    BY <1>1 DEF OwnInv, FlushesOwn, Reads, Sound
  <2>2. QED
    BY <1>1, <2>1, FlushesLocal
<1>2. CASE LoadProcPibr(a) \/ FlPeekPtr(a) \/ FlPeek(a) \/ FlReload(a)
  <2>1. /\ UNCHANGED <<pid, procid, header>> /\ pc'[a] \notin Flushing \cup {"cas"}
        /\ \A b \in Actors : b # a => pc'[b] = pc[b] /\ th'[b] = th[b]
    BY <1>2 DEF LoadProcPibr, FlPeekPtr, FlPeek, FlReload, Load, TypeOK, Flushing
  <2>2. QED
    BY <2>1, FlushesLocal
<1>3. CASE FlWake(a) \/ BblogInit(a) \/ Spawn(a) \/ ExitBegin(a)
  <2>1. /\ UNCHANGED <<pid, procid, header>> /\ pc'[a] \notin Flushing \cup {"cas"}
        /\ \A b \in Actors : b # a => pc'[b] = pc[b] /\ th'[b] = th[b]
    BY <1>3 DEF FlWake, BblogInit, Spawn, ExitBegin, TypeOK, Flushing
  <2>2. QED
    BY <2>1, FlushesLocal
<1>4. CASE FetchAndAddFault(a) \/ BadAccess(a) \/ ProcessExit(a)
  BY <1>1, <1>4 DEF FetchAndAddFault, BadAccess, ProcessExit
<1>5. CASE FetchAndAdd(a) \/ Unref(a) \/ Undo(a)
  <2>0. PICK p \in Addrs : p = th[a].cur
    BY <1>n, <1>5 DEF FetchAndAdd, Unref, Undo
  <2>1. /\ UNCHANGED <<pid, procid>> /\ pc'[a] \notin Flushing \cup {"cas"}
        /\ \A b \in Actors : b # a => pc'[b] = pc[b] /\ th'[b] = th[b]
        /\ \A q \in Addrs : q # p => header'[q] = header[q]
    BY <1>5, <2>0 DEF FetchAndAdd, Unref, Undo, TypeOK, Flushing
  <2>2. header'[p].ptr = header[p].ptr
    BY <1>5, <2>0 DEF FetchAndAdd, Unref, Undo, add, TypeOK
  <2>3. \A b \in Actors : b # a => (Sound(b)' => Sound(b))
    BY <2>1 DEF Sound
  <2>4. FlushesOwn(a)'
    BY <2>1 DEF FlushesOwn, Reads, Flushing
  <2>5. QED
    BY <1>n, <2>1, <2>2, <2>3, <2>4, FlushesFrame
<1>6. CASE Memcpy(a)
  <2>0. PICK p \in Addrs : p = th[a].cur
    BY <1>n, <1>6 DEF Memcpy
  <2>1. /\ UNCHANGED <<pid, procid, header, th>> /\ pc[a] = "copy" /\ Sound(a) /\ pc'[a] = "unref"
        /\ \A b \in Actors : b # a => pc'[b] = pc[b]
    BY <1>6, <2>0 DEF Memcpy, TypeOK
  <2>2. \A b \in Actors : Sound(b)' = Sound(b)
    BY <2>1 DEF Sound
  <2>3. FlushesOwn(a)'
    BY <2>1 DEF FlushesOwn, Reads
  <2>4. QED
    BY <1>n, <2>1, <2>2, <2>3, FlushesFrame
<1>7. CASE ExitJoin(a)
  <2>1. CASE Load(a) /\ pc' = [pc EXCEPT ![a] = "zero"]
    <3>1. /\ UNCHANGED <<pid, procid, header>> /\ pc'[a] \notin Flushing \cup {"cas"}
          /\ \A b \in Actors : b # a => pc'[b] = pc[b] /\ th'[b] = th[b]
      BY <1>7, <2>1 DEF ExitJoin, Load, TypeOK, Flushing
    <3>2. QED
      BY <3>1, FlushesLocal
  <2>2. CASE UNCHANGED <<pc, th>>
    BY <1>1, <1>7, <2>2 DEF ExitJoin
  <2>3. QED
    BY <1>7, <2>1, <2>2 DEF ExitJoin
<1>8. CASE ExitZero(a)
  <2>0. PICK p \in Addrs : p = th[a].cur
    BY <1>n, <1>8 DEF ExitZero
  <2>1. /\ UNCHANGED <<pid, procid>> /\ header' = [header EXCEPT ![p] = Zero]
        /\ \A b \in Actors : b # a => pc'[b] = pc[b] /\ th'[b] = th[b]
        /\ \/ pc'[a] = "fpid" /\ th'[a] = th[a]
           \/ pc'[a] \in {"zero", "done"}
    BY <1>8, <2>0 DEF ExitZero, TypeOK
  <2>2. header'[p].ptr = NULL /\ \A q \in Addrs : header'[q].ptr \in {NULL, header[q].ptr}
    BY <2>1 DEF Zero, TypeOK
  <2>3. \A b \in Actors : b # a => (Sound(b)' => Sound(b))
    BY <2>1 DEF Sound
  <2>4. FlushesOwn(a)'
    BY <2>0, <2>1, <2>2 DEF FlushesOwn, Reads
  <2>5. QED
    BY <1>n, <2>1, <2>2, <2>3, <2>4, FlushesFrame
<1>9. CASE Fork(a)
  <2>1. \A b \in Actors : pc'[b] \notin Flushing \cup {"cas"}
    BY <1>9 DEF Fork, Flushing
  <2>2. QED
    BY <2>1 DEF FlushesOwn, Reads, Flushing
<1>10. ASSUME NEW s \in Sizes, bblog(a, s) PROVE \A b \in Actors : FlushesOwn(b)'
  <2>1. /\ UNCHANGED <<pid, procid, header>> /\ pc'[a] \notin Flushing \cup {"cas"}
        /\ \A b \in Actors : b # a => pc'[b] = pc[b] /\ th'[b] = th[b]
    BY <1>10 DEF bblog, TypeOK, Flushing
  <2>2. QED
    BY <2>1, FlushesLocal
<1>11. ASSUME NEW v \in Threads \cup {Flusher}, a = Handler, Signal(v)
       PROVE  \A b \in Actors : FlushesOwn(b)'
  <2>1. /\ UNCHANGED <<pid, procid, header>> /\ pc'[a] \notin Flushing \cup {"cas"}
        /\ \A b \in Actors : b # a => pc'[b] = pc[b] /\ th'[b] = th[b]
    BY <1>11 DEF Signal, Load, TypeOK, Flushing
  <2>2. QED
    BY <2>1, FlushesLocal
<1>12. QED
  BY <1>2, <1>3, <1>4, <1>5, <1>6, <1>7, <1>8, <1>9, <1>10, <1>11
     DEF Blog, FlusherThread, Exit, Call

(* Every step keeps the invariant. *)
LEMMA OwnNext ==
  ASSUME TypeOK, FlushInv, RolesOK, OwnInv, [Next]_vars, [PrefixMade]_vars
  PROVE  OwnInv'
<1>1. ASSUME UNCHANGED <<pid, procid, header, pc, th>> PROVE OwnInv'
  BY <1>1 DEF OwnInv, FlushesOwn, Reads, Sound
<1>2. ASSUME UNCHANGED vars PROVE OwnInv'
  BY <1>1, <1>2 DEF vars
<1>3. CASE PrefixMade
  <2>1. ASSUME NEW a \in Actors, Step(a) \/ Call(a) PROVE OwnInv'
    BY <1>3, <2>1, FlushesSwap, FlushesOther DEF Step, OwnInv
  <2>2. ASSUME NEW v \in Threads \cup {Flusher}, Signal(v) PROVE OwnInv'
    <3>1. Handler \in Actors
      BY DEF Actors
    <3>2. QED
      BY <2>2, <3>1, FlushesOther DEF OwnInv
  <2>3. ASSUME Tick \/ Rest PROVE OwnInv'
    BY <1>1, <2>3 DEF Tick, Rest, vars, buffers, process
  <2>4. QED
    BY <1>2, <2>1, <2>2, <2>3 DEF Next
<1>4. QED
  BY <1>2, <1>3

(* The prefix of a message names the process that writes it, and unless    *)
(* the buffer was torn it holds only records of that process: any number   *)
(* of threads, records, signals and forks in a chain, exit in the middle.  *)
(* The buffer a child inherits is not flushed by it, as long as the child  *)
(* could allocate a buffer and make a prefix of its own (PrefixMade).      *)
THEOREM ChildrenWriteTheirOwn == Spec /\ [][PrefixMade]_vars => []OwnRecords
<1>1. Init => OwnInv
  <2> SUFFICES ASSUME Init PROVE OwnInv
    OBVIOUS
  <2>1. \A a \in Actors : pc[a] \in {"sleep", "off", "none", "idle"}
    BY DEF Init
  <2>2. QED
    BY <2>1 DEF OwnInv, FlushesOwn, Reads
<1>2. TypeOK /\ FlushInv /\ RecordInv /\ OwnInv /\ [Next]_vars /\ [PrefixMade]_vars => OwnInv'
  BY OwnNext DEF RecordInv
<1>3. Init => OwnRecords
  BY DEF Init, OwnRecords
<1>4. TypeOK /\ RecordInv /\ OwnInv /\ OwnRecords /\ [Next]_vars => OwnRecords'
  <2> SUFFICES ASSUME TypeOK, RecordInv, OwnInv, OwnRecords, [Next]_vars PROVE OwnRecords'
    OBVIOUS
  <2>1. CASE log' = log
    BY <2>1 DEF OwnRecords
  <2>2. ASSUME NEW a \in Actors, FlushWrite(a) PROVE OwnRecords'
    <3>p. PICK p : p = th[a].cur
      OBVIOUS
    <3>0. /\ pc[a] = "write" /\ Sound(a)
          /\ p \notin torn => Laid(segs[p], th[a].owner, th[a].idx)
      BY <2>2, <3>p, WriteStep
    <3>S. PICK S \in SUBSET segs[p] :
            log' = Append(log, [pid |-> th[a].owner, by |-> pid, end |-> th[a].idx,
                                torn |-> p \in torn, segs |-> S])
      BY <2>2, <3>p, WriteStep
    <3>m. PICK m : m = [pid |-> th[a].owner, by |-> pid, end |-> th[a].idx,
                        torn |-> p \in torn, segs |-> S]
      OBVIOUS
    <3>1. /\ log' = Append(log, m) /\ m.pid = th[a].owner /\ m.by = pid /\ m.segs = S
          /\ (m.torn <=> p \in torn)
      BY <3>S, <3>m
    <3>2. th[a].owner = pid
      BY <3>0 DEF OwnInv, FlushesOwn
    <3>3. m.pid = m.by /\ (~m.torn => \A s \in m.segs : s.by = m.pid)
      BY <3>0, <3>1, <3>2 DEF Laid
    <3>4. log \in Seq(Messages)
      BY DEF TypeOK
    <3>5. /\ Len(log) \in Nat /\ Len(log') = Len(log) + 1 /\ log'[Len(log) + 1] = m
          /\ \A i \in 1 .. Len(log) : log'[i] = log[i]
      BY <3>1, <3>4
    <3>6. ASSUME NEW i \in 1 .. Len(log')
          PROVE  /\ log'[i].pid = log'[i].by
                 /\ ~log'[i].torn => \A s \in log'[i].segs : s.by = log'[i].pid
      <4>1. CASE i \in 1 .. Len(log)
        BY <3>5, <4>1 DEF OwnRecords
      <4>2. CASE i = Len(log) + 1
        BY <3>3, <3>5, <4>2
      <4>3. QED
        BY <3>5, <4>1, <4>2
    <3>7. QED
      BY <3>6 DEF OwnRecords
  <2>3. QED
    BY <2>1, <2>2, LogStep
<1>5. QED
  BY <1>1, <1>2, <1>3, <1>4, TypeCorrect, FlushInvariant, RecordInvariant, PTL DEF Spec
=============================================================================
