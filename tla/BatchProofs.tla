---------------------------- MODULE BatchProofs ----------------------------
(***************************************************************************)
(* Proofs about Batch, for every block size, every length of the access    *)
(* string and any number of threads, hooks, descriptors and accesses.      *)
(***************************************************************************)
EXTENDS Batch, TLAPS

-----------------------------------------------------------------------------
(* batch.c on its own.                                                     *)

(* Block numbers are integers. *)
LEMMA BlockType ==
  ASSUME NEW x \in Accesses
  PROVE  curr_start(x) \in Int /\ curr_end(x) \in Int
BY BatchAssumption DEF curr_start, curr_end, Accesses

(* batch_read_write_first() always finds a case: its last line, return -1, *)
(* is never reached, so that no access is recorded by it and again by      *)
(* batch_read_write_second().                                              *)
THEOREM FirstHandles ==
  ASSUME NEW b \in Batches, NEW x \in Accesses
  PROVE  Handled(b, x)
<1>1. /\ curr_start(x) \in Int /\ curr_end(x) \in Int
      /\ b.off \in Int /\ Last(b) \in Int
  BY BlockType DEF Batches, Last
<1>2. QED
  BY <1>1 DEF Handled, Apart, Inside, Beyond, Around, Before

(* A batch of one access. *)
LEMMA RestartFacts ==
  ASSUME NEW b \in Batches, NEW fd \in Fds, NEW x \in Accesses
  PROVE  LET c == Restart(b, fd, x) IN
         /\ c \in Batches /\ c.fd = fd /\ c.path = b.path /\ c.accs = <<x>>
         /\ c.off = curr_start(x) /\ c.size = curr_end(x) - curr_start(x) + 1
         /\ Covers(c)
<1> DEFINE c == Restart(b, fd, x)
<1>0. curr_start(x) \in Int /\ curr_end(x) \in Int
  BY BlockType
<1>1. c = [fd |-> fd, off |-> curr_start(x), size |-> curr_end(x) - curr_start(x) + 1,
           accs |-> <<x>>, path |-> b.path]
  BY DEF Restart, Batches
<1>2. c \in Batches
  BY <1>0, <1>1 DEF Batches
<1>3. Covers(c)
  BY <1>0, <1>1 DEF Covers, Last
<1>4. QED
  BY <1>1, <1>2, <1>3

(* The first block of an access is not after its last. *)
LEMMA BlocksOrdered ==
  ASSUME NEW x \in Accesses
  PROVE  curr_start(x) <= curr_end(x)
<1>1. ASSUME NEW m \in Nat, NEW n \in Nat, m <= n, NEW k \in Nat, k > 0
      PROVE  m \div k <= n \div k
  <2>1. /\ m = k * (m \div k) + (m % k) /\ m % k \in 0 .. k - 1 /\ m \div k \in Int
        /\ n = k * (n \div k) + (n % k) /\ n % k \in 0 .. k - 1 /\ n \div k \in Int
    BY <1>1
  <2>2. ASSUME NEW i \in Int, NEW j \in Int, i >= j + 1 PROVE k * i >= k * j + k
    BY <1>1, <2>2
  <2>3. QED
    BY <1>1, <2>1, <2>2
<1>2. QED
  BY <1>1, BatchAssumption DEF curr_start, curr_end, Accesses

(* What batch_read_write_first() leaves behind: the extent covers the old  *)
(* accesses and the new one, or only the new one when it started over.     *)
LEMMA FirstFacts ==
  ASSUME NEW b \in Batches, NEW fd \in Fds, NEW x \in Accesses,
         b.fd = fd, b.size >= 1, Covers(b)
  PROVE  LET c == batch_read_write_first(b, fd, x) IN
         /\ c \in Batches /\ c.fd = fd /\ c.size >= 1 /\ Covers(c)
         /\ c.accs = IF Apart(b, x) \/ Full(b) THEN <<x>> ELSE Append(b.accs, x)
<1> DEFINE s == curr_start(x)
           e == curr_end(x)
<1>0. s \in Int /\ e \in Int /\ s <= e
  BY BlockType, BlocksOrdered
<1>a. b.accs \in Seq(Accesses) /\ b.fd \in Fds \cup {NoFd} /\ b.path \in Files \cup {NULL}
  BY DEF Batches
<1>b. b.off \in Int /\ b.size \in Int /\ b.size >= 1
      /\ Last(b) \in Int /\ Last(b) = b.off + b.size - 1
  BY DEF Batches, Last
<1>1. CASE Apart(b, x)
  <2>1. batch_read_write_first(b, fd, x) = Restart(b, fd, x)
    BY <1>1 DEF batch_read_write_first
  <2>2. QED
    BY <1>0, <1>1, <2>1, RestartFacts
<1>2. CASE ~Apart(b, x) /\ Full(b)
  <2>1. Recorded(b, fd, x) = Restart(b, fd, x)
    BY <1>2 DEF Recorded
  <2>2. PICK c : c = Restart(b, fd, x)
    OBVIOUS
  <2>3. /\ c \in Batches /\ c.fd = fd /\ c.accs = <<x>> /\ c.off = s /\ c.size = e - s + 1
        /\ c.path \in Files \cup {NULL}
    BY <2>2, RestartFacts DEF Batches
  <2>4. ASSUME NEW st \in Int, NEW sz \in Int, st <= s, e <= st + sz - 1, sz >= 1
        PROVE  LET d == Resized(c, st, sz) IN
               d \in Batches /\ d.fd = fd /\ d.size >= 1 /\ Covers(d) /\ d.accs = <<x>>
    BY <1>0, <2>3, <2>4 DEF Resized, Covers, Last, Batches
  <2>5. Covers(c) /\ c.size >= 1
    BY <1>0, <2>2, <2>3, RestartFacts
  <2>6. CASE Inside(b, x)
    BY <1>2, <2>1, <2>2, <2>3, <2>5, <2>6 DEF batch_read_write_first
  <2>7. CASE ~Inside(b, x) /\ Beyond(b, x)
    <3>1. batch_read_write_first(b, fd, x) = Resized(c, s, e - s + 1 + (e - Last(b)))
      BY <1>2, <2>1, <2>2, <2>3, <2>7 DEF batch_read_write_first
    <3>2. e - Last(b) >= 1 /\ Last(b) \in Int
      BY <1>0, <1>b, <2>7 DEF Beyond
    <3>3. PICK sz \in Int : sz = e - s + 1 + (e - Last(b)) /\ e <= s + sz - 1 /\ sz >= 1
      BY <1>0, <3>2
    <3>4. QED
      BY <1>0, <1>2, <2>4, <3>1, <3>3
  <2>8. CASE ~Inside(b, x) /\ ~Beyond(b, x) /\ Around(b, x)
    <3>1. batch_read_write_first(b, fd, x) = Resized(c, s, e - s + 1)
      BY <1>2, <2>1, <2>2, <2>8 DEF batch_read_write_first
    <3>2. PICK sz \in Int : sz = e - s + 1 /\ e <= s + sz - 1 /\ sz >= 1
      BY <1>0
    <3>3. QED
      BY <1>0, <1>2, <2>4, <3>1, <3>2
  <2>9. CASE ~Inside(b, x) /\ ~Beyond(b, x) /\ ~Around(b, x)
    <3>1. Before(b, x)
      BY <1>2, <2>9, FirstHandles DEF Handled
    <3>2. batch_read_write_first(b, fd, x) = Resized(c, s, e - s + 1 + (b.off - s))
      BY <1>2, <2>1, <2>2, <2>3, <2>9, <3>1 DEF batch_read_write_first
    <3>3. b.off - s >= 1
      BY <1>0, <1>b, <3>1 DEF Before
    <3>4. PICK sz \in Int : sz = e - s + 1 + (b.off - s) /\ e <= s + sz - 1 /\ sz >= 1
      BY <1>0, <1>b, <3>3
    <3>5. QED
      BY <1>0, <1>2, <2>4, <3>2, <3>4
  <2>10. QED
    BY <2>6, <2>7, <2>8, <2>9
<1>3. CASE ~Apart(b, x) /\ ~Full(b)
  <2> DEFINE Good(d) == /\ d \in Batches /\ d.fd = fd /\ d.size >= 1 /\ Covers(d)
                        /\ d.accs = Append(b.accs, x)
  <2>1. PICK c : c = Recorded(b, fd, x)
    OBVIOUS
  <2>2. /\ c \in Batches /\ c.fd = fd /\ c.accs = Append(b.accs, x) /\ c.off = b.off
        /\ c.size = b.size /\ c.path \in Files \cup {NULL}
    BY <1>a, <1>b, <1>3, <2>1 DEF Recorded, Batches
  <2>3. ASSUME NEW st \in Int, NEW sz \in Int, st <= s, e <= st + sz - 1, sz >= 1,
               st <= b.off, Last(b) <= st + sz - 1
        PROVE  Good(Resized(c, st, sz))
    <3> DEFINE d == Resized(c, st, sz)
    <3>1. /\ d \in Batches /\ d.fd = fd /\ d.accs = Append(b.accs, x)
          /\ d.off = st /\ d.size = sz
      BY <2>2 DEF Resized, Batches
    <3>2. ASSUME NEW i \in 1 .. Len(d.accs)
          PROVE  st <= curr_start(d.accs[i]) /\ curr_end(d.accs[i]) <= st + sz - 1
      <4>1. CASE i = Len(b.accs) + 1
        <5>1. d.accs[i] = x
          BY <1>a, <3>1, <4>1
        <5>2. QED
          BY <1>0, <2>3, <5>1
      <4>2. CASE i \in 1 .. Len(b.accs)
        <5>1. d.accs[i] = b.accs[i] /\ b.accs[i] \in Accesses
          BY <1>a, <3>1, <4>2
        <5>2. b.off <= curr_start(b.accs[i]) /\ curr_end(b.accs[i]) <= Last(b)
          BY <4>2 DEF Covers
        <5>3. curr_start(b.accs[i]) \in Int /\ curr_end(b.accs[i]) \in Int
          BY <5>1, BlockType
        <5>4. QED
          BY <1>b, <2>3, <5>1, <5>2, <5>3
      <4>3. QED
        BY <1>a, <3>1, <3>2, <4>1, <4>2
    <3>3. Covers(d)
      BY <3>1, <3>2 DEF Covers, Last
    <3>4. QED
      BY <2>3, <3>1, <3>3
  <2> HIDE DEF Good
  <2>4. ASSUME Inside(b, x) PROVE Good(batch_read_write_first(b, fd, x))
    <3>1. batch_read_write_first(b, fd, x) = Resized(c, b.off, b.size)
      BY <1>3, <2>1, <2>2, <2>4 DEF batch_read_write_first, Resized, Batches
    <3>2. b.off <= s /\ e <= b.off + b.size - 1
      BY <1>b, <2>4 DEF Inside
    <3>3. Last(b) <= b.off + b.size - 1
      BY <1>b
    <3>4. QED
      BY <1>b, <2>3, <3>1, <3>2, <3>3
  <2>5. ASSUME ~Inside(b, x) /\ Beyond(b, x)
        PROVE  Good(batch_read_write_first(b, fd, x))
    <3>1. batch_read_write_first(b, fd, x) = Resized(c, b.off, b.size + (e - Last(b)))
      BY <1>3, <2>1, <2>2, <2>5 DEF batch_read_write_first
    <3>2. b.off <= s /\ e >= Last(b) + 1
      BY <2>5 DEF Beyond
    <3>3. PICK sz \in Int : /\ sz = b.size + (e - Last(b)) /\ sz >= 1
                            /\ e <= b.off + sz - 1 /\ Last(b) <= b.off + sz - 1
      BY <1>0, <1>b, <3>2
    <3>4. QED
      BY <1>b, <2>3, <3>1, <3>2, <3>3
  <2>6. ASSUME ~Inside(b, x) /\ ~Beyond(b, x) /\ Around(b, x)
        PROVE  Good(batch_read_write_first(b, fd, x))
    <3>1. batch_read_write_first(b, fd, x) = Resized(c, s, e - s + 1)
      BY <1>3, <2>1, <2>6 DEF batch_read_write_first
    <3>2. s <= b.off /\ e >= Last(b)
      BY <2>6 DEF Around
    <3>3. PICK sz \in Int : /\ sz = e - s + 1 /\ sz >= 1
                            /\ e <= s + sz - 1 /\ Last(b) <= s + sz - 1
      BY <1>0, <1>b, <3>2
    <3>4. QED
      BY <1>0, <2>3, <3>1, <3>2, <3>3
  <2>7. ASSUME ~Inside(b, x) /\ ~Beyond(b, x) /\ ~Around(b, x)
        PROVE  Good(batch_read_write_first(b, fd, x))
    <3>1. Before(b, x)
      BY <1>3, <2>7, FirstHandles DEF Handled
    <3>2. batch_read_write_first(b, fd, x) = Resized(c, s, b.size + (b.off - s))
      BY <1>3, <2>1, <2>2, <2>7, <3>1 DEF batch_read_write_first
    <3>3. s < b.off /\ e <= Last(b)
      BY <3>1 DEF Before
    <3>4. PICK sz \in Int : /\ sz = b.size + (b.off - s) /\ sz >= 1 /\ s <= b.off
                            /\ e <= s + sz - 1 /\ Last(b) <= s + sz - 1
      BY <1>0, <1>b, <3>3
    <3>5. QED
      BY <1>0, <2>3, <3>2, <3>4
  <2>8. QED
    BY <1>3, <2>4, <2>5, <2>6, <2>7 DEF Good
<1>4. QED
  BY <1>1, <1>2, <1>3

-----------------------------------------------------------------------------
(* Records, batches and the order of accesses.                             *)

(* A batch of one access. *)
LEMMA ConsecutiveOne ==
  ASSUME NEW c, NEW x \in Accesses, c.accs = <<x>>
  PROVE  Consecutive(c) /\ c.accs[1].id = x.id /\ LastId(c) = x.id
BY DEF Consecutive, LastId

(* An access added to a batch. *)
LEMMA ConsecutiveAppend ==
  ASSUME NEW b \in Batches, NEW c, NEW x \in Accesses, Consecutive(b),
         x.id = LastId(b) + 1, c.accs = Append(b.accs, x)
  PROVE  Consecutive(c) /\ c.accs[1].id = b.accs[1].id /\ LastId(c) = x.id
<1>1. PICK s \in Seq(Accesses) : s = b.accs
  BY DEF Batches
<1>2. s # <<>> /\ Len(s) \in Nat /\ Len(s) >= 1
  BY <1>1 DEF Consecutive
<1>3. PICK u \in Seq(Accesses) : u = Append(s, x)
  <2>1. Append(s, x) \in Seq(Accesses)
    BY <1>1
  <2>2. QED
    BY <2>1
<1>4. /\ Len(u) = Len(s) + 1 /\ u[Len(u)] = x
      /\ \A j \in 1 .. Len(s) : u[j] = s[j]
  BY <1>1, <1>3
<1>5. c.accs = u
  BY <1>1, <1>3
<1>6. ASSUME NEW j \in 2 .. Len(u)
      PROVE  u[j].id = u[j - 1].id + 1
  <2>1. CASE j \in 2 .. Len(s)
    <3>1. s[j].id = s[j - 1].id + 1
      BY <1>1, <2>1 DEF Consecutive
    <3>2. QED
      BY <1>2, <1>4, <2>1, <3>1
  <2>2. CASE j = Len(s) + 1
    <3>1. u[j - 1] = s[Len(s)] /\ u[j] = x
      BY <1>2, <1>4, <2>2
    <3>2. QED
      BY <1>1, <3>1 DEF LastId
  <2>3. QED
    BY <1>2, <1>4, <2>1, <2>2
<1>7. u # <<>> /\ u[1] = s[1]
  BY <1>2, <1>3, <1>4
<1>8. QED
  BY <1>1, <1>4, <1>5, <1>6, <1>7 DEF Consecutive, LastId

(* A record added to records in order. *)
LEMMA InOrderAppend ==
  ASSUME NEW r \in Seq(Batches), NEW b \in Batches, InOrder(r), Consecutive(b),
         b.accs[1].id = LastIdOf(r) + 1
  PROVE  InOrder(Append(r, b)) /\ LastIdOf(Append(r, b)) = LastId(b)
<1>1. PICK u \in Seq(Batches) : u = Append(r, b)
  <2>1. Append(r, b) \in Seq(Batches)
    OBVIOUS
  <2>2. QED
    BY <2>1
<1>2. /\ Len(r) \in Nat /\ Len(u) = Len(r) + 1 /\ u[Len(u)] = b
      /\ \A j \in 1 .. Len(r) : u[j] = r[j]
  BY <1>1
<1>3. ASSUME NEW i \in 1 .. Len(u)
      PROVE  Consecutive(u[i]) /\ u[i].accs[1].id = IF i = 1 THEN 1 ELSE LastId(u[i - 1]) + 1
  <2>1. CASE i \in 1 .. Len(r)
    <3>1. Consecutive(r[i]) /\ r[i].accs[1].id = IF i = 1 THEN 1 ELSE LastId(r[i - 1]) + 1
      BY <2>1 DEF InOrder
    <3>2. u[i] = r[i] /\ (i # 1 => u[i - 1] = r[i - 1])
      BY <1>2, <2>1
    <3>3. QED
      BY <3>1, <3>2
  <2>2. CASE i = Len(r) + 1
    <3>1. u[i] = b /\ (i # 1 => u[i - 1] = r[Len(r)] /\ r # <<>>)
      BY <1>2, <2>2
    <3>2. i = 1 => r = <<>>
      BY <1>2, <2>2
    <3>3. CASE i = 1
      BY <3>1, <3>2, <3>3 DEF LastIdOf
    <3>4. CASE i # 1
      BY <3>1, <3>4 DEF LastIdOf
    <3>5. QED
      BY <3>3, <3>4
  <2>3. QED
    BY <1>2, <2>1, <2>2
<1>4. u # <<>>
  BY <1>1
<1>5. QED
  BY <1>1, <1>2, <1>3, <1>4 DEF InOrder, LastIdOf

(* A batch that is emitted. *)
LEMMA Emission ==
  ASSUME NEW b \in Batches, NEW r \in Seq(Batches), NEW n \in Nat,
         HookInv(b, r, n), b.fd # NoFd
  PROVE  /\ Append(r, b) \in Seq(Batches)
         /\ InOrder(Append(r, b)) /\ LastIdOf(Append(r, b)) = n
         /\ \A i \in 1 .. Len(Append(r, b)) : Covers(Append(r, b)[i])
<1>1. Append(r, b) \in Seq(Batches) /\ Len(r) \in Nat /\ Len(Append(r, b)) = Len(r) + 1
  OBVIOUS
<1>2. InOrder(Append(r, b)) /\ LastIdOf(Append(r, b)) = n
  BY InOrderAppend DEF HookInv
<1>3. ASSUME NEW i \in 1 .. Len(Append(r, b))
      PROVE  Covers(Append(r, b)[i])
  <2>1. CASE i \in 1 .. Len(r)
    <3>1. Append(r, b)[i] = r[i]
      BY <2>1
    <3>2. Covers(r[i])
      BY <2>1 DEF HookInv
    <3>3. QED
      BY <3>1, <3>2
  <2>2. CASE i = Len(r) + 1
    <3>1. Append(r, b)[i] = b
      BY <2>2
    <3>2. Covers(b)
      BY DEF HookInv
    <3>3. QED
      BY <3>1, <3>2
  <2>3. QED
    BY <1>1, <2>1, <2>2
<1>4. QED
  BY <1>1, <1>2, <1>3

(* Emitted(b), which is nothing when there is no batch. *)
LEMMA EmittedFacts ==
  ASSUME NEW b \in Batches, NEW r \in Seq(Batches), NEW n \in Nat, HookInv(b, r, n)
  PROVE  LET q == r \o Emitted(b) IN
         /\ q \in Seq(Batches) /\ InOrder(q) /\ LastIdOf(q) = n
         /\ \A i \in 1 .. Len(q) : Covers(q[i])
<1>1. CASE b.fd # NoFd
  <2>1. Emitted(b) = <<b>>
    BY <1>1 DEF Emitted, HookInv, Batches
  <2>2. r \o <<b>> = Append(r, b)
    OBVIOUS
  <2>3. QED
    BY <1>1, <2>1, <2>2, Emission
<1>2. CASE b.fd = NoFd
  <2>1. Emitted(b) = <<>>
    BY <1>2 DEF Emitted
  <2>2. r \o <<>> = r
    OBVIOUS
  <2>3. QED
    BY <1>2, <2>1, <2>2 DEF HookInv
<1>3. QED
  BY <1>1, <1>2

(* batch_read_write_second(), and every other place that starts over.      *)
LEMMA HookRestart ==
  ASSUME NEW b \in Batches, NEW r \in Seq(Batches), NEW n \in Nat, HookInv(b, r, n),
         NEW c \in Batches, NEW fd \in Fds, NEW x \in Accesses, x.id = n + 1,
         c.fd = fd, c.size >= 1, Covers(c), c.accs = <<x>>
  PROVE  r \o Emitted(b) \in Seq(Batches) /\ HookInv(c, r \o Emitted(b), n + 1)
<1>1. PICK q : q = r \o Emitted(b)
  OBVIOUS
<1>2. /\ q \in Seq(Batches) /\ InOrder(q) /\ LastIdOf(q) = n
      /\ \A i \in 1 .. Len(q) : Covers(q[i])
  BY <1>1, EmittedFacts
<1>3. Consecutive(c) /\ c.accs[1].id = x.id /\ LastId(c) = x.id
  BY ConsecutiveOne
<1>4. c.fd # NoFd
  BY BatchAssumption
<1>5. HookInv(c, q, n + 1)
  BY <1>2, <1>3, <1>4 DEF HookInv
<1>6. QED
  BY <1>1, <1>2, <1>5

(* batch_read_write_first(). *)
LEMMA HookFirst ==
  ASSUME NEW b \in Batches, NEW r \in Seq(Batches), NEW n \in Nat, HookInv(b, r, n),
         NEW fd \in Fds, NEW x \in Accesses, x.id = n + 1, b.fd = fd
  PROVE  /\ batch_read_write_first(b, fd, x) \in Batches
         /\ r \o FirstEmits(b, x) \in Seq(Batches)
         /\ HookInv(batch_read_write_first(b, fd, x), r \o FirstEmits(b, x), n + 1)
<1>0. b.fd # NoFd
  BY BatchAssumption
<1>1. PICK c : c = batch_read_write_first(b, fd, x)
  OBVIOUS
<1>2. /\ c \in Batches /\ c.fd = fd /\ c.size >= 1 /\ Covers(c)
      /\ c.accs = IF Apart(b, x) \/ Full(b) THEN <<x>> ELSE Append(b.accs, x)
  BY <1>0, <1>1, FirstFacts DEF HookInv
<1>3. CASE Apart(b, x) \/ Full(b)
  <2>1. FirstEmits(b, x) = Emitted(b) /\ c.accs = <<x>>
    BY <1>2, <1>3 DEF FirstEmits
  <2>2. QED
    BY <1>1, <1>2, <2>1, HookRestart
<1>4. CASE ~(Apart(b, x) \/ Full(b))
  <2>1. FirstEmits(b, x) = <<>> /\ c.accs = Append(b.accs, x)
    BY <1>2, <1>4 DEF FirstEmits
  <2>2. r \o <<>> = r
    OBVIOUS
  <2>3. Consecutive(b) /\ n = LastId(b) /\ b.accs[1].id = LastIdOf(r) + 1
    BY <1>0 DEF HookInv
  <2>4. Consecutive(c) /\ c.accs[1].id = b.accs[1].id /\ LastId(c) = x.id
    <3>1. x.id = LastId(b) + 1
      BY <2>3
    <3>2. Consecutive(b) /\ c.accs = Append(b.accs, x)
      BY <2>1, <2>3
    <3>3. QED
      BY <3>1, <3>2, ConsecutiveAppend
  <2>5. HookInv(c, r, n + 1)
    BY <1>0, <1>2, <2>3, <2>4 DEF HookInv
  <2>6. QED
    BY <1>1, <1>2, <2>1, <2>2, <2>5
<1>5. QED
  BY <1>3, <1>4

(* A hook's own part of close_common(). *)
LEMMA HookClose ==
  ASSUME NEW b \in Batches, NEW r \in Seq(Batches), NEW n \in Nat, HookInv(b, r, n),
         b.fd # NoFd
  PROVE  /\ [b EXCEPT !.fd = NoFd] \in Batches /\ Append(r, b) \in Seq(Batches)
         /\ HookInv([b EXCEPT !.fd = NoFd], Append(r, b), n)
<1>1. PICK c : c = [b EXCEPT !.fd = NoFd]
  OBVIOUS
<1>2. /\ c \in Batches /\ c.fd = NoFd /\ c.off = b.off /\ c.size = b.size
      /\ c.accs = b.accs
  BY <1>1 DEF Batches
<1>3. Covers(c)
  BY <1>2 DEF HookInv, Covers, Last
<1>4. PICK q : q = Append(r, b)
  OBVIOUS
<1>5. /\ q \in Seq(Batches) /\ InOrder(q) /\ LastIdOf(q) = n
      /\ \A i \in 1 .. Len(q) : Covers(q[i])
  BY <1>4, Emission
<1>6. HookInv(c, q, n)
  BY <1>2, <1>3, <1>5 DEF HookInv
<1>7. QED
  BY <1>1, <1>2, <1>4, <1>5, <1>6

(* fd_to_path() changes the path of the batch and nothing else of it. *)
LEMMA HookPath ==
  ASSUME NEW b \in Batches, NEW r, NEW n, HookInv(b, r, n), NEW f \in Files
  PROVE  [b EXCEPT !.path = f] \in Batches /\ HookInv([b EXCEPT !.path = f], r, n)
<1>1. PICK c : c = [b EXCEPT !.path = f]
  OBVIOUS
<1>2. /\ c \in Batches /\ c.fd = b.fd /\ c.off = b.off /\ c.size = b.size
      /\ c.accs = b.accs
  BY <1>1 DEF Batches
<1>3. Covers(c) /\ (Consecutive(b) => Consecutive(c)) /\ LastId(c) = LastId(b)
  BY <1>2 DEF HookInv, Covers, Last, Consecutive, LastId
<1>4. QED
  BY <1>1, <1>2, <1>3 DEF HookInv

-----------------------------------------------------------------------------
(* The state machine.                                                      *)

Inv == TypeOK /\ BatchInv

(* Initially no hook has a batch. *)
LEMMA InvInit == Init => Inv
<1> SUFFICES ASSUME Init PROVE Inv
  OBVIOUS
<1>1. NoBatch \in Batches
  BY DEF NoBatch, Batches
<1>2. TypeOK
  BY <1>1 DEF Init, TypeOK
<1>3. HookInv(NoBatch, <<>>, 0)
  BY DEF HookInv, NoBatch, Covers, InOrder, LastIdOf
<1>4. BatchInv
  BY <1>3 DEF BatchInv, Init
<1>5. QED
  BY <1>2, <1>4 DEF Inv

(* A step of thread t in hook op that replaces its batch and adds records. *)
LEMMA RecordStep ==
  ASSUME Inv, NEW t \in Threads, NEW op \in Ops, NEW b \in Batches, NEW emits,
         NEW done \in BOOLEAN, Record(t, op, b, emits, done),
         out[t][op] \o emits \in Seq(Batches),
         HookInv(b, out[t][op] \o emits, IF done THEN cnt[t][op] + 1 ELSE cnt[t][op])
  PROVE  /\ BatchInv'
         /\ batch' \in [Threads -> [Ops -> Batches]]
         /\ out' \in [Threads -> [Ops -> Seq(Batches)]]
         /\ cnt' \in [Threads -> [Ops -> Nat]]
<1>1. /\ batch \in [Threads -> [Ops -> Batches]]
      /\ out \in [Threads -> [Ops -> Seq(Batches)]]
      /\ cnt \in [Threads -> [Ops -> Nat]]
  BY DEF Inv, TypeOK
<1>2. /\ batch' \in [Threads -> [Ops -> Batches]]
      /\ out' \in [Threads -> [Ops -> Seq(Batches)]]
      /\ cnt' \in [Threads -> [Ops -> Nat]]
  BY <1>1 DEF Record
<1>3. ASSUME NEW u \in Threads, NEW o \in Ops
      PROVE  HookInv(batch'[u][o], out'[u][o], cnt'[u][o])
  <2>1. CASE u = t /\ o = op
    <3>1. /\ batch'[u][o] = b /\ out'[u][o] = out[t][op] \o emits
          /\ cnt'[u][o] = IF done THEN cnt[t][op] + 1 ELSE cnt[t][op]
      BY <1>1, <2>1 DEF Record
    <3>2. QED
      BY <3>1
  <2>2. CASE ~(u = t /\ o = op)
    <3>1. batch'[u][o] = batch[u][o] /\ out'[u][o] = out[u][o] /\ cnt'[u][o] = cnt[u][o]
      BY <1>1, <2>2 DEF Record
    <3>2. HookInv(batch[u][o], out[u][o], cnt[u][o])
      BY DEF Inv, BatchInv
    <3>3. QED
      BY <3>1, <3>2
  <2>3. QED
    BY <2>1, <2>2
<1>4. QED
  BY <1>2, <1>3 DEF BatchInv

(* The access a hook is about to record. *)
LEMMA AccessType ==
  ASSUME Inv, NEW t \in Threads, call[t] # NULL, Access(t, call[t]).off >= 0
  PROVE  /\ call[t] \in Calls /\ Access(t, call[t]) \in Accesses
         /\ Access(t, call[t]).id = cnt[t][call[t].op] + 1
<1>1. PICK c : c = call[t]
  OBVIOUS
<1>2. c \in Calls
  BY <1>1 DEF Inv, TypeOK
<1>3. /\ c.op \in Ops /\ c.fd \in Fds /\ c.n \in Nat \ {0} /\ c.off \in Nat
      /\ c.file \in Files /\ cnt[t][c.op] \in Nat /\ pos[c.fd] \in Nat
  BY <1>2 DEF Calls, Inv, TypeOK
<1>4. HookOff(c) \in Int
  BY <1>3 DEF HookOff
<1>5. HookOff(c) >= 0
  BY <1>1 DEF Access
<1>6. QED
  BY <1>1, <1>2, <1>3, <1>4, <1>5 DEF Access, Accesses

(* batch_read_write_first() on the batch of the descriptor. *)
LEMMA SameFileStep ==
  ASSUME Inv, NEW t \in Threads, SameFile(t)
  PROVE  Inv'
<1>1. PICK c : c = call[t]
  OBVIOUS
<1>2. PICK b : b = batch[t][c.op]
  OBVIOUS
<1>3. PICK x : x = Access(t, c)
  OBVIOUS
<1>4. /\ c # NULL /\ b.fd = c.fd /\ x.off >= 0
      /\ Record(t, c.op, batch_read_write_first(b, c.fd, x), FirstEmits(b, x), Handled(b, x))
      /\ call' = [call EXCEPT ![t] = IF Handled(b, x) THEN NULL ELSE [c EXCEPT !.at = "path"]]
      /\ UNCHANGED <<fdtab, pos, hist, total, fate>>
  BY <1>1, <1>2, <1>3 DEF SameFile
<1>5. c \in Calls /\ x \in Accesses /\ x.id = cnt[t][c.op] + 1
  BY <1>1, <1>3, <1>4, AccessType
<1>6. c.op \in Ops /\ c.fd \in Fds
  BY <1>5 DEF Calls
<1>7. b \in Batches /\ out[t][c.op] \in Seq(Batches) /\ cnt[t][c.op] \in Nat
  BY <1>2, <1>6 DEF Inv, TypeOK
<1>8. HookInv(b, out[t][c.op], cnt[t][c.op])
  BY <1>2, <1>6 DEF Inv, BatchInv
<1>9. Handled(b, x) = TRUE
  BY <1>5, <1>7, FirstHandles DEF Handled, Apart, Inside, Beyond, Around, Before
<1>10. PICK d : d = batch_read_write_first(b, c.fd, x)
  OBVIOUS
<1>11. PICK em : em = FirstEmits(b, x)
  OBVIOUS
<1>12. /\ d \in Batches /\ out[t][c.op] \o em \in Seq(Batches)
       /\ HookInv(d, out[t][c.op] \o em, cnt[t][c.op] + 1)
  BY <1>4, <1>5, <1>6, <1>7, <1>8, <1>10, <1>11, HookFirst
<1>13. Record(t, c.op, d, em, TRUE)
  BY <1>4, <1>9, <1>10, <1>11
<1>14. /\ BatchInv'
       /\ batch' \in [Threads -> [Ops -> Batches]]
       /\ out' \in [Threads -> [Ops -> Seq(Batches)]]
       /\ cnt' \in [Threads -> [Ops -> Nat]]
  BY <1>6, <1>12, <1>13, RecordStep
<1>15. call' \in [Threads -> Calls \cup {NULL}]
  BY <1>4, <1>9 DEF Inv, TypeOK
<1>16. QED
  BY <1>4, <1>14, <1>15 DEF Inv, TypeOK

(* batch_read_write_second() after notify(). *)
LEMMA DispatchStep ==
  ASSUME Inv, NEW t \in Threads, Dispatch(t)
  PROVE  Inv'
<1>1. PICK c : c = call[t]
  OBVIOUS
<1>2. PICK b : b = batch[t][c.op]
  OBVIOUS
<1>3. PICK x : x = Access(t, c)
  OBVIOUS
<1>4. /\ c # NULL
      /\ IF x.off >= 0
           THEN Record(t, c.op, Restart(b, c.fd, x), Emitted(b), TRUE)
           ELSE UNCHANGED <<batch, out, cnt>>
      /\ call' = [call EXCEPT ![t] = NULL]
      /\ UNCHANGED <<fdtab, pos, hist, total, fate>>
  BY <1>1, <1>2, <1>3 DEF Dispatch
<1>5. call' \in [Threads -> Calls \cup {NULL}]
  BY <1>4 DEF Inv, TypeOK
<1>6. CASE x.off >= 0
  <2>1. c \in Calls /\ x \in Accesses /\ x.id = cnt[t][c.op] + 1
    BY <1>1, <1>3, <1>4, <1>6, AccessType
  <2>2. c.op \in Ops /\ c.fd \in Fds
    BY <2>1 DEF Calls
  <2>3. b \in Batches /\ out[t][c.op] \in Seq(Batches) /\ cnt[t][c.op] \in Nat
    BY <1>2, <2>2 DEF Inv, TypeOK
  <2>4. HookInv(b, out[t][c.op], cnt[t][c.op])
    BY <1>2, <2>2 DEF Inv, BatchInv
  <2>5. PICK d : d = Restart(b, c.fd, x)
    OBVIOUS
  <2>6. /\ d \in Batches /\ d.fd = c.fd /\ d.accs = <<x>> /\ Covers(d)
        /\ d.size = curr_end(x) - curr_start(x) + 1
    BY <2>1, <2>2, <2>3, <2>5, RestartFacts
  <2>7. d.size >= 1
    BY <2>1, <2>6, BlockType, BlocksOrdered
  <2>8. PICK em : em = Emitted(b)
    OBVIOUS
  <2>9. /\ out[t][c.op] \o em \in Seq(Batches)
        /\ HookInv(d, out[t][c.op] \o em, cnt[t][c.op] + 1)
    BY <2>1, <2>2, <2>3, <2>4, <2>6, <2>7, <2>8, HookRestart
  <2>10. Record(t, c.op, d, em, TRUE)
    BY <1>4, <1>6, <2>5, <2>8
  <2>11. /\ BatchInv'
         /\ batch' \in [Threads -> [Ops -> Batches]]
         /\ out' \in [Threads -> [Ops -> Seq(Batches)]]
         /\ cnt' \in [Threads -> [Ops -> Nat]]
    BY <2>2, <2>6, <2>9, <2>10, RecordStep
  <2>12. QED
    BY <1>4, <1>5, <2>11 DEF Inv, TypeOK
<1>7. CASE ~(x.off >= 0)
  BY <1>4, <1>5, <1>7 DEF Inv, TypeOK, BatchInv
<1>8. QED
  BY <1>6, <1>7

(* close_common() in the thread that closes or exits. *)
LEMMA CloseStep ==
  ASSUME Inv, NEW t \in Threads, NEW S \in SUBSET Fds, close_common(t, S), cnt' = cnt
  PROVE  /\ BatchInv'
         /\ batch' \in [Threads -> [Ops -> Batches]]
         /\ out' \in [Threads -> [Ops -> Seq(Batches)]]
<1>1. /\ batch \in [Threads -> [Ops -> Batches]]
      /\ out \in [Threads -> [Ops -> Seq(Batches)]]
      /\ cnt \in [Threads -> [Ops -> Nat]]
  BY DEF Inv, TypeOK
<1>2. ASSUME NEW u \in Threads, NEW o \in Ops
      PROVE  /\ batch'[u][o] \in Batches /\ out'[u][o] \in Seq(Batches)
             /\ HookInv(batch'[u][o], out'[u][o], cnt'[u][o])
  <2>0. PICK b \in Batches : b = batch[u][o]
    BY <1>1
  <2>1. PICK r \in Seq(Batches) : r = out[u][o]
    BY <1>1
  <2>2. PICK n \in Nat : n = cnt[u][o]
    BY <1>1
  <2>3. HookInv(b, r, n)
    BY <2>0, <2>1, <2>2 DEF Inv, BatchInv
  <2>4. CASE u = t /\ b.fd \in S
    <3>1. batch'[u][o] = [b EXCEPT !.fd = NoFd] /\ out'[u][o] = Append(r, b)
      BY <1>1, <2>0, <2>1, <2>4 DEF close_common, Closes, Closed, Logged
    <3>2. b.fd # NoFd
      BY <2>4, BatchAssumption
    <3>3. QED
      BY <2>2, <2>3, <3>1, <3>2, HookClose
  <2>5. CASE ~(u = t /\ b.fd \in S)
    <3>1. batch'[u][o] = b /\ out'[u][o] = r
      BY <1>1, <2>0, <2>1, <2>5 DEF close_common, Closes, Closed, Logged
    <3>2. QED
      BY <2>2, <2>3, <3>1
  <2>6. QED
    BY <2>4, <2>5
<1>3. /\ batch' = [v \in Threads |-> [o \in Ops |-> batch'[v][o]]]
      /\ out' = [v \in Threads |-> [o \in Ops |-> out'[v][o]]]
  BY <1>1 DEF close_common
<1>4. /\ batch' \in [Threads -> [Ops -> Batches]]
      /\ out' \in [Threads -> [Ops -> Seq(Batches)]]
  BY <1>2, <1>3
<1>5. QED
  BY <1>2, <1>4 DEF BatchInv

(* fd_to_path() overwrites the path of a batch that is still open. *)
LEMMA FdToPathStep ==
  ASSUME Inv, NEW t \in Threads, FdToPath(t)
  PROVE  Inv'
<1>1. PICK c : c = call[t]
  OBVIOUS
<1>2. PICK f : f = fdtab[c.fd]
  OBVIOUS
<1>3. /\ c # NULL
      /\ batch' = IF f = NULL THEN batch ELSE [batch EXCEPT ![t][c.op].path = f]
      /\ call' = [call EXCEPT ![t] = IF f = NULL THEN NULL ELSE [c EXCEPT !.at = "notify"]]
      /\ UNCHANGED <<fdtab, pos, out, cnt, hist, total, fate>>
  BY <1>1, <1>2 DEF FdToPath
<1>4. c \in Calls /\ c.op \in Ops /\ c.fd \in Fds
  BY <1>1, <1>3 DEF Inv, TypeOK, Calls
<1>5. f \in Files \cup {NULL}
  BY <1>2, <1>4 DEF Inv, TypeOK
<1>6. call' \in [Threads -> Calls \cup {NULL}]
  <2>1. [c EXCEPT !.at = "notify"] \in Calls
    BY <1>4 DEF Calls
  <2>2. QED
    BY <1>3, <2>1 DEF Inv, TypeOK
<1>7. CASE f = NULL
  BY <1>3, <1>6, <1>7 DEF Inv, TypeOK, BatchInv
<1>8. CASE f # NULL
  <2>1. PICK b \in Batches : b = batch[t][c.op]
    BY <1>4 DEF Inv, TypeOK
  <2>2. PICK d : d = [b EXCEPT !.path = f]
    OBVIOUS
  <2>3. HookInv(b, out[t][c.op], cnt[t][c.op])
    BY <1>4, <2>1 DEF Inv, BatchInv
  <2>4. d \in Batches /\ HookInv(d, out[t][c.op], cnt[t][c.op])
    BY <1>5, <1>8, <2>2, <2>3, HookPath
  <2>5. batch' = [batch EXCEPT ![t][c.op] = d]
    BY <1>3, <1>8, <2>1, <2>2
  <2>6. out[t][c.op] \in Seq(Batches)
    BY <1>4 DEF Inv, TypeOK
  <2>7. out[t][c.op] \o <<>> = out[t][c.op]
    BY <2>6
  <2>8. out' = [out EXCEPT ![t][c.op] = @ \o <<>>]
    BY <1>3, <1>4, <2>7 DEF Inv, TypeOK
  <2>9. Record(t, c.op, d, <<>>, FALSE)
    BY <1>3, <2>5, <2>8 DEF Record
  <2>10. /\ BatchInv'
         /\ batch' \in [Threads -> [Ops -> Batches]]
         /\ out' \in [Threads -> [Ops -> Seq(Batches)]]
         /\ cnt' \in [Threads -> [Ops -> Nat]]
    BY <1>4, <2>4, <2>6, <2>7, <2>9, RecordStep
  <2>11. QED
    BY <1>3, <1>6, <2>10 DEF Inv, TypeOK
<1>9. QED
  BY <1>7, <1>8

(* Steps that leave batches and records alone. *)
LEMMA OtherStep ==
  ASSUME Inv,
         \/ \E t \in Threads : OtherFile(t)
         \/ \E t \in Threads, fd \in Fds, f \in Files : Open(t, fd, f)
         \/ \E t \in Threads, fd \in Fds, o \in Offsets : Lseek(t, fd, o)
         \/ \E t \in Threads : Notify(t)
         \/ \E t \in Threads, fd \in Fds, op \in Ops, n \in Sizes :
              \/ ReadWrite(t, op, fd, n)
              \/ \E k \in Fills : FreadFwrite(t, op, fd, n, k)
              \/ \E o \in Offsets : PreadPwrite(t, op, fd, n, o)
         \/ UNCHANGED vars
  PROVE  Inv'
<1>1. CASE \E t \in Threads : OtherFile(t)
  <2>1. PICK t \in Threads : OtherFile(t)
    BY <1>1
  <2>2. PICK c : c = call[t]
    OBVIOUS
  <2>3. c \in Calls /\ call' = [call EXCEPT ![t] = [c EXCEPT !.at = "path"]]
    BY <2>1, <2>2 DEF OtherFile, Inv, TypeOK
  <2>4. [c EXCEPT !.at = "path"] \in Calls
    BY <2>3 DEF Calls
  <2>5. call' \in [Threads -> Calls \cup {NULL}]
    BY <2>3, <2>4 DEF Inv, TypeOK
  <2>6. QED
    BY <2>1, <2>5 DEF OtherFile, Inv, TypeOK, BatchInv
<1>2. CASE \E t \in Threads, fd \in Fds, f \in Files : Open(t, fd, f)
  BY <1>2 DEF Open, Inv, TypeOK, BatchInv
<1>3. CASE \E t \in Threads, fd \in Fds, o \in Offsets : Lseek(t, fd, o)
  BY <1>3, BatchAssumption DEF Lseek, Inv, TypeOK, BatchInv
<1>4. ASSUME NEW t \in Threads, NEW fd \in Fds, NEW op \in Ops, NEW n \in Sizes, NEW o \in Nat,
             Called(t, op, fd, n, o), pos' \in [Fds -> Nat]
      PROVE  Inv'
  <2>1. n \in Nat \ {0} /\ fdtab[fd] \in Files
    BY <1>4, BatchAssumption DEF Called, Inv, TypeOK
  <2>2. [op |-> op, fd |-> fd, n |-> n, off |-> o, file |-> fdtab[fd], at |-> "batch"]
          \in Calls
    BY <2>1 DEF Calls
  <2>3. call' \in [Threads -> Calls \cup {NULL}]
    BY <1>4, <2>2 DEF Called, Inv, TypeOK
  <2>4. hist' \in [Threads -> [Ops -> Seq(Made)]]
    <3>1. PICK m : m = [off |-> o, n |-> n]
      OBVIOUS
    <3>2. m \in Made
      BY <2>1, <3>1 DEF Made
    <3>3. hist \in [Threads -> [Ops -> Seq(Made)]]
      BY DEF Inv, TypeOK
    <3>4. PICK q : q = Append(hist[t][op], m)
      OBVIOUS
    <3>5. hist' = [hist EXCEPT ![t][op] = q] \/ hist' = hist
      BY <1>4, <3>1, <3>4 DEF Called
    <3>6. q \in Seq(Made)
      BY <3>2, <3>3, <3>4
    <3>7. ASSUME NEW S, hist \in [Threads -> [Ops -> S]], q \in S
          PROVE  [hist EXCEPT ![t][op] = q] \in [Threads -> [Ops -> S]]
      BY <3>7
    <3>8. PICK S : S = Seq(Made)
      OBVIOUS
    <3>9. QED
      BY <3>3, <3>5, <3>6, <3>7, <3>8
  <2>5. total' \in Nat /\ UNCHANGED <<fdtab, batch, out, cnt, fate>>
    BY <1>4, SMTT(60) DEF Called, Inv, TypeOK
  <2>6. BatchInv'
    BY <2>5 DEF Inv, BatchInv
  <2>7. QED
    BY <1>4, <2>3, <2>4, <2>5, <2>6 DEF Inv, TypeOK
<1>5. ASSUME NEW fd \in Fds, NEW k \in Nat, Moved(fd, k)
      PROVE  pos' \in [Fds -> Nat]
  BY <1>5 DEF Moved, Inv, TypeOK
<1>6. CASE \E t \in Threads, fd \in Fds, op \in Ops, n \in Sizes :
             \/ ReadWrite(t, op, fd, n)
             \/ \E k \in Fills : FreadFwrite(t, op, fd, n, k)
             \/ \E o \in Offsets : PreadPwrite(t, op, fd, n, o)
  <2>1. PICK t \in Threads, fd \in Fds, op \in Ops, n \in Sizes :
             \/ ReadWrite(t, op, fd, n)
             \/ \E k \in Fills : FreadFwrite(t, op, fd, n, k)
             \/ \E o \in Offsets : PreadPwrite(t, op, fd, n, o)
    BY <1>6
  <2>2. CASE ReadWrite(t, op, fd, n)
    <3>1. pos' \in [Fds -> Nat]
      BY <1>5, <2>2, BatchAssumption DEF ReadWrite
    <3>2. QED
      BY <1>4, <2>2, <3>1 DEF ReadWrite, Inv, TypeOK
  <2>3. CASE \E k \in Fills : FreadFwrite(t, op, fd, n, k)
    <3>1. pos' \in [Fds -> Nat]
      BY <1>5, <2>3, BatchAssumption DEF FreadFwrite
    <3>2. QED
      BY <1>4, <2>3, <3>1 DEF FreadFwrite, Inv, TypeOK
  <2>4. CASE \E o \in Offsets : PreadPwrite(t, op, fd, n, o)
    <3>1. pos' \in [Fds -> Nat]
      BY <2>4 DEF PreadPwrite, Inv, TypeOK
    <3>2. QED
      BY <1>4, <2>4, <3>1, BatchAssumption DEF PreadPwrite
  <2>5. QED
    BY <2>1, <2>2, <2>3, <2>4
<1>7. CASE \E t \in Threads : Notify(t)
  <2>1. PICK t \in Threads : Notify(t)
    BY <1>7
  <2>2. PICK c : c = call[t]
    OBVIOUS
  <2>3. /\ c \in Calls
        /\ call' = [call EXCEPT ![t] = [c EXCEPT !.at = "dispatch"]] \/ call' = [call EXCEPT ![t] = NULL]
    BY <2>1, <2>2 DEF Notify, Inv, TypeOK
  <2>4. [c EXCEPT !.at = "dispatch"] \in Calls
    BY <2>3 DEF Calls
  <2>5. call' \in [Threads -> Calls \cup {NULL}]
    BY <2>3, <2>4 DEF Inv, TypeOK
  <2>6. QED
    BY <2>1, <2>5 DEF Notify, Inv, TypeOK, BatchInv
<1>8. CASE UNCHANGED vars
  BY <1>8 DEF vars, Inv, TypeOK, BatchInv
<1>9. QED
  BY <1>1, <1>2, <1>3, <1>6, <1>7, <1>8

(* Every step keeps the invariant. *)
LEMMA InvNext == Inv /\ [Next]_vars => Inv'
<1> SUFFICES ASSUME Inv, [Next]_vars PROVE Inv'
  OBVIOUS
<1>1. CASE UNCHANGED vars
  BY <1>1, OtherStep
<1>2. CASE Done
  BY <1>2, OtherStep DEF Done
<1>3. ASSUME NEW t \in Threads, Hook(t) PROVE Inv'
  BY <1>3, SameFileStep, DispatchStep, FdToPathStep, OtherStep DEF Hook
<1>4. ASSUME NEW t \in Threads, ThreadExit(t) PROVE Inv'
  <2>1. BatchInv' /\ batch' \in [Threads -> [Ops -> Batches]]
        /\ out' \in [Threads -> [Ops -> Seq(Batches)]]
    BY <1>4, CloseStep DEF ThreadExit
  <2>2. QED
    BY <1>4, <2>1 DEF ThreadExit, Inv, TypeOK
<1>5. ASSUME NEW t \in Threads, ProcessExit(t) PROVE Inv'
  <2>1. BatchInv' /\ batch' \in [Threads -> [Ops -> Batches]]
        /\ out' \in [Threads -> [Ops -> Seq(Batches)]]
    BY <1>5, CloseStep DEF ProcessExit
  <2>2. QED
    BY <1>5, <2>1 DEF ProcessExit, Inv, TypeOK
<1>6. ASSUME NEW t \in Threads, NEW fd \in Fds, Close(t, fd) PROVE Inv'
  <2>1. BatchInv' /\ batch' \in [Threads -> [Ops -> Batches]]
        /\ out' \in [Threads -> [Ops -> Seq(Batches)]]
    BY <1>6, CloseStep DEF Close
  <2>2. QED
    BY <1>6, <2>1 DEF Close, Inv, TypeOK
<1>7. ASSUME NEW t \in Threads, NEW fd \in Fds, NEW f \in Files, Open(t, fd, f) PROVE Inv'
  BY <1>7, OtherStep
<1>8. ASSUME NEW t \in Threads, NEW fd \in Fds, NEW o \in Offsets, Lseek(t, fd, o) PROVE Inv'
  BY <1>8, OtherStep
<1>9. ASSUME NEW t \in Threads, NEW fd \in Fds, NEW op \in Ops, NEW n \in Sizes,
             \/ ReadWrite(t, op, fd, n)
             \/ \E k \in Fills : FreadFwrite(t, op, fd, n, k)
             \/ \E o \in Offsets : PreadPwrite(t, op, fd, n, o)
      PROVE  Inv'
  BY <1>9, OtherStep
<1>10. ASSUME NEW t \in Threads, ThreadReturn(t) PROVE Inv'
  BY <1>10 DEF ThreadReturn, Inv, TypeOK, BatchInv
<1>11. QED
  BY <1>1, <1>2, <1>3, <1>4, <1>5, <1>6, <1>7, <1>8, <1>9, <1>10 DEF Next

-----------------------------------------------------------------------------
(* The theorems.                                                           *)

(* What a hook has made, followed by its batch. *)
LEMMA TrailFacts ==
  ASSUME NEW b \in Batches, NEW r \in Seq(Batches), NEW n \in Nat, HookInv(b, r, n),
         NEW q, q = r \o (IF b.fd = NoFd THEN <<>> ELSE <<b>>)
  PROVE  /\ q \in Seq(Batches) /\ InOrder(q) /\ n = LastIdOf(q)
         /\ \A i \in 1 .. Len(q) : Covers(q[i])
<1>1. CASE b.fd = NoFd
  <2>1. q = r
    BY <1>1
  <2>2. QED
    BY <1>1, <2>1 DEF HookInv
<1>2. CASE b.fd # NoFd
  <2>1. q = Append(r, b)
    BY <1>2
  <2>2. QED
    BY <1>2, <2>1, Emission
<1>3. QED
  BY <1>1, <1>2

(* The same, of the state. *)
LEMMA TrailAlways ==
  ASSUME Inv, NEW t \in Threads, NEW o \in Ops
  PROVE  /\ InOrder(Trail(t, o)) /\ cnt[t][o] = LastIdOf(Trail(t, o))
         /\ \A i \in 1 .. Len(Trail(t, o)) :
              Trail(t, o)[i] \in Batches /\ Covers(Trail(t, o)[i])
<1>1. /\ batch[t][o] \in Batches /\ out[t][o] \in Seq(Batches) /\ cnt[t][o] \in Nat
      /\ HookInv(batch[t][o], out[t][o], cnt[t][o])
  BY DEF Inv, TypeOK, BatchInv
<1>2. PICK q : q = Trail(t, o)
  OBVIOUS
<1>3. PICK b \in Batches : b = batch[t][o]
  BY <1>1
<1>4. /\ q \in Seq(Batches) /\ InOrder(q) /\ cnt[t][o] = LastIdOf(q)
      /\ \A i \in 1 .. Len(q) : Covers(q[i])
  <2>1. PICK r \in Seq(Batches) : r = out[t][o]
    BY <1>1
  <2>2. PICK n \in Nat : n = cnt[t][o]
    BY <1>1
  <2>3. q = r \o (IF b.fd = NoFd THEN <<>> ELSE <<b>>)
    BY <1>2, <1>3, <2>1 DEF Trail
  <2>4. HookInv(b, r, n)
    BY <1>1, <1>3, <2>1, <2>2
  <2>5. /\ q \in Seq(Batches) /\ InOrder(q) /\ n = LastIdOf(q)
        /\ \A i \in 1 .. Len(q) : Covers(q[i])
    BY <2>3, <2>4, TrailFacts
  <2> QED BY <2>2, <2>5
<1>5. \A i \in 1 .. Len(q) : q[i] \in Batches
  BY <1>4
<1>6. QED
  BY <1>2, <1>4, <1>5

(* TypeOK and BatchInv together. *)
LEMMA InvAlways == Spec => []Inv
BY InvInit, InvNext, PTL DEF Spec

(* Every variable keeps its type; in particular no hook records an access  *)
(* with a negative offset, which lseek64() on a closed descriptor gives.   *)
THEOREM BatchTypes == Spec => []TypeOK
<1>1. Inv => TypeOK
  BY DEF Inv
<1>2. QED
  BY <1>1, InvAlways, PTL

(* The inductive invariant of every hook. *)
THEOREM BatchInvariant == Spec => []BatchInv
<1>1. Inv => BatchInv
  BY DEF Inv
<1>2. QED
  BY <1>1, InvAlways, PTL

(* The range that batch.c computes for an access starts with the block of  *)
(* its first byte and ends with that of its last byte or one block later.  *)
LEMMA RangeOfTouched ==
  ASSUME NEW x \in Accesses
  PROVE  LET last == (x.off + x.n - 1) \div BlkSize IN
         /\ curr_start(x) = x.off \div BlkSize /\ last \in Int /\ curr_start(x) <= last
         /\ last <= curr_end(x) /\ curr_end(x) <= last + 1
<1>1. PICK m \in Nat : m = x.off + x.n - 1 /\ x.off <= m /\ x.off \in Nat
  <2>1. x.off \in Nat /\ x.n \in Nat \ {0}
    BY DEF Accesses
  <2> QED BY <2>1
<1>2. PICK k \in Nat : k = BlkSize /\ k > 0
  BY BatchAssumption
<1>3. PICK p \in Nat : p = m + k - 1 /\ m <= p
  BY <1>2
<1>0. PICK w \in Nat : w = x.off /\ w <= m
  BY <1>1
<1>4. ASSUME NEW a \in Nat
      PROVE  a = k * (a \div k) + (a % k) /\ a % k \in 0 .. k - 1 /\ a \div k \in Int
  BY <1>2
<1>5. ASSUME NEW i \in Int, NEW j \in Int, i >= j + 1 PROVE k * i >= k * j + k
  BY <1>2, <1>5
<1>6. ASSUME NEW a \in Nat, NEW b \in Nat, a <= b PROVE a \div k <= b \div k
  <2>1. /\ a = k * (a \div k) + (a % k) /\ a % k \in 0 .. k - 1 /\ a \div k \in Int
        /\ b = k * (b \div k) + (b % k) /\ b % k \in 0 .. k - 1 /\ b \div k \in Int
    BY <1>4
  <2> QED BY <1>2, <1>5, <1>6, <2>1
<1>7. p \div k <= m \div k + 1
  <2>1. PICK a \in Int : a = m \div k
    BY <1>4
  <2>2. PICK b \in Int : b = p \div k
    BY <1>4
  <2>3. ASSUME b >= (a + 1) + 1 PROVE FALSE
    <3>1. k * b >= k * (a + 1) + k
      BY <1>5, <2>3
    <3>2. k * (a + 1) = k * a + k
      BY <1>2
    <3>3. m <= k * a + k - 1 /\ k * b <= p /\ k * a \in Int /\ k * b \in Int
      BY <1>2, <1>3, <1>4, <2>1, <2>2
    <3> QED BY <1>2, <1>3, <3>1, <3>2, <3>3
  <2> QED BY <2>1, <2>2, <2>3
<1>8. w \div k <= m \div k /\ m \div k <= p \div k /\ m \div k \in Int
  BY <1>0, <1>3, <1>4, <1>6
<1> QED BY <1>0, <1>1, <1>2, <1>3, <1>7, <1>8 DEF curr_start, curr_end

(* The extent of every batch and record contains all the blocks in which   *)
(* the accesses it lists have a byte, for every block size and length of   *)
(* the access string, also when the string overflows in a merge.           *)
THEOREM ExtentsCover == Spec => []ExtentCovers
<1>1. ASSUME NEW b \in Batches, Covers(b) PROVE AllTouched(b) \subseteq b.off .. Last(b)
  <2>1. b.off \in Int /\ Last(b) \in Int /\ b.accs \in Seq(Accesses)
    BY DEF Batches, Last
  <2>2. ASSUME NEW j \in 1 .. Len(b.accs), NEW z \in Touched(b.accs[j])
        PROVE  z \in b.off .. Last(b)
    <3>1. PICK x \in Accesses : x = b.accs[j]
      BY <2>1
    <3>2. PICK last \in Int : /\ last = (x.off + x.n - 1) \div BlkSize
                              /\ curr_start(x) = x.off \div BlkSize /\ last <= curr_end(x)
      BY RangeOfTouched
    <3>3. b.off <= curr_start(x) /\ curr_end(x) <= Last(b)
      BY <1>1, <3>1 DEF Covers
    <3>4. curr_start(x) \in Int /\ curr_end(x) \in Int
      BY BlockType
    <3>5. z \in curr_start(x) .. last
      BY <2>2, <3>1, <3>2 DEF Touched
    <3> QED BY <2>1, <3>2, <3>3, <3>4, <3>5
  <2> QED BY <2>2 DEF AllTouched
<1>2. ASSUME Inv, NEW t \in Threads, NEW o \in Ops, NEW i \in 1 .. Len(Trail(t, o))
      PROVE  Trail(t, o)[i] \in Batches /\ Covers(Trail(t, o)[i])
  BY <1>2, TrailAlways
<1>3. Inv => ExtentCovers
  BY <1>1, <1>2 DEF ExtentCovers
<1>4. QED
  BY <1>3, InvAlways, PTL

(* The records and the batch of a hook list every access it recorded       *)
(* exactly once, in the order in which they were recorded.                 *)
THEOREM EachOnce == Spec => []EachOnceInOrder
<1>1. Inv => EachOnceInOrder
  BY TrailAlways DEF EachOnceInOrder
<1>2. QED
  BY <1>1, InvAlways, PTL

-----------------------------------------------------------------------------
(* What exit leaves behind.                                                *)

NoneOpen(t) == \A o \in Ops : batch[t][o].fd = NoFd

(* A thread that ended in pthread_exit() or in fini() has no open batch. *)
ExitInv == \A t \in Threads : fate[t] \in {"exit", "fini"} => NoneOpen(t)

(* A step in which no thread ends and a live one changes no batch but its  *)
(* own.                                                                    *)
LEMMA OwnBatch ==
  ASSUME ExitInv, NEW t \in live, fate' = fate,
         \A u \in Threads : u # t => batch'[u] = batch[u]
  PROVE  ExitInv'
<1>1. ASSUME NEW u \in Threads, fate'[u] \in {"exit", "fini"}
      PROVE  \A o \in Ops : batch'[u][o].fd = NoFd
  <2>1. u # t
    BY <1>1 DEF live
  <2> QED BY <1>1, <2>1 DEF ExitInv, NoneOpen
<1> QED BY <1>1 DEF ExitInv, NoneOpen

(* close_common() leaves the batches of other threads alone, and no batch  *)
(* of its own open when it is for all descriptors.                         *)
LEMMA CloseAll ==
  ASSUME TypeOK, NEW t \in Threads, NEW S \in SUBSET Fds, close_common(t, S)
  PROVE  /\ \A u \in Threads : u # t => batch'[u] = batch[u]
         /\ S = Fds => NoneOpen(t)'
<1>1. batch \in [Threads -> [Ops -> Batches]]
  BY DEF TypeOK
<1>2. \A u \in Threads : u # t => batch'[u] = batch[u]
  BY <1>1 DEF close_common
<1>3. ASSUME S = Fds, NEW o \in Ops PROVE batch'[t][o].fd = NoFd
  <2>1. PICK b \in Batches : b = batch[t][o]
    BY <1>1
  <2>2. batch'[t][o] = IF b.fd \in Fds THEN [b EXCEPT !.fd = NoFd] ELSE b
    BY <1>1, <1>3, <2>1 DEF close_common, Closed, Closes
  <2>3. QED
    BY <2>1, <2>2 DEF Batches
<1>4. QED
  BY <1>2, <1>3 DEF NoneOpen

(* Every step keeps it: nobody records in the name of a thread that has   *)
(* ended.                                                                  *)
LEMMA ExitNext == TypeOK /\ ExitInv /\ [Next]_vars => ExitInv'
<1> SUFFICES ASSUME TypeOK, ExitInv, [Next]_vars PROVE ExitInv'
  OBVIOUS
<1>0. /\ batch \in [Threads -> [Ops -> Batches]]
      /\ fate \in [Threads -> {"live", "exit", "return", "fini", "cut"}]
  BY DEF TypeOK
<1>1. ASSUME batch' = batch, fate' = fate PROVE ExitInv'
  BY <1>1 DEF ExitInv, NoneOpen
<1>2. CASE Done \/ UNCHANGED vars
  BY <1>1, <1>2 DEF Done, vars
<1>3. ASSUME NEW t \in Threads, Hook(t) PROVE ExitInv'
  <2>1. t \in live /\ fate' = fate
    BY <1>3 DEF Hook, SameFile, OtherFile, FdToPath, Notify, Dispatch
  <2>2. \A u \in Threads : u # t => batch'[u] = batch[u]
    BY <1>0, <1>3 DEF Hook, SameFile, OtherFile, FdToPath, Notify, Dispatch, Record
  <2>3. QED
    BY <2>1, <2>2, OwnBatch
<1>4. ASSUME NEW t \in Threads, close_common(t, Fds),
             \A u \in Threads : u # t /\ fate'[u] \in {"exit", "fini"} => fate'[u] = fate[u]
      PROVE  ExitInv'
  <2>1. /\ \A u \in Threads : u # t => batch'[u] = batch[u]
        /\ NoneOpen(t)'
    BY <1>4, CloseAll
  <2>2. ASSUME NEW u \in Threads, fate'[u] \in {"exit", "fini"}
        PROVE  \A o \in Ops : batch'[u][o].fd = NoFd
    <3>1. CASE u = t
      BY <2>1, <3>1 DEF NoneOpen
    <3>2. CASE u # t
      BY <1>4, <2>1, <2>2, <3>2 DEF ExitInv, NoneOpen
    <3> QED BY <3>1, <3>2
  <2> QED BY <2>2 DEF ExitInv, NoneOpen
<1>5. ASSUME NEW t \in Threads, ThreadExit(t) PROVE ExitInv'
  BY <1>0, <1>4, <1>5 DEF ThreadExit
<1>6. ASSUME NEW t \in Threads, ProcessExit(t) PROVE ExitInv'
  <2>1. \A u \in Threads : u # t => fate'[u] \in {"cut", fate[u]}
    BY <1>6 DEF ProcessExit
  <2> QED BY <1>4, <1>6, <2>1 DEF ProcessExit
<1>7. ASSUME NEW t \in Threads, ThreadReturn(t) PROVE ExitInv'
  <2>1. batch' = batch /\ \A u \in Threads : fate'[u] \in {"return", fate[u]}
    BY <1>0, <1>7 DEF ThreadReturn
  <2> QED BY <2>1 DEF ExitInv, NoneOpen
<1>8. ASSUME NEW t \in Threads, NEW fd \in Fds, Close(t, fd) PROVE ExitInv'
  <2>1. t \in live /\ fate' = fate /\ close_common(t, {fd})
    BY <1>8 DEF Close, Free
  <2>2. \A u \in Threads : u # t => batch'[u] = batch[u]
    BY <2>1, CloseAll
  <2>3. QED
    BY <2>1, <2>2, OwnBatch
<1>9. ASSUME NEW t \in Threads, NEW fd \in Fds,
             \/ \E f \in Files : Open(t, fd, f)
             \/ \E o \in Offsets : Lseek(t, fd, o)
             \/ \E op \in Ops, n \in Sizes :
                  \/ ReadWrite(t, op, fd, n)
                  \/ \E k \in Fills : FreadFwrite(t, op, fd, n, k)
                  \/ \E o \in Offsets : PreadPwrite(t, op, fd, n, o)
      PROVE  ExitInv'
  <2>1. batch' = batch /\ fate' = fate
    BY <1>9 DEF Open, Lseek, ReadWrite, FreadFwrite, PreadPwrite, Called
  <2>2. QED
    BY <1>1, <2>1
<1>10. QED
  BY <1>2, <1>3, <1>5, <1>6, <1>7, <1>8, <1>9 DEF Next

(* pthread_exit() and fini() dispatch: what a thread recorded that ended   *)
(* in pthread_exit(), and what the thread recorded in which fini() ran, is *)
(* in records, in every hook.  Nothing is said of the threads that end in  *)
(* another way (they return, or the process exits under them).             *)
THEOREM ExitsDispatch == Spec => []ExitDispatches
<1>1. Init => ExitInv
  BY DEF Init, ExitInv
<1>2. ASSUME BatchInv, NEW t \in Threads, NoneOpen(t) PROVE Dispatched(t)
  BY <1>2 DEF BatchInv, HookInv, NoneOpen, Dispatched
<1>3. BatchInv /\ ExitInv => ExitDispatches
  BY <1>2 DEF ExitInv, ExitDispatches
<1>4. QED
  BY <1>1, <1>3, ExitNext, BatchTypes, BatchInvariant, PTL DEF Spec

-----------------------------------------------------------------------------
(* What one step does to a hook, for the theorems below.                   *)

(* A hook with batch b, records r and n accesses becomes one with b2, r2   *)
(* and n2: nothing happens, fd_to_path() writes a path, the batch is       *)
(* closed, or access x is recorded.                                        *)
HookStep(b, r, n, b2, r2, n2, x) ==
  \/ b2 = b /\ r2 = r /\ n2 = n
  \/ n2 = n /\ r2 = r /\ \E f \in Files : b2 = [b EXCEPT !.path = f]
  \/ n2 = n /\ b.fd \in Fds /\ b2 = [b EXCEPT !.fd = NoFd] /\ r2 = Append(r, b)
  \/ /\ n2 = n + 1 /\ x \in Accesses /\ x.id = n + 1
     /\ \E fd \in Fds :
          \/ b.fd = fd /\ b2 = batch_read_write_first(b, fd, x) /\ r2 = r \o FirstEmits(b, x)
          \/ b2 = Restart(b, fd, x) /\ r2 = r \o Emitted(b)

(* The blocks of the extent are those that batch.c computes for the        *)
(* accesses.                                                               *)
Exact(b) ==
  \A z \in Int :
    b.off <= z /\ z <= Last(b) <=>
      \E j \in 1 .. Len(b.accs) : curr_start(b.accs[j]) <= z /\ z <= curr_end(b.accs[j])

(* As long as a hook has recorded no more accesses than the string holds,  *)
(* no extent was stretched by an access that was merged into a full one.   *)
ExactHook(b, r, n) ==
  /\ Len(b.accs) <= n
  /\ n <= Cap => Exact(b) /\ \A i \in 1 .. Len(r) : Exact(r[i])

ExactInv == \A t \in Threads, o \in Ops : ExactHook(batch[t][o], out[t][o], cnt[t][o])

(* A hook records no more accesses than there were calls. *)
CountInv ==
  /\ total <= MaxAccess
  /\ \A t \in Threads, o \in Ops :
       /\ cnt[t][o] <= total
       /\ call[t] # NULL /\ call[t].op = o => cnt[t][o] < total

(* Every access of a batch b and of records r is in history h. *)
InHistory(h, a) ==
  a.id \in 1 .. Len(h) /\ h[a.id] = [off |-> a.off, n |-> a.n]
AllInHistory(b, r, h) ==
  /\ \A j \in 1 .. Len(b.accs) : InHistory(h, b.accs[j])
  /\ \A i \in 1 .. Len(r) : \A j \in 1 .. Len(r[i].accs) : InHistory(h, r[i].accs[j])

(* Nobody else changes a descriptor during the call of a thread: what the  *)
(* hook finds out of it afterwards is still so.                            *)
CallInv(t) ==
  LET c == call[t]
      traced == c.file \in Traced \cap Regular
  IN
  c # NULL =>
    /\ fdtab[c.fd] = c.file
    /\ c.op \in PosOps \/ pos[c.fd] = c.off + c.n
    /\ traced => /\ Len(hist[t][c.op]) = cnt[t][c.op] + 1
                 /\ hist[t][c.op][cnt[t][c.op] + 1] = [off |-> c.off, n |-> c.n]
    /\ ~traced => Len(hist[t][c.op]) = cnt[t][c.op]
    /\ c.at = "notify" => batch[t][c.op].path = c.file
    /\ c.at = "dispatch" => traced

HistInv ==
  \A t \in Threads :
    /\ CallInv(t)
    /\ \A o \in Ops :
         /\ batch[t][o].fd # NoFd => fdtab[batch[t][o].fd] \in Traced \cap Regular
         /\ AllInHistory(batch[t][o], out[t][o], hist[t][o])
         /\ ~(call[t] # NULL /\ call[t].op = o) => Len(hist[t][o]) = cnt[t][o]

(* Every step does one of these to every hook, and records only the access *)
(* that the thread is making.                                              *)
LEMMA StepOfHook ==
  ASSUME Inv, [Next]_vars, NEW u \in Threads, NEW o \in Ops
  PROVE  /\ HookStep(batch[u][o], out[u][o], cnt[u][o], batch'[u][o], out'[u][o], cnt'[u][o],
                     Access(u, call[u]))
         /\ cnt'[u][o] # cnt[u][o] => /\ call[u] # NULL /\ call[u].op = o /\ call'[u] = NULL
                                      /\ UNCHANGED <<fdtab, pos, hist, total>>
<1> DEFINE Goal == /\ HookStep(batch[u][o], out[u][o], cnt[u][o], batch'[u][o], out'[u][o],
                               cnt'[u][o], Access(u, call[u]))
                   /\ cnt'[u][o] # cnt[u][o] => /\ call[u] # NULL /\ call[u].op = o
                                                /\ call'[u] = NULL
                                                /\ UNCHANGED <<fdtab, pos, hist, total>>
<1>0. /\ batch \in [Threads -> [Ops -> Batches]] /\ out \in [Threads -> [Ops -> Seq(Batches)]]
      /\ cnt \in [Threads -> [Ops -> Nat]] /\ call \in [Threads -> Calls \cup {NULL}]
  BY DEF Inv, TypeOK
<1>1. ASSUME batch'[u][o] = batch[u][o], out'[u][o] = out[u][o], cnt'[u][o] = cnt[u][o]
      PROVE  Goal
  BY <1>1 DEF HookStep
<1>2. ASSUME NEW t \in Threads, SameFile(t) PROVE Goal
  <2>1. PICK c : c = call[t]
    OBVIOUS
  <2>2. PICK b : b = batch[t][c.op]
    OBVIOUS
  <2>3. PICK x : x = Access(t, c)
    OBVIOUS
  <2>4. /\ c # NULL /\ b.fd = c.fd /\ x.off >= 0
        /\ Record(t, c.op, batch_read_write_first(b, c.fd, x), FirstEmits(b, x), Handled(b, x))
        /\ call' = [call EXCEPT ![t] = IF Handled(b, x) THEN NULL ELSE [c EXCEPT !.at = "path"]]
        /\ UNCHANGED <<fdtab, pos, hist, total>>
    BY <1>2, <2>1, <2>2, <2>3 DEF SameFile
  <2>5. c \in Calls /\ x \in Accesses /\ x.id = cnt[t][c.op] + 1
    BY <2>1, <2>3, <2>4, AccessType
  <2>6. c.op \in Ops /\ c.fd \in Fds /\ b \in Batches
    BY <1>0, <2>2, <2>5 DEF Calls
  <2>7. Handled(b, x) = TRUE
    BY <2>5, <2>6, FirstHandles DEF Handled, Apart, Inside, Beyond, Around, Before
  <2>8. CASE u = t /\ o = c.op
    <3>1. /\ batch'[u][o] = batch_read_write_first(b, c.fd, x)
          /\ out'[u][o] = out[u][o] \o FirstEmits(b, x) /\ cnt'[u][o] = cnt[u][o] + 1
      BY <1>0, <2>4, <2>6, <2>7, <2>8 DEF Record
    <3>2. call'[u] = NULL
      BY <1>0, <2>4, <2>7, <2>8
    <3> QED BY <2>1, <2>2, <2>3, <2>4, <2>5, <2>6, <2>8, <3>1, <3>2 DEF HookStep
  <2>9. CASE ~(u = t /\ o = c.op)
    <3>1. batch'[u][o] = batch[u][o] /\ out'[u][o] = out[u][o] /\ cnt'[u][o] = cnt[u][o]
      BY <1>0, <2>4, <2>7, <2>9 DEF Record
    <3> QED BY <1>1, <3>1
  <2> QED BY <2>8, <2>9
<1>3. ASSUME NEW t \in Threads, Dispatch(t) PROVE Goal
  <2>1. PICK c : c = call[t]
    OBVIOUS
  <2>2. PICK b : b = batch[t][c.op]
    OBVIOUS
  <2>3. PICK x : x = Access(t, c)
    OBVIOUS
  <2>4. /\ c # NULL
        /\ IF x.off >= 0
             THEN Record(t, c.op, Restart(b, c.fd, x), Emitted(b), TRUE)
             ELSE UNCHANGED <<batch, out, cnt>>
        /\ call' = [call EXCEPT ![t] = NULL]
        /\ UNCHANGED <<fdtab, pos, hist, total>>
    BY <1>3, <2>1, <2>2, <2>3 DEF Dispatch
  <2>5. CASE ~(x.off >= 0)
    BY <1>1, <2>4, <2>5
  <2>6. CASE x.off >= 0
    <3>1. c \in Calls /\ x \in Accesses /\ x.id = cnt[t][c.op] + 1
      BY <2>1, <2>3, <2>4, <2>6, AccessType
    <3>2. c.op \in Ops /\ c.fd \in Fds
      BY <3>1 DEF Calls
    <3>3. CASE u = t /\ o = c.op
      <4>1. /\ batch'[u][o] = Restart(b, c.fd, x)
            /\ out'[u][o] = out[u][o] \o Emitted(b) /\ cnt'[u][o] = cnt[u][o] + 1
        BY <1>0, <2>4, <2>6, <3>2, <3>3 DEF Record
      <4>2. call'[u] = NULL
        BY <1>0, <2>4, <3>3
      <4> QED BY <2>1, <2>2, <2>3, <2>4, <3>1, <3>2, <3>3, <4>1, <4>2 DEF HookStep
    <3>4. CASE ~(u = t /\ o = c.op)
      <4>1. batch'[u][o] = batch[u][o] /\ out'[u][o] = out[u][o] /\ cnt'[u][o] = cnt[u][o]
        BY <1>0, <2>4, <2>6, <3>4 DEF Record
      <4> QED BY <1>1, <4>1
    <3> QED BY <3>3, <3>4
  <2> QED BY <2>5, <2>6
<1>4. ASSUME NEW t \in Threads, FdToPath(t) PROVE Goal
  <2>1. PICK c : c = call[t]
    OBVIOUS
  <2>2. PICK f : f = fdtab[c.fd]
    OBVIOUS
  <2>3. /\ c # NULL /\ out' = out /\ cnt' = cnt
        /\ batch' = IF f = NULL THEN batch ELSE [batch EXCEPT ![t][c.op].path = f]
    BY <1>4, <2>1, <2>2 DEF FdToPath
  <2>4. c \in Calls /\ c.op \in Ops /\ c.fd \in Fds
    BY <1>0, <2>1, <2>3 DEF Calls
  <2>5. f \in Files \cup {NULL}
    BY <2>2, <2>4 DEF Inv, TypeOK
  <2>6. CASE f # NULL /\ u = t /\ o = c.op
    <3>1. batch'[u][o] = [batch[u][o] EXCEPT !.path = f]
      BY <1>0, <2>3, <2>4, <2>6
    <3> QED BY <2>3, <2>5, <2>6, <3>1 DEF HookStep
  <2>7. CASE ~(f # NULL /\ u = t /\ o = c.op)
    <3>1. batch'[u][o] = batch[u][o]
      BY <1>0, <2>3, <2>4, <2>7
    <3> QED BY <1>1, <2>3, <3>1
  <2> QED BY <2>6, <2>7
<1>5. ASSUME NEW t \in Threads, NEW S \in SUBSET Fds, close_common(t, S), cnt' = cnt PROVE Goal
  <2>1. PICK b \in Batches : b = batch[u][o]
    BY <1>0
  <2>2. CASE u = t /\ b.fd \in S
    <3>1. batch'[u][o] = [b EXCEPT !.fd = NoFd] /\ out'[u][o] = Append(out[u][o], b)
      BY <1>0, <1>5, <2>1, <2>2 DEF close_common, Closes, Closed, Logged
    <3> QED BY <1>5, <2>1, <2>2, <3>1 DEF HookStep
  <2>3. CASE ~(u = t /\ b.fd \in S)
    <3>1. batch'[u][o] = batch[u][o] /\ out'[u][o] = out[u][o]
      BY <1>0, <1>5, <2>1, <2>3 DEF close_common, Closes, Closed, Logged
    <3> QED BY <1>1, <1>5, <3>1
  <2> QED BY <2>2, <2>3
<1>6. ASSUME UNCHANGED <<batch, out, cnt>> PROVE Goal
  BY <1>1, <1>6
<1> HIDE DEF Goal
<1>7. ASSUME NEW t \in Threads, Hook(t) PROVE Goal
  BY <1>2, <1>3, <1>4, <1>6, <1>7 DEF Hook, OtherFile, Notify
<1>8. ASSUME NEW t \in Threads, ThreadExit(t) \/ ProcessExit(t) PROVE Goal
  BY <1>5, <1>8 DEF ThreadExit, ProcessExit
<1>8a. ASSUME NEW t \in Threads, ThreadReturn(t) PROVE Goal
  BY <1>6, <1>8a DEF ThreadReturn
<1>9. ASSUME NEW t \in Threads, NEW fd \in Fds, Close(t, fd) PROVE Goal
  BY <1>5, <1>9 DEF Close
<1>10. ASSUME NEW t \in Threads, NEW fd \in Fds,
              \/ \E f \in Files : Open(t, fd, f)
              \/ \E p \in Offsets : Lseek(t, fd, p)
              \/ \E op \in Ops, n \in Sizes :
                   \/ ReadWrite(t, op, fd, n)
                   \/ \E k \in Fills : FreadFwrite(t, op, fd, n, k)
                   \/ \E p \in Offsets : PreadPwrite(t, op, fd, n, p)
       PROVE  Goal
  <2>1. UNCHANGED <<batch, out, cnt>>
    BY <1>10 DEF Open, Lseek, ReadWrite, FreadFwrite, PreadPwrite, Called
  <2> QED BY <1>6, <2>1
<1>11. ASSUME Done \/ UNCHANGED vars PROVE Goal
  BY <1>6, <1>11 DEF Done, vars
<1>12. Goal
  BY <1>7, <1>8, <1>8a, <1>9, <1>10, <1>11 DEF Next
<1> QED BY <1>12 DEF Goal

-----------------------------------------------------------------------------
(* The extent is the union of the block ranges of its accesses.            *)

(* A batch of one access. *)
LEMMA ExactOne ==
  ASSUME NEW c, NEW x \in Accesses, c.accs = <<x>>, c.off = curr_start(x),
         c.size = curr_end(x) - curr_start(x) + 1
  PROVE  Exact(c)
<1>1. curr_start(x) \in Int /\ curr_end(x) \in Int
  BY BlockType
<1>2. Last(c) = curr_end(x)
  BY <1>1 DEF Last
<1>3. Len(c.accs) = 1 /\ c.accs[1] = x
  OBVIOUS
<1> QED BY <1>1, <1>2, <1>3 DEF Exact

(* An access that overlaps or adjoins the extent is merged without a gap.  *)
LEMMA ExactMerged ==
  ASSUME NEW b \in Batches, NEW fd \in Fds, NEW x \in Accesses, b.fd = fd, b.size >= 1,
         Exact(b), ~Apart(b, x), ~Full(b)
  PROVE  Exact(batch_read_write_first(b, fd, x))
<1> DEFINE s == curr_start(x)
           e == curr_end(x)
<1>0. s \in Int /\ e \in Int /\ s <= e
  BY BlockType, BlocksOrdered
<1>1. /\ b.off \in Int /\ b.size \in Int /\ Last(b) \in Int /\ Last(b) = b.off + b.size - 1
      /\ b.accs \in Seq(Accesses)
  BY DEF Batches, Last
<1>2. PICK d : d = batch_read_write_first(b, fd, x)
  OBVIOUS
<1>3. PICK c : c = Recorded(b, fd, x)
  OBVIOUS
<1>4. c.accs = Append(b.accs, x) /\ c.off = b.off /\ c.size = b.size /\ Last(c) = Last(b)
  BY <1>3 DEF Recorded, Last
<1>5. /\ d.accs = Append(b.accs, x) /\ d.off \in Int /\ Last(d) \in Int
      /\ \A z \in Int : d.off <= z /\ z <= Last(d) <=>
                          (b.off <= z /\ z <= Last(b)) \/ (s <= z /\ z <= e)
  <2>1. CASE Inside(b, x)
    <3>1. d = c
      BY <1>2, <1>3, <2>1 DEF batch_read_write_first
    <3>2. s >= b.off /\ e <= Last(b)
      BY <2>1 DEF Inside
    <3> QED BY <1>0, <1>1, <1>4, <3>1, <3>2
  <2>2. CASE ~Inside(b, x) /\ Beyond(b, x)
    <3>1. d = Resized(c, c.off, c.size + (e - Last(b)))
      BY <1>2, <1>3, <2>2 DEF batch_read_write_first
    <3>2. d.accs = c.accs /\ d.off = b.off /\ Last(d) = e
      <4>1. d.accs = c.accs /\ d.off = b.off /\ d.size = b.size + (e - Last(b))
        BY <1>4, <3>1 DEF Resized
      <4>2. Last(d) = b.off + (b.size + (e - Last(b))) - 1
        BY <4>1 DEF Last
      <4> HIDE DEF e
      <4> QED BY <1>0, <1>1, <4>1, <4>2
    <3>3. s >= b.off /\ s <= Last(b) + 1 /\ e >= Last(b) + 1
      BY <2>2 DEF Beyond
    <3> QED BY <1>0, <1>1, <1>4, <3>2, <3>3
  <2>3. CASE ~Inside(b, x) /\ ~Beyond(b, x) /\ Around(b, x)
    <3>1. d = Resized(c, s, e - s + 1)
      BY <1>2, <1>3, <2>3 DEF batch_read_write_first
    <3>2. d.accs = c.accs /\ d.off = s /\ Last(d) = e
      BY <1>0, <3>1 DEF Resized, Last
    <3>3. s <= b.off /\ e >= Last(b)
      BY <2>3 DEF Around
    <3> QED BY <1>0, <1>1, <1>4, <3>2, <3>3
  <2>4. CASE ~Inside(b, x) /\ ~Beyond(b, x) /\ ~Around(b, x)
    <3>0. Before(b, x)
      BY <2>4, FirstHandles DEF Handled
    <3>1. d = Resized(c, s, c.size + (b.off - s))
      BY <1>2, <1>3, <2>4, <3>0 DEF batch_read_write_first
    <3>2. d.accs = c.accs /\ d.off = s /\ Last(d) = Last(b)
      BY <1>0, <1>1, <1>4, <3>1 DEF Resized, Last
    <3>3. s < b.off /\ e >= b.off - 1 /\ e <= Last(b)
      BY <3>0 DEF Before
    <3> QED BY <1>0, <1>1, <1>4, <3>2, <3>3
  <2> QED BY <2>1, <2>2, <2>3, <2>4
<1>6. ASSUME NEW z \in Int
      PROVE  (\E j \in 1 .. Len(d.accs) : curr_start(d.accs[j]) <= z /\ z <= curr_end(d.accs[j]))
               <=> \/ \E j \in 1 .. Len(b.accs) : curr_start(b.accs[j]) <= z /\ z <= curr_end(b.accs[j])
                   \/ s <= z /\ z <= e
  <2>1. PICK n \in Nat : n = Len(b.accs)
    BY <1>1
  <2>2. Len(d.accs) = n + 1 /\ d.accs[n + 1] = x /\ \A j \in 1 .. n : d.accs[j] = b.accs[j]
    BY <1>1, <1>5, <2>1
  <2> QED BY <2>1, <2>2, SMTT(60)
<1>7. Exact(d)
  BY <1>5, <1>6 DEF Exact
<1> QED BY <1>2, <1>7

(* Only the extent and the accesses matter. *)
LEMMA ExactSame ==
  ASSUME NEW b, NEW c, c.off = b.off, c.size = b.size, c.accs = b.accs, Exact(b)
  PROVE  Exact(c)
BY DEF Exact, Last

(* What a step makes of it. *)
LEMMA ExactStep ==
  ASSUME NEW b \in Batches, NEW r \in Seq(Batches), NEW n \in Nat, HookInv(b, r, n),
         ExactHook(b, r, n), NEW b2, NEW r2, NEW n2, NEW x,
         HookStep(b, r, n, b2, r2, n2, x)
  PROVE  ExactHook(b2, r2, n2)
<1>0. b.accs \in Seq(Accesses) /\ Len(b.accs) \in Nat /\ Cap \in Nat \ {0}
  BY BatchAssumption DEF Batches
<1>1. CASE b2 = b /\ r2 = r /\ n2 = n
  BY <1>1
<1>2. CASE n2 = n /\ r2 = r /\ \E f \in Files : b2 = [b EXCEPT !.path = f]
  <2>1. b2.off = b.off /\ b2.size = b.size /\ b2.accs = b.accs
    BY <1>2 DEF Batches
  <2>2. n <= Cap => Exact(b2)
    BY <2>1, ExactSame DEF ExactHook
  <2> QED BY <1>2, <2>1, <2>2 DEF ExactHook
<1>3. ASSUME n2 <= Cap, r2 = r \/ r2 = Append(r, b), n2 \in {n, n + 1}
      PROVE  \A i \in 1 .. Len(r2) : Exact(r2[i])
  <2>1. Exact(b) /\ \A i \in 1 .. Len(r) : Exact(r[i])
    BY <1>0, <1>3 DEF ExactHook
  <2>2. CASE r2 = r
    BY <2>1, <2>2
  <2>3. CASE r2 = Append(r, b)
    <3>1. PICK m \in Nat : m = Len(r)
      OBVIOUS
    <3>2. Len(r2) = m + 1 /\ r2[m + 1] = b /\ \A i \in 1 .. m : r2[i] = r[i]
      BY <2>3, <3>1
    <3> QED BY <2>1, <3>1, <3>2
  <2> QED BY <1>3, <2>2, <2>3
<1>4. CASE n2 = n /\ b.fd \in Fds /\ b2 = [b EXCEPT !.fd = NoFd] /\ r2 = Append(r, b)
  <2>1. b2.off = b.off /\ b2.size = b.size /\ b2.accs = b.accs
    BY <1>4 DEF Batches
  <2>2. n <= Cap => Exact(b2)
    BY <2>1, ExactSame DEF ExactHook
  <2> QED BY <1>3, <1>4, <2>1, <2>2 DEF ExactHook
<1>5. ASSUME n2 = n + 1, x \in Accesses, NEW fd \in Fds, b.fd = fd,
             b2 = batch_read_write_first(b, fd, x), r2 = r \o FirstEmits(b, x)
      PROVE  ExactHook(b2, r2, n2)
  <2>1. b.size >= 1 /\ b.fd # NoFd /\ Covers(b)
    BY <1>5, BatchAssumption DEF HookInv
  <2>2. b2.accs = IF Apart(b, x) \/ Full(b) THEN <<x>> ELSE Append(b.accs, x)
    BY <1>5, <2>1, FirstFacts
  <2>3. Len(b2.accs) <= n2
    <3>1. Len(b.accs) <= n
      BY DEF ExactHook
    <3> QED BY <1>0, <1>5, <2>2, <3>1
  <2>4. r2 = r \/ r2 = Append(r, b)
    BY <1>5 DEF FirstEmits, Emitted
  <2>5. ASSUME n2 <= Cap PROVE Exact(b2)
    <3>1. ~Full(b) /\ Exact(b)
      BY <1>0, <1>5, <2>5 DEF ExactHook, Full
    <3>2. CASE Apart(b, x)
      <4>1. b2 = Restart(b, fd, x)
        BY <1>5, <3>2 DEF batch_read_write_first
      <4> QED BY <1>5, <4>1, RestartFacts, ExactOne
    <3>3. CASE ~Apart(b, x)
      BY <1>5, <2>1, <3>1, <3>3, ExactMerged
    <3> QED BY <3>2, <3>3
  <2> QED BY <1>3, <1>5, <2>3, <2>4, <2>5 DEF ExactHook
<1>6. ASSUME n2 = n + 1, x \in Accesses, NEW fd \in Fds, b2 = Restart(b, fd, x),
             r2 = r \o Emitted(b)
      PROVE  ExactHook(b2, r2, n2)
  <2>1. Exact(b2) /\ b2.accs = <<x>>
    BY <1>6, RestartFacts, ExactOne
  <2>2. r2 = r \/ r2 = Append(r, b)
    BY <1>6 DEF Emitted
  <2>3. Len(b2.accs) <= n2
    BY <1>6, <2>1
  <2> QED BY <1>3, <1>6, <2>1, <2>2, <2>3 DEF ExactHook
<1> QED BY <1>1, <1>2, <1>4, <1>5, <1>6 DEF HookStep

(* While a hook has recorded no more accesses than the access string has   *)
(* room for, the extent of its batch and of every record is the union of   *)
(* the block ranges that batch.c computes for their accesses.  For any     *)
(* number of threads, whatever they do to descriptors.                     *)
LEMMA ExactUntilFull == Spec => []ExactInv
<1>1. Init => ExactInv
  <2>1. Exact(NoBatch)
    BY DEF Exact, NoBatch, Last
  <2>2. ExactHook(NoBatch, <<>>, 0)
    BY <2>1 DEF ExactHook, NoBatch
  <2> QED BY <2>2 DEF Init, ExactInv
<1>2. ASSUME Inv, ExactInv, [Next]_vars PROVE ExactInv'
  <2>1. ASSUME NEW u \in Threads, NEW o \in Ops
        PROVE  ExactHook(batch'[u][o], out'[u][o], cnt'[u][o])
    <3>1. /\ batch[u][o] \in Batches /\ out[u][o] \in Seq(Batches) /\ cnt[u][o] \in Nat
          /\ HookInv(batch[u][o], out[u][o], cnt[u][o])
      BY <1>2 DEF Inv, TypeOK, BatchInv
    <3>2. ExactHook(batch[u][o], out[u][o], cnt[u][o])
      BY <1>2 DEF ExactInv
    <3>3. HookStep(batch[u][o], out[u][o], cnt[u][o], batch'[u][o], out'[u][o], cnt'[u][o],
                   Access(u, call[u]))
      BY <1>2, StepOfHook
    <3> QED BY <3>1, <3>2, <3>3, ExactStep
  <2> QED BY <2>1 DEF ExactInv
<1> QED BY <1>1, <1>2, InvAlways, PTL DEF Spec

(* What a step does to the call of a thread, and to the number of calls. *)
LEMMA StepOfCall ==
  ASSUME Inv, [Next]_vars, NEW u \in Threads
  PROVE  /\ total' = total \/ (total' = total + 1 /\ total < MaxAccess)
         /\ call'[u] # NULL => \/ call[u] # NULL /\ call'[u].op = call[u].op
                               \/ total' = total + 1
<1> DEFINE Goal == /\ total' = total \/ (total' = total + 1 /\ total < MaxAccess)
                   /\ call'[u] # NULL => \/ call[u] # NULL /\ call'[u].op = call[u].op
                                         \/ total' = total + 1
<1>0. call \in [Threads -> Calls \cup {NULL}]
  BY DEF Inv, TypeOK
<1>1. ASSUME total' = total, call'[u] \in {call[u], NULL} PROVE Goal
  BY <1>1
<1>2. ASSUME NEW t \in Threads, call[t] # NULL, total' = total, NEW w \in {"path", "notify", "dispatch"},
             call' = [call EXCEPT ![t] = NULL] \/ call' = [call EXCEPT ![t] = [call[t] EXCEPT !.at = w]]
      PROVE  Goal
  <2>1. call[t] \in Calls
    BY <1>0, <1>2
  <2>2. PICK d : d = [call[t] EXCEPT !.at = w]
    OBVIOUS
  <2>3. d.op = call[t].op
    BY <2>1, <2>2 DEF Calls
  <2>4. call'[u] \in {call[u], NULL} \/ (u = t /\ call'[u] = d)
    BY <1>0, <1>2, <2>2
  <2> QED BY <1>1, <1>2, <2>3, <2>4
<1>3. ASSUME NEW t \in Threads, SameFile(t) PROVE Goal
  BY <1>2, <1>3 DEF SameFile
<1>4. ASSUME NEW t \in Threads, OtherFile(t) PROVE Goal
  BY <1>2, <1>4 DEF OtherFile
<1>5. ASSUME NEW t \in Threads, FdToPath(t) PROVE Goal
  BY <1>2, <1>5 DEF FdToPath
<1>6. ASSUME NEW t \in Threads, Notify(t) PROVE Goal
  BY <1>2, <1>6 DEF Notify
<1>7. ASSUME NEW t \in Threads, Dispatch(t) PROVE Goal
  BY <1>2, <1>7 DEF Dispatch
<1>8. ASSUME NEW t \in Threads, ThreadExit(t) \/ ThreadReturn(t) \/ ProcessExit(t) PROVE Goal
  BY <1>1, <1>8 DEF ThreadExit, ThreadReturn, ProcessExit
<1>9. ASSUME NEW t \in Threads, NEW fd \in Fds,
             \/ Close(t, fd)
             \/ \E f \in Files : Open(t, fd, f)
             \/ \E p \in Offsets : Lseek(t, fd, p)
      PROVE  Goal
  BY <1>1, <1>9 DEF Close, Open, Lseek
<1>10. ASSUME NEW t \in Threads, NEW fd \in Fds, NEW op \in Ops, NEW n \in Sizes,
              \/ ReadWrite(t, op, fd, n)
              \/ \E k \in Fills : FreadFwrite(t, op, fd, n, k)
              \/ \E p \in Offsets : PreadPwrite(t, op, fd, n, p)
       PROVE  Goal
  <2>1. \E p : Called(t, op, fd, n, p)
    BY <1>10 DEF ReadWrite, FreadFwrite, PreadPwrite
  <2>2. total' = total + 1 /\ total < MaxAccess
    BY <2>1 DEF Called
  <2> QED BY <2>2
<1>11. ASSUME Done \/ UNCHANGED vars PROVE Goal
  BY <1>1, <1>11 DEF Done, vars
<1> HIDE DEF Goal
<1>12. Goal
  BY <1>3, <1>4, <1>5, <1>6, <1>7, <1>8, <1>9, <1>10, <1>11 DEF Next, Hook
<1> QED BY <1>12 DEF Goal

(* No hook records more accesses than there were calls. *)
LEMMA CountAlways == Spec => []CountInv
<1>1. Init => CountInv
  BY BatchAssumption DEF Init, CountInv
<1>2. ASSUME Inv, CountInv, [Next]_vars PROVE CountInv'
  <2>0. total \in Nat /\ MaxAccess \in Nat /\ cnt \in [Threads -> [Ops -> Nat]]
    BY <1>2, BatchAssumption DEF Inv, TypeOK
  <2>1. ASSUME NEW u \in Threads, NEW o \in Ops
        PROVE  /\ cnt'[u][o] <= total' /\ total' <= MaxAccess
               /\ call'[u] # NULL /\ call'[u].op = o => cnt'[u][o] < total'
    <3>1. /\ total' = total \/ (total' = total + 1 /\ total < MaxAccess)
          /\ call'[u] # NULL => \/ call[u] # NULL /\ call'[u].op = call[u].op
                                \/ total' = total + 1
      BY <1>2, StepOfCall
    <3>2. cnt'[u][o] # cnt[u][o] => /\ call[u] # NULL /\ call[u].op = o /\ call'[u] = NULL
                                    /\ total' = total
      BY <1>2, StepOfHook
    <3>3. cnt'[u][o] \in {cnt[u][o], cnt[u][o] + 1}
      BY <1>2, StepOfHook DEF HookStep
    <3>4. /\ total <= MaxAccess /\ cnt[u][o] <= total /\ cnt[u][o] \in Nat
          /\ call[u] # NULL /\ call[u].op = o => cnt[u][o] < total
      BY <1>2, <2>0 DEF CountInv
    <3> QED BY <2>0, <3>1, <3>2, <3>3, <3>4
  <2>2. total' <= MaxAccess
    <3>1. PICK u : u \in Threads
      BY BatchAssumption
    <3>2. total' = total \/ (total' = total + 1 /\ total < MaxAccess)
      BY <1>2, <3>1, StepOfCall
    <3> QED BY <1>2, <2>0, <3>2 DEF CountInv
  <2> QED BY <2>1, <2>2 DEF CountInv
<1> QED BY <1>1, <1>2, InvAlways, PTL DEF Spec

(* Where the access string has room for all the accesses, an extent starts *)
(* with a block that an access touched, contains all of them, and each of  *)
(* its other blocks follows a touched one.                                 *)
THEOREM ExtentsExact ==
  ASSUME MaxAccess <= Cap
  PROVE  Spec => []ExtentExact
<1>1. ASSUME NEW b \in Batches, Exact(b), b.accs # <<>>, AllTouched(b) \subseteq b.off .. Last(b)
      PROVE  /\ b.off \in AllTouched(b)
             /\ \A k \in b.off .. Last(b) : k \in AllTouched(b) \/ k - 1 \in AllTouched(b)
  <2>1. b.off \in Int /\ Last(b) \in Int /\ b.accs \in Seq(Accesses)
    BY DEF Batches, Last
  <2>2. ASSUME NEW k \in b.off .. Last(b)
        PROVE  \E j \in 1 .. Len(b.accs) : curr_start(b.accs[j]) <= k /\ k <= curr_end(b.accs[j])
    BY <1>1, <2>1, <2>2 DEF Exact
  <2>3. ASSUME NEW j \in 1 .. Len(b.accs)
        PROVE  \E last \in Int :
                 /\ curr_start(b.accs[j]) \in Int /\ curr_start(b.accs[j]) <= last
                 /\ curr_end(b.accs[j]) \in Int /\ curr_end(b.accs[j]) <= last + 1
                 /\ \A z \in curr_start(b.accs[j]) .. last : z \in AllTouched(b)
    <3>1. PICK x \in Accesses : x = b.accs[j]
      BY <2>1
    <3>2. PICK last \in Int : /\ last = (x.off + x.n - 1) \div BlkSize
                              /\ curr_start(x) = x.off \div BlkSize /\ curr_start(x) <= last
                              /\ curr_end(x) <= last + 1
      BY RangeOfTouched
    <3>3. curr_start(x) \in Int /\ curr_end(x) \in Int
      BY BlockType
    <3>4. ASSUME NEW z \in curr_start(x) .. last PROVE z \in AllTouched(b)
      BY <3>1, <3>2, <3>4 DEF Touched, AllTouched
    <3> QED BY <3>1, <3>2, <3>3, <3>4
  <2>4. ASSUME NEW k \in b.off .. Last(b) PROVE k \in AllTouched(b) \/ k - 1 \in AllTouched(b)
    <3>1. PICK j \in 1 .. Len(b.accs) : curr_start(b.accs[j]) <= k /\ k <= curr_end(b.accs[j])
      BY <2>2
    <3>2. PICK last \in Int :
            /\ curr_start(b.accs[j]) \in Int /\ curr_start(b.accs[j]) <= last
            /\ curr_end(b.accs[j]) \in Int /\ curr_end(b.accs[j]) <= last + 1
            /\ \A z \in curr_start(b.accs[j]) .. last : z \in AllTouched(b)
      BY <2>3
    <3>3. k \in Int
      BY <2>1
    <3>4. CASE k <= last
      BY <3>1, <3>2, <3>3, <3>4
    <3>5. CASE k = last + 1
      <4>1. k - 1 \in curr_start(b.accs[j]) .. last
        BY <3>2, <3>3, <3>5
      <4> QED BY <3>2, <4>1
    <3> QED BY <3>1, <3>2, <3>3, <3>4, <3>5
  <2>5. b.off \in AllTouched(b)
    <3>1. 1 \in 1 .. Len(b.accs)
      BY <1>1, <2>1
    <3>2. PICK s : s \in AllTouched(b)
      <4>1. PICK last \in Int :
              /\ curr_start(b.accs[1]) \in Int /\ curr_start(b.accs[1]) <= last
              /\ \A z \in curr_start(b.accs[1]) .. last : z \in AllTouched(b)
        BY <2>3, <3>1
      <4>2. curr_start(b.accs[1]) \in curr_start(b.accs[1]) .. last
        BY <4>1
      <4> QED BY <4>1, <4>2
    <3>3. b.off \in b.off .. Last(b)
      BY <1>1, <2>1, <3>2
    <3>4. b.off - 1 \notin AllTouched(b)
      BY <1>1, <2>1
    <3> QED BY <2>4, <3>3, <3>4
  <2> QED BY <2>4, <2>5
<1>2. ASSUME Inv, CountInv, ExactInv, NEW t \in Threads, NEW o \in Ops,
             NEW i \in 1 .. Len(Trail(t, o))
      PROVE  /\ Trail(t, o)[i] \in Batches /\ Exact(Trail(t, o)[i])
             /\ Trail(t, o)[i].accs # <<>>
  <2>1. PICK b \in Batches : b = batch[t][o]
    BY <1>2 DEF Inv, TypeOK
  <2>2. PICK r \in Seq(Batches) : r = out[t][o]
    BY <1>2 DEF Inv, TypeOK
  <2>3. cnt[t][o] <= Cap
    <3>1. cnt[t][o] \in Nat /\ total \in Nat /\ MaxAccess \in Nat /\ Cap \in Nat
      BY <1>2, BatchAssumption DEF Inv, TypeOK
    <3>2. cnt[t][o] <= total /\ total <= MaxAccess
      BY <1>2 DEF CountInv
    <3> QED BY <3>1, <3>2
  <2>4. Exact(b) /\ \A k \in 1 .. Len(r) : Exact(r[k])
    BY <1>2, <2>1, <2>2, <2>3 DEF ExactInv, ExactHook
  <2>5. Trail(t, o)[i].accs # <<>>
    BY <1>2, TrailAlways DEF InOrder, Consecutive
  <2>6. CASE b.fd = NoFd
    <3>1. Trail(t, o) = r
      BY <2>1, <2>2, <2>6 DEF Trail
    <3> QED BY <1>2, <2>4, <2>5, <3>1
  <2>7. CASE b.fd # NoFd
    <3>1. Trail(t, o) = Append(r, b)
      BY <2>1, <2>2, <2>7 DEF Trail
    <3>2. PICK m \in Nat : m = Len(r)
      OBVIOUS
    <3>3. /\ Len(Trail(t, o)) = m + 1 /\ Trail(t, o)[m + 1] = b
          /\ \A k \in 1 .. m : Trail(t, o)[k] = r[k] /\ r[k] \in Batches
      BY <3>1, <3>2
    <3> QED BY <1>2, <2>4, <2>5, <3>2, <3>3
  <2> QED BY <2>6, <2>7
<1>3. Inv /\ CountInv /\ ExactInv /\ ExtentCovers => ExtentExact
  BY <1>1, <1>2 DEF ExtentExact, ExtentCovers
<1> QED BY <1>3, InvAlways, CountAlways, ExactUntilFull, ExtentsCover, PTL

-----------------------------------------------------------------------------
(* The trace of a thread that shares no descriptor is what happened.       *)

(* A step that records no access, or one that is in the history. *)
LEMMA HistoryStep ==
  ASSUME NEW b \in Batches, NEW r \in Seq(Batches), NEW n \in Nat, NEW h, HookInv(b, r, n),
         AllInHistory(b, r, h), NEW b2, NEW r2, NEW n2, NEW x,
         HookStep(b, r, n, b2, r2, n2, x), n2 = n \/ InHistory(h, x)
  PROVE  AllInHistory(b2, r2, h)
<1>0. b.accs \in Seq(Accesses)
  BY DEF Batches
<1>1. ASSUME r2 = r \/ r2 = Append(r, b)
      PROVE  \A i \in 1 .. Len(r2) : \A j \in 1 .. Len(r2[i].accs) : InHistory(h, r2[i].accs[j])
  <2>1. CASE r2 = r
    BY <2>1 DEF AllInHistory
  <2>2. CASE r2 = Append(r, b)
    <3>1. PICK m \in Nat : m = Len(r)
      OBVIOUS
    <3>2. Len(r2) = m + 1 /\ r2[m + 1] = b /\ \A i \in 1 .. m : r2[i] = r[i]
      BY <2>2, <3>1
    <3> QED BY <3>1, <3>2 DEF AllInHistory
  <2> QED BY <1>1, <2>1, <2>2
<1>2. ASSUME \/ b2.accs = b.accs
             \/ InHistory(h, x) /\ b2.accs = <<x>>
             \/ InHistory(h, x) /\ b2.accs = Append(b.accs, x)
      PROVE  \A j \in 1 .. Len(b2.accs) : InHistory(h, b2.accs[j])
  <2>1. CASE b2.accs = b.accs
    BY <2>1 DEF AllInHistory
  <2>2. CASE InHistory(h, x) /\ b2.accs = <<x>>
    BY <2>2
  <2>3. CASE InHistory(h, x) /\ b2.accs = Append(b.accs, x)
    <3>1. PICK m \in Nat : m = Len(b.accs)
      BY <1>0
    <3>2. Len(b2.accs) = m + 1 /\ b2.accs[m + 1] = x /\ \A i \in 1 .. m : b2.accs[i] = b.accs[i]
      BY <1>0, <2>3, <3>1
    <3> QED BY <2>3, <3>1, <3>2 DEF AllInHistory
  <2> QED BY <1>2, <2>1, <2>2, <2>3
<1>3. CASE b2 = b /\ r2 = r /\ n2 = n
  BY <1>3
<1>4. CASE n2 = n /\ r2 = r /\ \E f \in Files : b2 = [b EXCEPT !.path = f]
  <2>1. b2.accs = b.accs
    BY <1>4 DEF Batches
  <2> QED BY <1>1, <1>2, <1>4, <2>1 DEF AllInHistory
<1>5. CASE n2 = n /\ b.fd \in Fds /\ b2 = [b EXCEPT !.fd = NoFd] /\ r2 = Append(r, b)
  <2>1. b2.accs = b.accs
    BY <1>5 DEF Batches
  <2> QED BY <1>1, <1>2, <1>5, <2>1 DEF AllInHistory
<1>6. ASSUME n2 = n + 1, x \in Accesses, NEW fd \in Fds, b.fd = fd,
             b2 = batch_read_write_first(b, fd, x), r2 = r \o FirstEmits(b, x)
      PROVE  AllInHistory(b2, r2, h)
  <2>1. b.size >= 1 /\ b.fd # NoFd /\ Covers(b)
    BY <1>6, BatchAssumption DEF HookInv
  <2>2. b2.accs = IF Apart(b, x) \/ Full(b) THEN <<x>> ELSE Append(b.accs, x)
    BY <1>6, <2>1, FirstFacts
  <2>3. r2 = r \/ r2 = Append(r, b)
    BY <1>6 DEF FirstEmits, Emitted
  <2>4. InHistory(h, x)
    BY <1>6
  <2> QED BY <1>1, <1>2, <2>2, <2>3, <2>4 DEF AllInHistory
<1>7. ASSUME n2 = n + 1, x \in Accesses, NEW fd \in Fds, b2 = Restart(b, fd, x),
             r2 = r \o Emitted(b)
      PROVE  AllInHistory(b2, r2, h)
  <2>1. b2.accs = <<x>>
    BY <1>7, RestartFacts
  <2>2. r2 = r \/ r2 = Append(r, b)
    BY <1>7 DEF Emitted
  <2>3. InHistory(h, x)
    BY <1>7
  <2> QED BY <1>1, <1>2, <2>1, <2>2, <2>3 DEF AllInHistory
<1> QED BY <1>3, <1>4, <1>5, <1>6, <1>7 DEF HookStep

(* The same, of the state. *)
LEMMA HistoryKept ==
  ASSUME Inv, HistInv, [Next]_vars, hist' = hist, NEW t \in Threads, NEW o \in Ops,
         cnt'[t][o] = cnt[t][o] \/ InHistory(hist[t][o], Access(t, call[t]))
  PROVE  AllInHistory(batch'[t][o], out'[t][o], hist'[t][o])
<1>1. /\ batch[t][o] \in Batches /\ out[t][o] \in Seq(Batches) /\ cnt[t][o] \in Nat
      /\ HookInv(batch[t][o], out[t][o], cnt[t][o])
  BY DEF Inv, TypeOK, BatchInv
<1>2. AllInHistory(batch[t][o], out[t][o], hist[t][o])
  BY DEF HistInv
<1>3. HookStep(batch[t][o], out[t][o], cnt[t][o], batch'[t][o], out'[t][o], cnt'[t][o],
               Access(t, call[t]))
  BY StepOfHook
<1> QED BY <1>1, <1>2, <1>3, HistoryStep

(* A longer history still has what it had. *)
LEMMA HistoryGrows ==
  ASSUME NEW b, NEW r, NEW S, NEW h \in Seq(S), NEW m \in S, AllInHistory(b, r, h)
  PROVE  AllInHistory(b, r, Append(h, m))
<1>1. ASSUME NEW a, InHistory(h, a) PROVE InHistory(Append(h, m), a)
  <2>1. PICK k \in Nat : k = Len(h)
    OBVIOUS
  <2>2. Len(Append(h, m)) = k + 1 /\ \A i \in 1 .. k : Append(h, m)[i] = h[i]
    BY <2>1
  <2> QED BY <1>1, <2>1, <2>2 DEF InHistory
<1> QED BY <1>1 DEF AllInHistory

(* The access a hook records is the one that was made. *)
LEMMA AccessTrue ==
  ASSUME Inv, NEW t \in Threads, call[t] # NULL, CallInv(t),
         call[t].file \in Traced \cap Regular
  PROVE  /\ InHistory(hist[t][call[t].op], Access(t, call[t]))
         /\ Access(t, call[t]).off >= 0
<1>1. PICK c : c = call[t]
  OBVIOUS
<1>2. /\ c \in Calls /\ c.op \in Ops /\ c.fd \in Fds /\ c.n \in Nat /\ c.off \in Nat
      /\ cnt[t][c.op] \in Nat
  BY <1>1 DEF Inv, TypeOK, Calls
<1>3. /\ fdtab[c.fd] = c.file /\ c.file \in Regular
      /\ c.op \in PosOps \/ pos[c.fd] = c.off + c.n
      /\ Len(hist[t][c.op]) = cnt[t][c.op] + 1
      /\ hist[t][c.op][cnt[t][c.op] + 1] = [off |-> c.off, n |-> c.n]
  BY <1>1 DEF CallInv
<1>4. HookOff(c) = c.off
  BY <1>2, <1>3 DEF HookOff
<1>5. PICK x : x = Access(t, c)
  OBVIOUS
<1>6. x.id = cnt[t][c.op] + 1 /\ x.off = c.off /\ x.n = c.n
  BY <1>4, <1>5 DEF Access
<1> QED BY <1>1, <1>2, <1>3, <1>5, <1>6 DEF InHistory

(* One thread. *)
Alone(t) == \A u \in Threads : u = t

(* A hook records the access of the call. *)
LEMMA RecordHist ==
  ASSUME Inv, HistInv, [Next]_vars, NEW t \in Threads, Alone(t), NEW c, c = call[t], c # NULL,
         c.file \in Traced \cap Regular, NEW d, d.fd = c.fd, NEW em,
         Record(t, c.op, d, em, TRUE), call' = [call EXCEPT ![t] = NULL],
         UNCHANGED <<fdtab, hist>>
  PROVE  HistInv'
<1>0. /\ batch \in [Threads -> [Ops -> Batches]] /\ cnt \in [Threads -> [Ops -> Nat]]
      /\ c \in Calls /\ c.op \in Ops /\ call'[t] = NULL
  BY DEF Inv, TypeOK, Calls
<1>1. /\ batch'[t][c.op] = d /\ cnt'[t][c.op] = cnt[t][c.op] + 1
      /\ \A o \in Ops : o # c.op => batch'[t][o] = batch[t][o] /\ cnt'[t][o] = cnt[t][o]
  BY <1>0 DEF Record
<1>2. CallInv(t) /\ fdtab[c.fd] = c.file /\ Len(hist[t][c.op]) = cnt[t][c.op] + 1
  BY DEF HistInv, CallInv
<1>3. InHistory(hist[t][c.op], Access(t, call[t]))
  BY <1>2, AccessTrue
<1>4. CallInv(t)'
  BY <1>0 DEF CallInv
<1>5. ASSUME NEW o \in Ops
      PROVE  /\ batch'[t][o].fd # NoFd => fdtab'[batch'[t][o].fd] \in Traced \cap Regular
             /\ AllInHistory(batch'[t][o], out'[t][o], hist'[t][o])
             /\ Len(hist'[t][o]) = cnt'[t][o]
  <2>1. AllInHistory(batch'[t][o], out'[t][o], hist'[t][o])
    BY <1>1, <1>3, HistoryKept
  <2>2. CASE o = c.op
    BY <1>1, <1>2, <2>1, <2>2
  <2>3. CASE o # c.op
    BY <1>1, <2>1, <2>3 DEF HistInv
  <2> QED BY <2>2, <2>3
<1> QED BY <1>4, <1>5 DEF HistInv, Alone

(* A step between two calls that records no access: a batch that stays     *)
(* open is of a descriptor that stays.                                     *)
LEMMA IdleHist ==
  ASSUME Inv, HistInv, [Next]_vars, NEW t \in Threads, Alone(t), call[t] = NULL,
         call'[t] = NULL, UNCHANGED <<hist, cnt>>,
         \A o \in Ops : batch'[t][o].fd # NoFd => /\ batch'[t][o].fd = batch[t][o].fd
                                                  /\ fdtab'[batch[t][o].fd] = fdtab[batch[t][o].fd]
  PROVE  HistInv'
<1>1. CallInv(t)'
  BY DEF CallInv
<1>2. ASSUME NEW o \in Ops
      PROVE  /\ batch'[t][o].fd # NoFd => fdtab'[batch'[t][o].fd] \in Traced \cap Regular
             /\ AllInHistory(batch'[t][o], out'[t][o], hist'[t][o])
             /\ Len(hist'[t][o]) = cnt'[t][o]
  <2>1. AllInHistory(batch'[t][o], out'[t][o], hist'[t][o])
    BY HistoryKept
  <2>2. /\ batch[t][o].fd # NoFd => fdtab[batch[t][o].fd] \in Traced \cap Regular
        /\ Len(hist[t][o]) = cnt[t][o]
    BY DEF HistInv
  <2> QED BY <2>1, <2>2
<1> QED BY <1>1, <1>2 DEF HistInv, Alone

(* A step in which the hook goes on with its call, or ends it without a    *)
(* record because the file is not traced.                                  *)
LEMMA GoOnHist ==
  ASSUME Inv, HistInv, [Next]_vars, NEW t \in Threads, Alone(t), NEW c, c = call[t], c # NULL,
         UNCHANGED <<fdtab, pos, hist, cnt>>,
         \A o \in Ops : batch'[t][o].fd = batch[t][o].fd,
         NEW w \in {"path", "notify", "dispatch"},
         \/ call'[t] = NULL /\ c.file \notin Traced \cap Regular
         \/ call'[t] = [c EXCEPT !.at = w],
         w = "notify" => batch'[t][c.op].path = c.file,
         w = "dispatch" /\ call'[t] # NULL => c.file \in Traced \cap Regular
  PROVE  HistInv'
<1>0. c \in Calls /\ CallInv(t)
  BY DEF Inv, TypeOK, HistInv
<1>1. PICK d : d = [c EXCEPT !.at = w]
  OBVIOUS
<1>2. /\ d.op = c.op /\ d.fd = c.fd /\ d.file = c.file /\ d.off = c.off /\ d.n = c.n /\ d.at = w
  BY <1>0, <1>1 DEF Calls
<1>3. CallInv(t)'
  <2>1. CASE call'[t] = NULL
    BY <2>1 DEF CallInv
  <2>2. CASE call'[t] # NULL
    <3>1. call'[t] = d
      BY <1>1, <2>2
    <3>2. /\ fdtab[c.fd] = c.file
          /\ c.op \in PosOps \/ pos[c.fd] = c.off + c.n
          /\ c.file \in Traced \cap Regular =>
               /\ Len(hist[t][c.op]) = cnt[t][c.op] + 1
               /\ hist[t][c.op][cnt[t][c.op] + 1] = [off |-> c.off, n |-> c.n]
          /\ c.file \notin Traced \cap Regular => Len(hist[t][c.op]) = cnt[t][c.op]
      BY <1>0 DEF CallInv
    <3>3. w = "dispatch" => c.file \in Traced \cap Regular
      BY <2>2
    <3> QED BY <1>2, <3>1, <3>2, <3>3 DEF CallInv
  <2> QED BY <2>1, <2>2
<1>4. ASSUME NEW o \in Ops
      PROVE  /\ batch'[t][o].fd # NoFd => fdtab'[batch'[t][o].fd] \in Traced \cap Regular
             /\ AllInHistory(batch'[t][o], out'[t][o], hist'[t][o])
             /\ ~(call'[t] # NULL /\ call'[t].op = o) => Len(hist'[t][o]) = cnt'[t][o]
  <2>1. AllInHistory(batch'[t][o], out'[t][o], hist'[t][o])
    BY HistoryKept
  <2>2. batch'[t][o].fd # NoFd => fdtab'[batch'[t][o].fd] \in Traced \cap Regular
    BY DEF HistInv
  <2>3. ASSUME ~(call'[t] # NULL /\ call'[t].op = o) PROVE Len(hist[t][o]) = cnt[t][o]
    <3>1. CASE o # c.op
      BY <3>1 DEF HistInv
    <3>2. CASE o = c.op
      <4>1. c.file \notin Traced \cap Regular
        <5>1. d \in Calls
          BY <1>0, <1>1 DEF Calls
        <5>2. d # NULL
          BY <5>1, BatchAssumption
        <5> QED BY <1>1, <1>2, <2>3, <3>2, <5>2
      <4> QED BY <1>0, <3>2, <4>1 DEF CallInv
    <3> QED BY <3>1, <3>2
  <2> QED BY <2>1, <2>2, <2>3
<1> QED BY <1>3, <1>4 DEF HistInv, Alone

(* A call is made. *)
LEMMA CalledHist ==
  ASSUME Inv, HistInv, NEW t \in Threads, Alone(t), NEW op \in Ops, NEW fd \in Fds,
         NEW n \in Sizes, NEW o \in Nat, Called(t, op, fd, n, o),
         op \in PosOps \/ pos'[fd] = o + n
  PROVE  HistInv'
<1>0. /\ hist \in [Threads -> [Ops -> Seq(Made)]] /\ call[t] = NULL /\ fdtab[fd] \in Files
      /\ call \in [Threads -> Calls \cup {NULL}] /\ cnt \in [Threads -> [Ops -> Nat]]
      /\ n \in Nat \ {0} /\ UNCHANGED <<fdtab, batch, out, cnt>>
  BY BatchAssumption DEF Inv, TypeOK, Called, Free
<1>1. PICK m : m = [off |-> o, n |-> n]
  OBVIOUS
<1>2. m \in Made
  BY <1>0, <1>1 DEF Made
<1>3. PICK h : h = hist[t][op]
  OBVIOUS
<1>4. PICK k \in Nat : k = Len(h)
  BY <1>0, <1>3
<1>5. \A p \in Ops : Len(hist[t][p]) = cnt[t][p]
  BY <1>0 DEF HistInv
<1>6. PICK c : c = [op |-> op, fd |-> fd, n |-> n, off |-> o, file |-> fdtab[fd], at |-> "batch"]
  OBVIOUS
<1>7. /\ call'[t] = c /\ c.op = op /\ c.fd = fd /\ c.n = n /\ c.off = o /\ c.file = fdtab[fd]
      /\ c.at = "batch"
  BY <1>0, <1>6 DEF Called
<1>8. /\ \A p \in Ops : p # op => hist'[t][p] = hist[t][p]
      /\ hist'[t][op] = IF c.file \in Traced \cap Regular THEN Append(h, m) ELSE h
  BY <1>0, <1>1, <1>3, <1>7 DEF Called
<1>9. Len(Append(h, m)) = k + 1 /\ Append(h, m)[k + 1] = m /\ h \in Seq(Made)
  BY <1>0, <1>2, <1>3, <1>4
<1>10. CallInv(t)'
  <2>1. c.file \in Traced \cap Regular =>
          /\ Len(hist'[t][op]) = cnt'[t][op] + 1
          /\ hist'[t][op][cnt'[t][op] + 1] = [off |-> c.off, n |-> c.n]
    BY <1>0, <1>1, <1>3, <1>4, <1>5, <1>7, <1>8, <1>9
  <2>2. c.file \notin Traced \cap Regular => Len(hist'[t][op]) = cnt'[t][op]
    BY <1>0, <1>3, <1>5, <1>8
  <2> QED BY <1>0, <1>7, <2>1, <2>2 DEF CallInv
<1>11. ASSUME NEW p \in Ops
       PROVE  /\ batch'[t][p].fd # NoFd => fdtab'[batch'[t][p].fd] \in Traced \cap Regular
              /\ AllInHistory(batch'[t][p], out'[t][p], hist'[t][p])
              /\ ~(call'[t] # NULL /\ call'[t].op = p) => Len(hist'[t][p]) = cnt'[t][p]
  <2>1. /\ batch[t][p].fd # NoFd => fdtab[batch[t][p].fd] \in Traced \cap Regular
        /\ AllInHistory(batch[t][p], out[t][p], hist[t][p])
    BY DEF HistInv
  <2>2. CASE p # op
    BY <1>0, <1>5, <1>8, <2>1, <2>2
  <2>3. CASE p = op
    <3>1. AllInHistory(batch[t][p], out[t][p], Append(h, m))
      BY <1>2, <1>3, <1>9, <2>1, <2>3, HistoryGrows
    <3>2. c # NULL
      <4>1. c \in Calls
        BY <1>0, <1>6 DEF Calls
      <4> QED BY <4>1, BatchAssumption
    <3> QED BY <1>0, <1>3, <1>7, <1>8, <2>1, <2>3, <3>1, <3>2
  <2> QED BY <2>2, <2>3
<1> QED BY <1>10, <1>11 DEF HistInv, Alone

(* The batches that close_common() leaves open. *)
LEMMA StillOpen ==
  ASSUME TypeOK, NEW t \in Threads, NEW S \in SUBSET Fds, close_common(t, S), NEW o \in Ops
  PROVE  batch'[t][o].fd # NoFd => batch'[t][o].fd = batch[t][o].fd /\ batch[t][o].fd \notin S
<1>1. PICK b \in Batches : b = batch[t][o]
  BY DEF TypeOK
<1>2. batch'[t][o] = IF b.fd \in S THEN [b EXCEPT !.fd = NoFd] ELSE b
  BY <1>1 DEF close_common, Closed, Closes, TypeOK
<1> QED BY <1>1, <1>2 DEF Batches

(* Every step of a process with one thread keeps HistInv. *)
LEMMA HistNext ==
  ASSUME Inv, HistInv, [Next]_vars, NEW t \in Threads, Alone(t), StdioOps = {}
  PROVE  HistInv'
<1>0. /\ CallInv(t) /\ batch \in [Threads -> [Ops -> Batches]] /\ TypeOK
      /\ call \in [Threads -> Calls \cup {NULL}]
  BY DEF HistInv, Inv, TypeOK
<1>1. PICK c : c = call[t]
  OBVIOUS
<1>2. c # NULL => /\ c \in Calls /\ c.op \in Ops /\ c.fd \in Fds /\ c.file \in Files
                  /\ fdtab[c.fd] = c.file
  BY <1>0, <1>1 DEF Calls, CallInv
<1>3. CASE SameFile(t)
  <2>1. PICK b : b = batch[t][c.op]
    OBVIOUS
  <2>2. PICK x : x = Access(t, c)
    OBVIOUS
  <2>3. /\ c # NULL /\ b.fd = c.fd /\ x.off >= 0
        /\ Record(t, c.op, batch_read_write_first(b, c.fd, x), FirstEmits(b, x), Handled(b, x))
        /\ call' = [call EXCEPT ![t] = IF Handled(b, x) THEN NULL ELSE [c EXCEPT !.at = "path"]]
        /\ UNCHANGED <<fdtab, hist>>
    BY <1>1, <1>3, <2>1, <2>2 DEF SameFile
  <2>4. x \in Accesses /\ b \in Batches /\ HookInv(b, out[t][c.op], cnt[t][c.op]) /\ c.fd # NoFd
    BY <1>0, <1>1, <1>2, <2>1, <2>2, <2>3, AccessType, BatchAssumption DEF Inv, BatchInv
  <2>5. Handled(b, x) = TRUE
    BY <2>4, FirstHandles DEF Handled, Apart, Inside, Beyond, Around, Before
  <2>6. PICK d : d = batch_read_write_first(b, c.fd, x)
    OBVIOUS
  <2>7. d.fd = c.fd
    BY <1>2, <2>3, <2>4, <2>6, FirstFacts DEF HookInv
  <2>8. c.file \in Traced \cap Regular
    BY <1>2, <2>1, <2>3, <2>4 DEF HistInv
  <2>9. Record(t, c.op, d, FirstEmits(b, x), TRUE) /\ call' = [call EXCEPT ![t] = NULL]
    BY <2>3, <2>5, <2>6
  <2> QED BY <1>1, <2>3, <2>7, <2>8, <2>9, RecordHist
<1>4. CASE OtherFile(t)
  <2>1. /\ c # NULL /\ call'[t] = [c EXCEPT !.at = "path"]
        /\ UNCHANGED <<fdtab, pos, hist, cnt, batch>>
    BY <1>0, <1>1, <1>4 DEF OtherFile
  <2> QED BY <1>1, <2>1, GoOnHist
<1>5. CASE FdToPath(t)
  <2>1. /\ c # NULL /\ fdtab[c.fd] = c.file /\ c.file # NULL
    BY <1>1, <1>2, <1>5, BatchAssumption DEF FdToPath
  <2>2. /\ batch' = [batch EXCEPT ![t][c.op].path = c.file]
        /\ call'[t] = [c EXCEPT !.at = "notify"] /\ UNCHANGED <<fdtab, pos, hist, cnt>>
    BY <1>0, <1>1, <1>5, <2>1 DEF FdToPath
  <2>3. PICK b \in Batches : b = batch[t][c.op]
    BY <1>0, <1>2, <2>1
  <2>4. PICK d : d = [b EXCEPT !.path = c.file]
    OBVIOUS
  <2>5. d.fd = b.fd /\ d.path = c.file
    BY <2>3, <2>4 DEF Batches
  <2>6. batch'[t][c.op] = d /\ \A o \in Ops : o # c.op => batch'[t][o] = batch[t][o]
    BY <1>0, <1>2, <2>1, <2>2, <2>3, <2>4
  <2>7. batch'[t][c.op].path = c.file /\ \A o \in Ops : batch'[t][o].fd = batch[t][o].fd
    BY <2>3, <2>5, <2>6
  <2>8. PICK w \in {"path", "notify", "dispatch"} : w = "notify"
    OBVIOUS
  <2>9. call'[t] = [c EXCEPT !.at = w] /\ w # "dispatch"
    BY <2>2, <2>8
  <2>10. /\ UNCHANGED <<fdtab, pos, hist, cnt>>
         /\ w = "notify" => batch'[t][c.op].path = c.file
         /\ \A o \in Ops : batch'[t][o].fd = batch[t][o].fd
    BY <2>2, <2>7
  <2> QED BY <1>1, <2>1, <2>9, <2>10, GoOnHist, ZenonT(60)
<1>6. CASE Notify(t)
  <2>1. /\ c # NULL /\ batch[t][c.op].path = c.file /\ fdtab[c.fd] = c.file
        /\ UNCHANGED <<fdtab, pos, hist, cnt, batch>>
    BY <1>0, <1>1, <1>2, <1>6 DEF Notify, CallInv
  <2>2. call'[t] = IF c.file \in Traced /\ c.file \in Regular THEN [c EXCEPT !.at = "dispatch"] ELSE NULL
    BY <1>0, <1>1, <1>6, <2>1 DEF Notify
  <2>3. CASE c.file \in Traced \cap Regular
    BY <1>1, <2>1, <2>2, <2>3, GoOnHist
  <2>4. CASE c.file \notin Traced \cap Regular
    BY <1>1, <2>1, <2>2, <2>4, GoOnHist
  <2> QED BY <2>3, <2>4
<1>7. CASE Dispatch(t)
  <2>1. c # NULL /\ c.file \in Traced \cap Regular
    BY <1>0, <1>1, <1>7 DEF Dispatch, CallInv
  <2>2. PICK x : x = Access(t, c)
    OBVIOUS
  <2>3. x.off >= 0
    BY <1>0, <1>1, <2>1, <2>2, AccessTrue
  <2>4. PICK b \in Batches : b = batch[t][c.op]
    BY <1>0, <1>2, <2>1
  <2>5. /\ Record(t, c.op, Restart(b, c.fd, x), Emitted(b), TRUE)
        /\ call' = [call EXCEPT ![t] = NULL] /\ UNCHANGED <<fdtab, hist>>
    BY <1>1, <1>7, <2>2, <2>3, <2>4 DEF Dispatch
  <2>6. PICK d : d = Restart(b, c.fd, x)
    OBVIOUS
  <2>7. d.fd = c.fd
    BY <2>6 DEF Restart
  <2> QED BY <1>1, <2>1, <2>5, <2>6, <2>7, RecordHist
<1>8. CASE ThreadExit(t) \/ ProcessExit(t)
  <2>1. /\ close_common(t, Fds) /\ call[t] = NULL /\ call'[t] = NULL
        /\ UNCHANGED <<hist, cnt, fdtab>>
    BY <1>8 DEF ThreadExit, ProcessExit, Free
  <2>2. \A o \in Ops : batch'[t][o].fd # NoFd => batch'[t][o].fd = batch[t][o].fd
    BY <1>0, <2>1, StillOpen
  <2> QED BY <2>1, <2>2, IdleHist
<1>9. ASSUME NEW fd \in Fds, Close(t, fd) PROVE HistInv'
  <2>1. /\ close_common(t, {fd}) /\ call[t] = NULL /\ call'[t] = NULL
        /\ UNCHANGED <<hist, cnt>> /\ fdtab' = [fdtab EXCEPT ![fd] = NULL]
    BY <1>9 DEF Close, Free
  <2>2. \A o \in Ops : batch'[t][o].fd # NoFd =>
          batch'[t][o].fd = batch[t][o].fd /\ batch[t][o].fd \notin {fd}
    BY <1>0, <2>1, StillOpen
  <2>3. \A o \in Ops : batch'[t][o].fd # NoFd => fdtab'[batch[t][o].fd] = fdtab[batch[t][o].fd]
    <3>1. \A e \in Fds : e # fd => fdtab'[e] = fdtab[e]
      BY <1>0, <2>1 DEF TypeOK
    <3>2. \A o \in Ops : batch[t][o].fd \in Fds \cup {NoFd}
      BY <1>0 DEF Batches
    <3> QED BY <2>2, <3>1, <3>2
  <2> QED BY <2>1, <2>2, <2>3, IdleHist
<1>10. ASSUME NEW fd \in Fds, NEW f \in Files, Open(t, fd, f) PROVE HistInv'
  <2>1. /\ call[t] = NULL /\ call'[t] = NULL /\ UNCHANGED <<hist, cnt, batch>>
        /\ fdtab[fd] = NULL /\ fdtab' = [fdtab EXCEPT ![fd] = f]
    BY <1>10 DEF Open, Free
  <2>2. \A o \in Ops : batch[t][o].fd # NoFd => fdtab[batch[t][o].fd] # NULL
    BY BatchAssumption DEF HistInv
  <2>3. \A e \in Fds : e # fd => fdtab'[e] = fdtab[e]
    BY <1>0, <2>1 DEF TypeOK
  <2>4. \A o \in Ops : batch[t][o].fd \in Fds \cup {NoFd}
    BY <1>0 DEF Batches
  <2> QED BY <2>1, <2>2, <2>3, <2>4, IdleHist
<1>11. ASSUME NEW fd \in Fds, NEW p \in Offsets, Lseek(t, fd, p) PROVE HistInv'
  <2>1. call[t] = NULL /\ call'[t] = NULL /\ UNCHANGED <<hist, cnt, batch, fdtab>>
    BY <1>11 DEF Lseek, Free
  <2> QED BY <2>1, IdleHist
<1>12. ASSUME NEW fd \in Fds, NEW op \in Ops, NEW n \in Sizes, ReadWrite(t, op, fd, n)
       PROVE  HistInv'
  <2>1. pos[fd] \in Nat /\ pos' = [pos EXCEPT ![fd] = @ + n] /\ Called(t, op, fd, n, pos[fd])
    BY <1>0, <1>12 DEF ReadWrite, Moved, TypeOK
  <2>2. pos'[fd] = pos[fd] + n
    BY <1>0, <2>1 DEF TypeOK
  <2> QED BY <2>1, <2>2, CalledHist
<1>13. ASSUME NEW fd \in Fds, NEW op \in Ops, NEW n \in Sizes, NEW p \in Offsets,
              PreadPwrite(t, op, fd, n, p)
       PROVE  HistInv'
  <2>1. p \in Nat /\ op \in PosOps /\ Called(t, op, fd, n, p)
    BY <1>13, BatchAssumption DEF PreadPwrite
  <2> QED BY <2>1, CalledHist
<1>14. ASSUME NEW fd \in Fds, NEW op \in Ops, NEW n \in Sizes, NEW k \in Fills,
              FreadFwrite(t, op, fd, n, k)
       PROVE  HistInv'
  BY <1>14 DEF FreadFwrite
<1>14a. CASE ThreadReturn(t)
  <2>1. call[t] = NULL /\ call'[t] = NULL /\ UNCHANGED <<hist, cnt, batch, fdtab>>
    BY <1>14a DEF ThreadReturn, Free
  <2> QED BY <2>1, IdleHist
<1>15. CASE Done \/ UNCHANGED vars
  BY SMTT(60), <1>15 DEF Done, vars, HistInv, CallInv
<1>16. \A u \in Threads : u = t
  BY DEF Alone
<1> QED BY <1>3, <1>4, <1>5, <1>6, <1>7, <1>8, <1>9, <1>10, <1>11, <1>12, <1>13, <1>14, <1>14a,
           <1>15, <1>16 DEF Next, Hook

(* Between two calls of a thread that shares no descriptor, and with the   *)
(* hooks that ask for the offset of what they transferred (all but fread() *)
(* and fwrite(), which count items and whose position runs ahead), the     *)
(* accesses in the trace are those made to traced files: the same sizes    *)
(* and offsets in the same order, none missing and none of another file,   *)
(* whatever is opened and closed under the same descriptor.  (The path a   *)
(* record is emitted with is not part of this.)                            *)
THEOREM TraceIsTrue ==
  ASSUME NEW t \in Threads, Threads = {t}, StdioOps = {}
  PROVE  Spec => []TraceIsHistory
<1>1. Alone(t)
  BY DEF Alone
<1>2. Init => HistInv
  BY DEF Init, HistInv, CallInv, AllInHistory, NoBatch
<1>3. Inv /\ HistInv /\ [Next]_vars => HistInv'
  BY <1>1, HistNext
<1>4. ASSUME Inv, HistInv, NEW u \in Threads, NEW o \in Ops, call[u] = NULL
      PROVE  /\ cnt[u][o] = Len(hist[u][o])
             /\ \A i \in 1 .. Len(Trail(u, o)) : \A j \in 1 .. Len(Trail(u, o)[i].accs) :
                  InHistory(hist[u][o], Trail(u, o)[i].accs[j])
  <2>1. cnt[u][o] = Len(hist[u][o]) /\ AllInHistory(batch[u][o], out[u][o], hist[u][o])
    BY <1>4 DEF HistInv
  <2>2. PICK b \in Batches : b = batch[u][o]
    BY <1>4 DEF Inv, TypeOK
  <2>3. PICK r \in Seq(Batches) : r = out[u][o]
    BY <1>4 DEF Inv, TypeOK
  <2>4. CASE b.fd = NoFd
    <3>1. Trail(u, o) = r
      BY <2>2, <2>3, <2>4 DEF Trail
    <3> QED BY <2>1, <2>3, <3>1 DEF AllInHistory
  <2>5. CASE b.fd # NoFd
    <3>1. Trail(u, o) = Append(r, b)
      BY <2>2, <2>3, <2>5 DEF Trail
    <3>2. PICK m \in Nat : m = Len(r)
      OBVIOUS
    <3>3. /\ Len(Trail(u, o)) = m + 1 /\ Trail(u, o)[m + 1] = b
          /\ \A k \in 1 .. m : Trail(u, o)[k] = r[k]
      BY <3>1, <3>2
    <3>4. PICK h : h = hist[u][o]
      OBVIOUS
    <3>5. PICK q : q = Trail(u, o)
      OBVIOUS
    <3>6. /\ \A j \in 1 .. Len(b.accs) : InHistory(h, b.accs[j])
          /\ \A i \in 1 .. m : \A j \in 1 .. Len(r[i].accs) : InHistory(h, r[i].accs[j])
      BY <2>1, <2>2, <2>3, <3>2, <3>4 DEF AllInHistory
    <3>7. ASSUME NEW i \in 1 .. Len(q), NEW j \in 1 .. Len(q[i].accs)
          PROVE  InHistory(h, q[i].accs[j])
      <4>1. CASE i = m + 1
        BY <3>3, <3>5, <3>6, <4>1
      <4>2. CASE i # m + 1
        <5>1. i \in 1 .. m
          BY <3>2, <3>3, <3>5, <4>2
        <5> QED BY <3>3, <3>5, <3>6, <5>1
      <4> QED BY <4>1, <4>2
    <3> QED BY <2>1, <3>4, <3>5, <3>7
  <2> QED BY <2>4, <2>5
<1>5. Inv /\ HistInv => TraceIsHistory
  BY <1>4 DEF TraceIsHistory, InHistory
<1> QED BY <1>2, <1>3, <1>5, InvAlways, PTL DEF Spec
=============================================================================
