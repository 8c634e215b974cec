------------------------- MODULE ProcessNameProofs -------------------------
(***************************************************************************)
(* Proofs about ProcessName, for any number of threads, calls and forks.   *)
(***************************************************************************)
EXTENDS ProcessName, TLAPS

(* Nothing is cached or allocated at first.                                *)
LEMMA InitNameInv == Init => NameInv
<1> SUFFICES ASSUME Init PROVE NameInv
  OBVIOUS
<1>1. /\ \A t \in Threads : th[t] = Idle /\ pc[t] = "idle"
      /\ Idle = [cur |-> NULL, curPid |-> 0, stale |-> FALSE, new |-> NULL,
                 began |-> Zygote]
      /\ cache = [name |-> NULL, pid |-> 0]
  BY DEF Init, Idle, Local, NoCache
<1>2. TypeOK
  BY <1>1, NameAssumption DEF Init, TypeOK, Caches, Names, Locals
<1>3. Accounted
  BY <1>1 DEF Init, Accounted, Published, Private
<1>4. QED
  BY <1>1, <1>2, <1>3 DEF Init, NameInv, CachedFor, FreedOnce, InHand

(* What the steps of a thread that touch no memory and read no name have   *)
(* in common.                                                              *)
LEMMA QuietStep ==
  ASSUME NameInv, NEW t \in Threads, TypeOK',
         UNCHANGED <<cache, alive, text, title, pid, orphans, status>>,
         \A u \in Threads : th'[u].new = th[u].new /\ (pc'[u] = "cas" <=> pc[u] = "cas"),
         \A u \in Threads : u # t => th'[u] = th[u] /\ pc'[u] = pc[u]
  PROVE  Accounted' /\ CachedFor' /\ FreedOnce'
<1>1. Private' = Private
  BY DEF Private
<1>2. Accounted'
  BY <1>1 DEF NameInv, Accounted, Published
<1>3. QED
  BY <1>2 DEF NameInv, CachedFor, FreedOnce

(* A call of process_name() keeps the invariant.                           *)
LEMMA CallStep ==
  ASSUME NameInv, NEW t \in Threads, process_name(t)
  PROVE  NameInv'
<1>1. /\ th' = [th EXCEPT ![t] = [cur |-> NULL, curPid |-> 0, stale |-> FALSE,
                                  new |-> NULL, began |-> title]]
      /\ pc' = [pc EXCEPT ![t] = "load"] /\ pc[t] = "idle" /\ calls' = calls + 1
      /\ UNCHANGED <<cache, alive, text, title, pid, orphans, status>>
  BY DEF process_name, Local, NoCache, Goto
<1>2. TypeOK'
  BY <1>1 DEF NameInv, TypeOK, Locals, Caches, Names
<1>3. th[t].new = NULL
  BY <1>1 DEF NameInv, Accounted, TypeOK, Locals
<1>4. Accounted' /\ CachedFor' /\ FreedOnce'
  <2>1. \A u \in Threads : th'[u].new = th[u].new /\ (pc'[u] = "cas" <=> pc[u] = "cas")
    BY <1>1, <1>3 DEF NameInv, TypeOK
  <2>2. \A u \in Threads : u # t => th'[u] = th[u] /\ pc'[u] = pc[u]
    BY <1>1 DEF NameInv, TypeOK
  <2>3. QED
    BY <1>1, <1>2, <2>1, <2>2, QuietStep
<1>5. InHand'
  BY <1>1 DEF NameInv, TypeOK, InHand, Right
<1>6. QED
  BY <1>2, <1>4, <1>5 DEF NameInv

(* A cached name of the right pid is an allocated name of this process.    *)
LEMMA LoadStep ==
  ASSUME NameInv, NEW t \in Threads, LoadName(t)
  PROVE  NameInv'
<1>1. PICK l : l = [cur |-> cache.name, curPid |-> cache.pid, stale |-> FALSE,
                    new |-> NULL, began |-> th[t].began]
  OBVIOUS
<1>2. /\ th' = [th EXCEPT ![t] = l]
      /\ pc' = [pc EXCEPT ![t] = IF cache.pid = pid THEN "compare" ELSE "read"]
      /\ pc[t] = "load"
      /\ UNCHANGED <<cache, alive, text, title, pid, calls, orphans, status>>
  BY <1>1 DEF LoadName, Local, Goto, Current
<1>3. TypeOK'
  <2>1. l \in Locals
    BY <1>1 DEF NameInv, TypeOK, Locals, Caches
  <2>2. QED
    BY <1>2, <2>1 DEF NameInv, TypeOK
<1>4. th[t].new = NULL
  BY <1>2 DEF NameInv, Accounted, TypeOK, Locals
<1>5. Accounted' /\ CachedFor' /\ FreedOnce'
  <2>1. \A u \in Threads : th'[u].new = th[u].new /\ (pc'[u] = "cas" <=> pc[u] = "cas")
    BY <1>1, <1>2, <1>4 DEF NameInv, TypeOK
  <2>2. \A u \in Threads : u # t => th'[u] = th[u] /\ pc'[u] = pc[u]
    BY <1>2 DEF NameInv, TypeOK
  <2>3. QED
    BY <1>2, <1>3, <2>1, <2>2, QuietStep
<1>6. InHand'
  <2>1. cache.pid = pid => cache.name \in alive /\ text[cache.name].pid = pid
    BY NameAssumption DEF NameInv, TypeOK, CachedFor, Accounted, Published
  <2>2. QED
    BY <1>1, <1>2, <2>1 DEF NameInv, TypeOK, InHand, Right
<1>7. QED
  BY <1>3, <1>5, <1>6 DEF NameInv

(* A cached name that is returned is not the zygote's.                     *)
LEMMA CompareStep ==
  ASSUME NameInv, NEW t \in Threads, Compare(t)
  PROVE  NameInv'
<1>1. /\ pc' = [pc EXCEPT ![t] = IF text[th[t].cur].title = Zygote THEN "read" ELSE "use"]
      /\ pc[t] = "compare" /\ ~th[t].stale
      /\ UNCHANGED <<cache, alive, text, title, pid, calls, orphans, status, th>>
  BY DEF Compare, Goto
<1>2. TypeOK'
  BY <1>1 DEF NameInv, TypeOK
<1>3. Accounted' /\ CachedFor' /\ FreedOnce'
  <2>1. \A u \in Threads : th'[u].new = th[u].new /\ (pc'[u] = "cas" <=> pc[u] = "cas")
    BY <1>1 DEF NameInv, TypeOK
  <2>2. \A u \in Threads : u # t => th'[u] = th[u] /\ pc'[u] = pc[u]
    BY <1>1 DEF NameInv, TypeOK
  <2>3. QED
    BY <1>1, <1>2, <2>1, <2>2, QuietStep
<1>4. InHand'
  BY <1>1 DEF NameInv, TypeOK, InHand, Right
<1>5. QED
  BY <1>2, <1>3, <1>4 DEF NameInv

(* The caller gives nothing back: it never owned the name.                 *)
LEMMA UseStep ==
  ASSUME NameInv, NEW t \in Threads, UseName(t)
  PROVE  NameInv'
<1>1. /\ th' = [th EXCEPT ![t] = [cur |-> NULL, curPid |-> 0, stale |-> FALSE,
                                  new |-> NULL, began |-> Zygote]]
      /\ pc' = [pc EXCEPT ![t] = "idle"] /\ pc[t] = "use"
      /\ UNCHANGED <<cache, alive, text, title, pid, calls, orphans, status>>
  BY DEF UseName, Idle, Local, NoCache, Goto
<1>2. TypeOK'
  BY <1>1, NameAssumption DEF NameInv, TypeOK, Locals
<1>3. th[t].new = NULL
  BY <1>1 DEF NameInv, Accounted, TypeOK, Locals
<1>4. Accounted' /\ CachedFor' /\ FreedOnce'
  <2>1. \A u \in Threads : th'[u].new = th[u].new /\ (pc'[u] = "cas" <=> pc[u] = "cas")
    BY <1>1, <1>3 DEF NameInv, TypeOK
  <2>2. \A u \in Threads : u # t => th'[u] = th[u] /\ pc'[u] = pc[u]
    BY <1>1 DEF NameInv, TypeOK
  <2>3. QED
    BY <1>1, <1>2, <2>1, <2>2, QuietStep
<1>5. InHand'
  BY <1>1 DEF NameInv, TypeOK, InHand, Right
<1>6. QED
  BY <1>2, <1>4, <1>5 DEF NameInv

(* A new name is private to its reader, and is read after the call began.  *)
LEMMA ReadStep ==
  ASSUME NameInv, NEW t \in Threads, read_process_name(t)
  PROVE  NameInv'
<1>1. PICK p \in Addrs \ alive, n \in {title, Uid} :
        /\ alive' = alive \cup {p}
        /\ text' = [text EXCEPT ![p] = [title |-> n, pid |-> pid]]
        /\ th' = [th EXCEPT ![t].new = p]
  BY DEF read_process_name
<1>2. /\ pc' = [pc EXCEPT ![t] = "cas"] /\ pc[t] = "read"
      /\ UNCHANGED <<cache, title, pid, calls, orphans, status>>
  BY DEF read_process_name, Goto
<1>3. /\ th'[t].new = p /\ th'[t].cur = th[t].cur /\ th'[t].stale = th[t].stale
      /\ th'[t].began = th[t].began /\ th' \in [Threads -> Locals]
      /\ \A u \in Threads : u # t => th'[u] = th[u]
      /\ pc'[t] = "cas" /\ \A u \in Threads : u # t => pc'[u] = pc[u]
  BY <1>1, <1>2 DEF NameInv, TypeOK, Locals
<1>4. TypeOK'
  BY <1>1, <1>2, <1>3 DEF NameInv, TypeOK, Names
<1>5. th[t].new = NULL /\ p # NULL
  BY <1>2, NameAssumption DEF NameInv, Accounted, TypeOK, Locals
<1>6. Private' = Private \cup {p}
  BY <1>3, <1>5 DEF Private
<1>7. Accounted'
  <2>1. p \notin Published \cup Private \cup orphans
    BY <1>1 DEF NameInv, Accounted
  <2>2. Published' = Published
    BY <1>2 DEF Published
  <2>3. \A u \in Threads : th[u].new # p
    BY <2>1, <1>5 DEF Private
  <2>4. QED
    BY <1>1, <1>2, <1>3, <1>5, <1>6, <2>1, <2>2, <2>3 DEF NameInv, Accounted
<1>8. \A q \in alive : text'[q] = text[q]
  BY <1>1 DEF NameInv, TypeOK
<1>9. CachedFor' /\ FreedOnce'
  BY <1>2, <1>8 DEF NameInv, CachedFor, FreedOnce, Accounted, Published
<1>10. InHand'
  <2>1. text'[p].pid = pid /\ text'[p].title = n
    BY <1>1 DEF NameInv, TypeOK
  <2>2. th[t].began # Zygote => n # Zygote
    BY NameAssumption DEF NameInv, InHand
  <2>3. \A u \in Threads : u # t /\ pc[u] = "cas" => th[u].new \in alive
    BY DEF NameInv, Accounted, Private
  <2>4. QED
    BY <1>1, <1>2, <1>3, <1>8, <2>1, <2>2, <2>3 DEF NameInv, TypeOK, InHand, Right
<1>11. QED
  BY <1>4, <1>7, <1>9, <1>10 DEF NameInv

(* free(p) by thread t, whose locals become l. *)
LEMMA FreedFacts ==
  ASSUME TypeOK, NEW t \in Threads, NEW l \in Locals, NEW p \in Addrs \cup {NULL},
         Freed(p, t, l)
  PROVE  /\ alive' = alive \ {p} /\ th' \in [Threads -> Locals] /\ th'[t] = l
         /\ \A u \in Threads \ {t} :
              /\ th'[u].cur = th[u].cur /\ th'[u].new = th[u].new
              /\ th'[u].began = th[u].began
              /\ ~th'[u].stale => ~th[u].stale /\ (p = NULL \/ th[u].cur # p)
<1>1. \A u \in Threads \ {t} :
        /\ th'[u] = [th[u] EXCEPT !.stale = @ \/ (p # NULL /\ th[u].cur = p)]
        /\ th[u] \in Locals
  BY DEF Freed, TypeOK
<1>2. \A u \in Threads \ {t} :
        /\ th'[u] \in Locals
        /\ th'[u].cur = th[u].cur /\ th'[u].new = th[u].new
        /\ th'[u].began = th[u].began
        /\ th'[u].stale = (th[u].stale \/ (p # NULL /\ th[u].cur = p))
  BY <1>1, ZenonT(60) DEF Locals
<1>3. th'[t] = l /\ alive' = alive \ {p}
  BY DEF Freed
<1>4. th' \in [Threads -> Locals]
  <2>1. \A u \in Threads : th'[u] \in Locals
    BY <1>2, <1>3
  <2>2. th' = [u \in Threads |-> th'[u]]
    BY DEF Freed
  <2>3. QED
    BY <2>1, <2>2
<1>5. QED
  BY <1>2, <1>3, <1>4

(* The winner of the compare-and-swap frees the name that was published.   *)
LEMMA CasWonStep ==
  ASSUME NameInv, NEW t \in Threads, CasWon(t)
  PROVE  NameInv'
<1>1. PICK old, new, l :
        /\ old = th[t].cur /\ new = th[t].new
        /\ l = [cur |-> new, curPid |-> pid, stale |-> FALSE, new |-> NULL,
                began |-> th[t].began]
  OBVIOUS
<1>2. /\ pc[t] = "cas" /\ cache.name = old /\ cache' = [name |-> new, pid |-> pid]
      /\ Freed(old, t, l)
      /\ status' = IF old # NULL /\ old \notin alive THEN "doublefree" ELSE status
      /\ pc' = [pc EXCEPT ![t] = "use"]
      /\ UNCHANGED <<text, title, pid, calls, orphans>>
  BY <1>1 DEF CasWon, Swaps, Local, Goto
<1>3. /\ old \in Addrs \cup {NULL} /\ new \in Addrs /\ new # NULL /\ l \in Locals
      /\ th[t].began \in Titles
  BY <1>1, <1>2, NameAssumption DEF NameInv, TypeOK, Accounted, Locals
<1>4. /\ alive' = alive \ {old} /\ th' \in [Threads -> Locals] /\ th'[t] = l
      /\ \A u \in Threads \ {t} :
           /\ th'[u].cur = th[u].cur /\ th'[u].new = th[u].new
           /\ th'[u].began = th[u].began
           /\ ~th'[u].stale => ~th[u].stale /\ (old = NULL \/ th[u].cur # old)
  BY <1>2, <1>3, FreedFacts DEF NameInv
<1>5. status' = status
  BY <1>2 DEF NameInv, Accounted, Published
<1>6. TypeOK'
  BY <1>2, <1>3, <1>4, <1>5 DEF NameInv, TypeOK, Caches
<1>7. /\ pc'[t] = "use" /\ \A u \in Threads : u # t => pc'[u] = pc[u]
  BY <1>2 DEF NameInv, TypeOK
<1>8. Accounted'
  <2>1. /\ Private' = Private \ {new} /\ new \in Private
    <3>1. th'[t].new = NULL
      BY <1>1, <1>4
    <3>2. \A u \in Threads \ {t} : th'[u].new # new
      BY <1>1, <1>3, <1>4 DEF NameInv, Accounted
    <3>3. QED
      BY <1>1, <1>3, <1>4, <3>1, <3>2 DEF Private
  <2>2. Published' = {new} /\ Published = {old} \ {NULL}
    BY <1>2, <1>3 DEF Published
  <2>3. NULL \notin alive
    BY NameAssumption DEF NameInv, TypeOK
  <2>4. alive' = Published' \cup Private' \cup orphans'
    BY <1>2, <1>4, <2>1, <2>2, <2>3 DEF NameInv, Accounted
  <2>5. /\ Published' \cap (Private' \cup orphans') = {}
        /\ Private' \cap orphans' = {}
    BY <1>2, <2>1, <2>2 DEF NameInv, Accounted
  <2>6. \A u, v \in Threads : u # v /\ th'[u].new # NULL => th'[u].new # th'[v].new
    BY <1>1, <1>4 DEF NameInv, Accounted
  <2>7. \A u \in Threads : th'[u].new # NULL <=> pc'[u] = "cas"
    BY <1>1, <1>4, <1>7 DEF NameInv, Accounted
  <2>8. QED
    BY <2>4, <2>5, <2>6, <2>7 DEF Accounted
<1>9. Right(new, th[t].began) /\ new \in alive /\ new # old
  BY <1>1, <1>2, <1>3 DEF NameInv, InHand, Accounted, Private, Published
<1>10. CachedFor' /\ FreedOnce'
  BY <1>2, <1>3, <1>5, <1>9 DEF NameInv, CachedFor, FreedOnce, Right
<1>11. InHand'
  <2>1. /\ th'[t].began = th[t].began /\ th'[t].cur = new /\ new \in alive'
        /\ Right(new, th[t].began)'
    BY <1>1, <1>2, <1>4, <1>9 DEF Right
  <2>2. \A u \in Threads \ {t} :
          /\ th'[u].began # Zygote => title' # Zygote
          /\ pc'[u] = "cas" => Right(th[u].new, th[u].began)
          /\ pc'[u] = "compare" /\ ~th'[u].stale =>
               th[u].cur \in alive /\ th[u].cur # old /\ text[th[u].cur].pid = pid
          /\ pc'[u] = "use" /\ ~th'[u].stale =>
               th[u].cur \in alive /\ th[u].cur # old /\ Right(th[u].cur, th[u].began)
    <3>1. old = NULL => old \notin alive
      BY NameAssumption DEF NameInv, TypeOK
    <3>2. QED
      BY <1>2, <1>4, <1>7, <3>1 DEF NameInv, InHand
  <2>3. th[t].began # Zygote => title' # Zygote
    BY <1>2 DEF NameInv, InHand
  <2>4. QED
    BY <1>2, <1>4, <1>7, <2>1, <2>2, <2>3 DEF InHand, Right
<1>12. QED
  BY <1>6, <1>8, <1>10, <1>11 DEF NameInv

(* The loser frees its own name, which nobody else has seen.               *)
LEMMA CasLostStep ==
  ASSUME NameInv, NEW t \in Threads, CasLost(t)
  PROVE  NameInv'
<1>1. PICK new, l :
        /\ new = th[t].new
        /\ l = [cur |-> NULL, curPid |-> 0, stale |-> FALSE, new |-> NULL,
                began |-> th[t].began]
  OBVIOUS
<1>2. /\ pc[t] = "cas" /\ Freed(new, t, l) /\ pc' = [pc EXCEPT ![t] = "load"]
      /\ UNCHANGED <<cache, text, title, pid, calls, orphans, status>>
  BY <1>1 DEF CasLost, Local, NoCache, Goto
<1>3. new \in Addrs /\ new # NULL /\ l \in Locals /\ th[t].began \in Titles
  BY <1>1, <1>2, NameAssumption DEF NameInv, TypeOK, Accounted, Locals
<1>4. /\ alive' = alive \ {new} /\ th' \in [Threads -> Locals] /\ th'[t] = l
      /\ \A u \in Threads \ {t} :
           /\ th'[u].cur = th[u].cur /\ th'[u].new = th[u].new
           /\ th'[u].began = th[u].began
           /\ ~th'[u].stale => ~th[u].stale /\ th[u].cur # new
  BY <1>2, <1>3, FreedFacts DEF NameInv
<1>5. TypeOK'
  BY <1>2, <1>4 DEF NameInv, TypeOK
<1>6. /\ pc'[t] = "load" /\ \A u \in Threads : u # t => pc'[u] = pc[u]
  BY <1>2 DEF NameInv, TypeOK
<1>7. Accounted'
  <2>1. /\ Private' = Private \ {new} /\ new \in Private
    <3>1. th'[t].new = NULL
      BY <1>1, <1>4
    <3>2. \A u \in Threads \ {t} : th'[u].new # new
      BY <1>1, <1>3, <1>4 DEF NameInv, Accounted
    <3>3. QED
      BY <1>1, <1>3, <1>4, <3>1, <3>2 DEF Private
  <2>2. Published' = Published
    BY <1>2 DEF Published
  <2>3. alive' = Published' \cup Private' \cup orphans'
    BY <1>2, <1>4, <2>1, <2>2 DEF NameInv, Accounted
  <2>4. \A u, v \in Threads : u # v /\ th'[u].new # NULL => th'[u].new # th'[v].new
    BY <1>1, <1>4 DEF NameInv, Accounted
  <2>5. \A u \in Threads : th'[u].new # NULL <=> pc'[u] = "cas"
    BY <1>1, <1>4, <1>6 DEF NameInv, Accounted
  <2>6. QED
    BY <1>2, <2>1, <2>2, <2>3, <2>4, <2>5 DEF NameInv, Accounted
<1>8. CachedFor' /\ FreedOnce'
  BY <1>2 DEF NameInv, CachedFor, FreedOnce
<1>9. InHand'
  BY <1>1, <1>2, <1>4, <1>6 DEF NameInv, InHand, Right
<1>10. QED
  BY <1>5, <1>7, <1>8, <1>9 DEF NameInv

(* A child owns the published name; the private ones are orphans.          *)
LEMMA ForkStep ==
  ASSUME NameInv, NEW t \in Threads, Fork(t)
  PROVE  NameInv'
<1>1. /\ pid' = pid + 1 /\ orphans' = orphans \cup Private
      /\ pc' = [u \in Threads |-> IF u = t THEN "idle" ELSE "dead"]
      /\ th' = [u \in Threads |-> [cur |-> NULL, curPid |-> 0, stale |-> FALSE,
                                   new |-> NULL, began |-> Zygote]]
      /\ UNCHANGED <<cache, alive, text, title, calls, status>>
  BY DEF Fork, Idle, Local, NoCache
<1>2. TypeOK'
  <2>1. Private \subseteq Addrs
    BY DEF NameInv, Private, TypeOK, Locals
  <2>2. QED
    BY <1>1, <2>1, NameAssumption DEF NameInv, TypeOK, Locals
<1>3. Accounted'
  <2>1. Private' = {} /\ Published' = Published
    BY <1>1 DEF Private, Published
  <2>2. QED
    BY <1>1, <2>1 DEF NameInv, Accounted
<1>4. CachedFor' /\ FreedOnce' /\ InHand'
  BY <1>1 DEF NameInv, CachedFor, FreedOnce, InHand
<1>5. QED
  BY <1>2, <1>3, <1>4 DEF NameInv

(* Steps that only move a thread, rename the process or end the behaviour. *)
LEMMA OtherSteps ==
  ASSUME NameInv,
         \/ \E t \in Threads : Spawn(t) \/ MallocFails(t) \/ BadAccess(t)
         \/ \E n \in Titles : Rename(n)
  PROVE  NameInv'
<1>1. ASSUME NEW t \in Threads, Spawn(t) PROVE NameInv'
  <2>1. /\ pc' = [pc EXCEPT ![t] = "idle"] /\ pc[t] = "dead"
        /\ UNCHANGED <<cache, alive, text, title, pid, calls, orphans, status, th>>
    BY <1>1 DEF Spawn, Goto
  <2>2. TypeOK' /\ Private' = Private
    BY <2>1 DEF NameInv, TypeOK, Private
  <2>3. Accounted' /\ CachedFor' /\ FreedOnce' /\ InHand'
    BY <2>1, <2>2 DEF NameInv, TypeOK, Accounted, Published, CachedFor, FreedOnce,
                      InHand, Right
  <2>4. QED
    BY <2>2, <2>3 DEF NameInv
<1>2. ASSUME NEW t \in Threads, MallocFails(t) \/ BadAccess(t) PROVE NameInv'
  <2>1. /\ status' \in {"null", "freed"}
        /\ UNCHANGED <<cache, alive, text, title, pid, calls, orphans, pc, th>>
    BY <1>2 DEF MallocFails, BadAccess
  <2>2. TypeOK' /\ Private' = Private
    BY <2>1 DEF NameInv, TypeOK, Private
  <2>3. Accounted' /\ CachedFor' /\ FreedOnce' /\ InHand'
    BY <2>1, <2>2 DEF NameInv, Accounted, Published, CachedFor, FreedOnce, InHand, Right
  <2>4. QED
    BY <2>2, <2>3 DEF NameInv
<1>3. ASSUME NEW n \in Titles, Rename(n) PROVE NameInv'
  <2>1. /\ title' = n /\ n # Zygote
        /\ UNCHANGED <<cache, alive, text, pid, calls, orphans, status, pc, th>>
    BY <1>3 DEF Rename
  <2>2. TypeOK' /\ Private' = Private
    BY <2>1 DEF NameInv, TypeOK, Private
  <2>3. Accounted' /\ CachedFor' /\ FreedOnce' /\ InHand'
    BY <2>1, <2>2 DEF NameInv, Accounted, Published, CachedFor, FreedOnce, InHand, Right
  <2>4. QED
    BY <2>2, <2>3 DEF NameInv
<1>4. QED
  BY <1>1, <1>2, <1>3

-----------------------------------------------------------------------------
(* process_name() owns every name it has allocated: each is the published  *)
(* one, or in the hands of one thread, or lost by a fork.                  *)
THEOREM NameInvariant == Spec => []NameInv
<1>1. Init => NameInv
  BY InitNameInv
<1>2. NameInv /\ [Next]_vars => NameInv'
  <2> SUFFICES ASSUME NameInv, [Next]_vars PROVE NameInv'
    OBVIOUS
  <2>1. ASSUME NEW t \in Threads, Step(t) PROVE NameInv'
    BY <2>1, CallStep, LoadStep, CompareStep, ReadStep, CasWonStep, CasLostStep, UseStep,
       ForkStep, OtherSteps DEF Step
  <2>2. ASSUME UNCHANGED vars PROVE NameInv'
    BY <2>2 DEF vars, NameInv, TypeOK, Accounted, Published, Private, CachedFor,
                FreedOnce, InHand, Right
  <2>3. QED
    BY <2>1, <2>2, OtherSteps DEF Next, Rest
<1>3. QED
  BY <1>1, <1>2, PTL DEF Spec

(* No name is freed twice by process_name(), whatever addresses malloc()   *)
(* hands out again.                                                        *)
THEOREM NameFreedOnce == Spec => []FreedOnce
<1>1. NameInv => FreedOnce
  BY DEF NameInv
<1>2. QED
  BY <1>1, NameInvariant, PTL

(* What process_name() returns was read by this process, and is not the    *)
(* zygote's name when the call began after the process was renamed.        *)
THEOREM NameIsRight == Spec => []RightName
<1>1. NameInv => RightName
  BY DEF NameInv, InHand, Right, RightName
<1>2. QED
  BY <1>1, NameInvariant, PTL

-----------------------------------------------------------------------------
(* The cached pid is not that of a process still to be forked. *)
PidInv == cache.pid <= pid

(* Only a fork changes the pid, and only the winner of the                 *)
(* compare-and-swap the cached one.                                        *)
LEMMA PidStep ==
  ASSUME NameInv, PidInv, [Next]_vars
  PROVE  PidInv'
<1>1. cache.pid \in Nat /\ pid \in Nat
  BY DEF NameInv, TypeOK, Caches
<1>2. ASSUME NEW t \in Threads, Step(t) PROVE PidInv'
  <2>1. ASSUME CasWon(t) PROVE PidInv'
    BY <1>1, <2>1 DEF CasWon, PidInv
  <2>2. ASSUME Fork(t) PROVE PidInv'
    BY <1>1, <2>2 DEF Fork, PidInv
  <2>3. ASSUME UNCHANGED <<cache, pid>> PROVE PidInv'
    BY <2>3 DEF PidInv
  <2>4. QED
    BY <1>2, <2>1, <2>2, <2>3 DEF Step, process_name, LoadName, Compare, read_process_name,
       MallocFails, CasLost, UseName, BadAccess, Spawn
<1>3. ASSUME UNCHANGED <<cache, pid>> PROVE PidInv'
  BY <1>3 DEF PidInv
<1>4. QED
  BY <1>2, <1>3 DEF Next, Rename, Rest, vars

(* Steps that leave the cache, the names and what a thread holds alone.    *)
LEMMA SettledQuiet ==
  ASSUME NameInv, Settled, NEW t \in Threads,
         process_name(t) \/ Compare(t) \/ UseName(t) \/ Spawn(t)
  PROVE  Settled'
<1>1. /\ UNCHANGED <<cache, text, title, pid, status>>
      /\ \A u \in Threads \ {t} : th'[u] = th[u] /\ pc'[u] = pc[u]
  BY DEF NameInv, TypeOK, process_name, Compare, UseName, Spawn, Goto
<1>2. \/ pc'[t] \in {"load", "idle"}
      \/ pc'[t] = "use" /\ pc[t] = "compare" /\ th'[t] = th[t]
  <2>1. CASE Compare(t)
    <3>1. pc[t] = "compare" /\ th' = th /\ cache = [name |-> th[t].cur, pid |-> pid]
      BY <2>1 DEF Compare, Settled
    <3>2. text[th[t].cur].title # Zygote
      <4>1. cache.name # NULL
        BY <3>1 DEF NameInv, TypeOK, CachedFor
      <4>2. QED
        BY <3>1, <4>1 DEF Settled
    <3>3. QED
      BY <2>1, <3>1, <3>2 DEF Compare, Goto, NameInv, TypeOK
  <2>2. CASE process_name(t) \/ UseName(t) \/ Spawn(t)
    BY <2>2 DEF process_name, UseName, Spawn, Goto, NameInv, TypeOK
  <2>3. QED
    BY <2>1, <2>2
<1>3. QED
  BY <1>1, <1>2 DEF Settled

(* A thread that finds a name of this process goes on with it.             *)
LEMMA SettledLoad ==
  ASSUME NameInv, Settled, NEW t \in Threads, LoadName(t)
  PROVE  Settled'
<1>1. /\ UNCHANGED <<cache, text, title, pid, status>>
      /\ th' = [th EXCEPT ![t] = [cur |-> cache.name, curPid |-> cache.pid, stale |-> FALSE,
                                  new |-> NULL, began |-> th[t].began]]
      /\ pc' = [pc EXCEPT ![t] = IF cache.pid = pid THEN "compare" ELSE "read"]
  BY DEF LoadName, Local, Goto, Current
<1>2. \A u \in Threads \ {t} : th'[u] = th[u] /\ pc'[u] = pc[u]
  BY <1>1 DEF NameInv, TypeOK
<1>3. /\ th'[t].cur = cache.name /\ th'[t].curPid = cache.pid /\ ~th'[t].stale
      /\ pc'[t] = IF cache.pid = pid THEN "compare" ELSE "read"
  BY <1>1 DEF NameInv, TypeOK
<1>4. cache = [name |-> cache.name, pid |-> cache.pid]
  BY DEF NameInv, TypeOK, Caches
<1>5. QED
  BY <1>1, <1>2, <1>3, <1>4 DEF Settled

(* A name that is read is this process's, at an address nobody uses.       *)
LEMMA SettledRead ==
  ASSUME NameInv, Settled, NEW t \in Threads, read_process_name(t)
  PROVE  Settled'
<1>1. PICK p \in Addrs \ alive, n \in {title, Uid} :
        /\ text' = [text EXCEPT ![p] = [title |-> n, pid |-> pid]]
        /\ th' = [th EXCEPT ![t].new = p]
  BY DEF read_process_name
<1>2. /\ UNCHANGED <<cache, title, pid, status>> /\ pc[t] = "read"
      /\ pc' = [pc EXCEPT ![t] = "cas"]
  BY DEF read_process_name, Goto
<1>3. \A u \in Threads \ {t} : th'[u] = th[u] /\ pc'[u] = pc[u]
  BY <1>1, <1>2 DEF NameInv, TypeOK
<1>4. pc'[t] = "cas" /\ th'[t].new = p /\ th'[t].curPid = th[t].curPid
  BY <1>1, <1>2 DEF NameInv, TypeOK, Locals
<1>5. text'[p].title # Zygote
  BY <1>1, NameAssumption DEF Settled, NameInv, TypeOK
<1>6. cache.name # NULL => cache.name # p /\ text'[cache.name] = text[cache.name]
  BY <1>1 DEF NameInv, TypeOK, Caches, Accounted, Published
<1>7. \A u \in Threads \ {t} : pc[u] = "cas" =>
        th[u].new # p /\ text'[th[u].new] = text[th[u].new]
  <2>1. \A u \in Threads : pc[u] = "cas" => th[u].new \in alive
    BY DEF NameInv, Accounted, Private
  <2>2. QED
    BY <1>1, <2>1 DEF NameInv, TypeOK
<1>8. QED
  BY <1>2, <1>3, <1>4, <1>5, <1>6, <1>7 DEF Settled

(* The name that is replaced is a parent's, which nobody reads any more.   *)
LEMMA SettledCasWon ==
  ASSUME NameInv, Settled, NEW t \in Threads, CasWon(t)
  PROVE  Settled'
<1>1. /\ pc[t] = "cas" /\ cache = [name |-> th[t].cur, pid |-> th[t].curPid]
      /\ cache' = [name |-> th[t].new, pid |-> pid]
      /\ pc' = [pc EXCEPT ![t] = "use"]
      /\ UNCHANGED <<text, title, pid>>
      /\ status' = IF th[t].cur # NULL /\ th[t].cur \notin alive THEN "doublefree" ELSE status
  BY DEF CasWon, Swaps, Goto
<1>2. cache.pid # pid
  BY <1>1 DEF Settled
<1>3. \A u \in Threads : pc[u] \notin {"compare", "use"}
  BY <1>2 DEF Settled
<1>4. th'[t] = [cur |-> th[t].new, curPid |-> pid, stale |-> FALSE, new |-> NULL,
               began |-> th[t].began]
  BY DEF CasWon, Freed, Local
<1>5. \A u \in Threads \ {t} :
        pc'[u] = pc[u] /\ th'[u].curPid = th[u].curPid /\ th'[u].new = th[u].new
  <2>1. \A u \in Threads \ {t} :
          th'[u] = [th[u] EXCEPT !.stale = @ \/ (th[t].cur # NULL /\ th[u].cur = th[t].cur)]
    BY DEF CasWon, Freed
  <2>2. \A u \in Threads \ {t} : th[u] \in Locals /\ pc'[u] = pc[u]
    BY <1>1 DEF NameInv, TypeOK
  <2>3. QED
    BY <2>1, <2>2, ZenonT(60) DEF Locals
<1>6. pc'[t] = "use" /\ ~th'[t].stale /\ th'[t].cur = th[t].new
  BY <1>1, <1>4 DEF NameInv, TypeOK
<1>7. text[th[t].new].title # Zygote
  BY <1>1 DEF Settled
<1>8. QED
  BY <1>1, <1>3, <1>5, <1>6, <1>7 DEF Settled

(* The loser frees the name it read, which nobody else knows.              *)
LEMMA SettledCasLost ==
  ASSUME NameInv, Settled, NEW t \in Threads, CasLost(t)
  PROVE  Settled'
<1>1. /\ pc[t] = "cas" /\ pc' = [pc EXCEPT ![t] = "load"]
      /\ UNCHANGED <<cache, text, title, pid, status>>
  BY DEF CasLost, Goto
<1>2. \A u \in Threads \ {t} :
        /\ pc'[u] = pc[u] /\ th'[u].curPid = th[u].curPid /\ th'[u].new = th[u].new
        /\ th'[u].cur = th[u].cur
        /\ th'[u].stale = (th[u].stale \/ (th[t].new # NULL /\ th[u].cur = th[t].new))
  <2>1. \A u \in Threads \ {t} :
          th'[u] = [th[u] EXCEPT !.stale = @ \/ (th[t].new # NULL /\ th[u].cur = th[t].new)]
    BY DEF CasLost, Freed
  <2>2. \A u \in Threads \ {t} : th[u] \in Locals /\ pc'[u] = pc[u]
    BY <1>1 DEF NameInv, TypeOK
  <2>3. QED
    BY <2>1, <2>2, ZenonT(60) DEF Locals
<1>3. pc'[t] = "load"
  BY <1>1 DEF NameInv, TypeOK
<1>4. th[t].new # NULL /\ th[t].new # cache.name
  BY <1>1 DEF NameInv, Accounted, Private, Published
<1>5. \A u \in Threads \ {t} : pc'[u] \in {"compare", "use"} => ~th'[u].stale
  <2>1. \A u \in Threads \ {t} : pc[u] \in {"compare", "use"} =>
          ~th[u].stale /\ th[u].cur = cache.name
    BY DEF Settled
  <2>2. QED
    BY <1>2, <1>4, <2>1
<1>6. QED
  BY <1>1, <1>2, <1>3, <1>5 DEF Settled

(* A child finds its parent's name, and is alone.                          *)
LEMMA SettledFork ==
  ASSUME NameInv, PidInv, Settled, NEW t \in Threads, Fork(t)
  PROVE  Settled'
<1>1. /\ pid' = pid + 1 /\ UNCHANGED <<cache, text, title, status>>
      /\ \A u \in Threads : pc'[u] \in {"idle", "dead"}
  BY DEF Fork
<1>2. cache.pid # pid + 1
  BY DEF NameInv, TypeOK, Caches, PidInv
<1>3. QED
  BY <1>1, <1>2 DEF Settled

(* Once a process has its own name and nobody is about to replace it, no   *)
(* call of process_name() frees a name under a caller that still reads it. *)
THEOREM NameStaysValid == Spec => NameStays
<1>1. Init => PidInv
  BY DEF Init, NoCache, PidInv
<1>2. NameInv /\ PidInv /\ [Next]_vars => PidInv'
  BY PidStep
<1>3. NameInv /\ PidInv /\ [Next]_vars => [Settled => Settled']_vars
  <2> SUFFICES ASSUME NameInv, PidInv, Settled, [Next]_vars PROVE Settled'
    OBVIOUS
  <2>1. ASSUME NEW t \in Threads, Step(t) PROVE Settled'
    <3>1. ~BadAccess(t)
      BY DEF BadAccess, Settled
    <3>2. ASSUME MallocFails(t) PROVE Settled'
      BY <3>2 DEF MallocFails, Settled
    <3>3. QED
      BY <2>1, <3>1, <3>2, SettledQuiet, SettledLoad, SettledRead, SettledCasWon,
         SettledCasLost, SettledFork DEF Step
  <2>2. ASSUME NEW n \in Titles, Rename(n) PROVE Settled'
    BY <2>2 DEF Rename, Settled
  <2>3. ASSUME UNCHANGED vars PROVE Settled'
    BY <2>3 DEF vars, Settled
  <2>4. QED
    BY <2>1, <2>2, <2>3 DEF Next, Rest
<1>4. QED
  BY <1>1, <1>2, <1>3, NameInvariant, PTL DEF Spec, NameStays
=============================================================================
