--------------------------- MODULE NamespaceProofs ---------------------------
(***************************************************************************)
(* Proofs about Namespace, for any files, paths, calls and threads: a      *)
(* record of a new file is of a file the call made, the MODE of a record   *)
(* is that of the file where the path is the place the kernel worked on,   *)
(* and replaying the records gives the files that are there.               *)
(***************************************************************************)
EXTENDS Namespace, TLAPS

-----------------------------------------------------------------------------
(* The inductive invariant.                                                *)

(* The path a thread's record will give. *)
Old(t) == Named(call[t].base, call[t].path)

Opening == {"create", "fopen"}
Removing == {"unlink", "rename"}

(* Before its system call a thread has nothing from an earlier one. *)
Before(t) ==
  pc[t] \in {"idle", "look", "call"} =>
    /\ ok[t] = FALSE /\ ret[t] = "fail" /\ rec[t] = None /\ made[t] = {} /\ gone[t] = {}
    /\ pc[t] = "idle" => disturbed[t] = {}

(* A thread has something to record only if it found its path. *)
Found(t) ==
  pc[t] \in {"call", "log", "done"} =>
    /\ exists[t] = FALSE => /\ Old(t) \in NamedPaths /\ LooksForNew(call[t])
                            /\ Place(AT_FDCWD, Old(t)) # None
    /\ flag[t] # {} => /\ Old(t) \in NamedPaths /\ ~skip_path(Old(t)) /\ traced
                       /\ call[t].op \in Removing

(* What a thread found when it looked is still so, unless somebody came.   *)
Looked(t) ==
  pc[t] = "call" =>
    /\ exists[t] = FALSE /\ Old(t) \in Places /\ {Old(t), Target} \cap disturbed[t] = {}
         => Missing(Old(t))
    /\ LooksForNew(call[t]) /\ Old(t) \in Places \ disturbed[t] /\ fs[Old(t)] = "absent"
       /\ Place(AT_FDCWD, Old(t)) # None
         => exists[t] = FALSE
    /\ call[t].op \in Removing /\ traced /\ Old(t) \in NamedPaths
       /\ (Old(t) \in Places \ disturbed[t] \/ Old(t).name = Odd)
         => flag[t] = Notify(Lstat(Old(t)), S_IFREG \cup S_IFDIR, Old(t))

(* A file that was missing is one the call made. *)
MadeNew(t) ==
  ok[t] /\ exists[t] = FALSE /\ call[t].op \in Opening /\ ~skip_path(Old(t)) =>
    \/ made[t] = {Old(t)} \/ made[t] = {Target}
    \/ {Old(t), Target} \cap disturbed[t] # {}
    \/ Old(t).name = Odd

(* What was found is what is removed or moved, where the path is the place *)
(* the kernel worked on.                                                   *)
TrueMode(t) ==
  ok[t] /\ flag[t] # {} =>
    \/ Old(t) \in disturbed[t]
    \/ Old(t) # Place(KernelBase(call[t]), call[t].path)
    \/ Mode(flag[t]) = [file |-> "FILE", dir |-> "DIR", link |-> "UNKNOWN",
                        sock |-> "FILE_OR_DIR", fifo |-> "none"][kind[t]]

(* The record a thread wrote. *)
Written(t) ==
  pc[t] = "done" /\ rec[t] # None =>
    /\ ok[t] /\ rec[t].old = Old(t) /\ ~skip_path(Old(t))
    /\ call[t].op \in Opening => exists[t] = FALSE
    /\ call[t].op \in Removing => flag[t] # {} /\ rec[t].mode = Mode(flag[t])

(* All of this about one thread. *)
Thread(t) ==
  /\ Before(t) /\ Found(t) /\ Looked(t) /\ Written(t)
  /\ pc[t] \in {"log", "done"} => MadeNew(t) /\ TrueMode(t)

ThreadInv == \A t \in Threads : Thread(t)

(* The places whose change a thread has still to record. *)
Pending(t) == IF pc[t] = "log" THEN made[t] \cup gone[t] ELSE {}

(* A thread may write a record, and the places it then adds and removes. *)
Tells(t) ==
  /\ ok[t] /\ traced
  /\ IF call[t].op \in Opening THEN exists[t] = FALSE /\ ~skip_path(Old(t)) ELSE flag[t] # {}

Adds(t) ==
  IF ~Tells(t) THEN {}
  ELSE IF call[t].op \in Opening THEN {Old(t)}
  ELSE IF call[t].op = "rename" THEN {New(call[t])} ELSE {}

Removes(t) ==
  IF ~Tells(t) \/ call[t].op \in Opening THEN {}
  ELSE IF call[t].op = "rename" THEN {Old(t)} \ {New(call[t])} ELSE {Old(t)}

(* The record a thread has still to write is right about place l. *)
Right(t, l) ==
  /\ l \in made[t] => l \in Adds(t)
  /\ l \in made[t] /\ call[t].op \in Opening => opened[t] = "file" /\ fs[l] = "file"
  /\ l \in gone[t] => l \in Removes(t)
  /\ l \in Adds(t) => fs[l] # "absent"
  /\ l \in Removes(t) => l \in gone[t] /\ fs[l] = "absent"

(* At every place that the trace follows, the record that is still to come *)
(* makes up the difference.                                                *)
TraceInv ==
  /\ \A t \in Threads : Inside(t) => disturbed[t] \cap Touch(call[t]) \subseteq blind
  /\ \A t \in Threads : Pending(t) \subseteq Touch(call[t]) \cup blind
  /\ \A t, u \in Threads : t # u => Pending(t) \cap Pending(u) \subseteq blind
  /\ \A l \in Places \ blind :
       (\A t \in Threads : l \notin Pending(t)) => (l \in replay <=> fs[l] # "absent")
  /\ \A t \in Threads : pc[t] = "log" => \A l \in Places \ blind : Right(t, l)

-----------------------------------------------------------------------------
(* The paths and places of a call.                                         *)

(* The fields of a call. *)
LEMMA CallTypes ==
  ASSUME NEW c \in Calls
  PROVE  /\ c.op \in {"create", "fopen", "unlink", "rename"}
         /\ c.how \in {"creat", "excl", "none", "plus", "plain", "file", "rmdir", "move"}
         /\ c.base \in Bases /\ c.path \in Paths /\ c.tobase \in Bases
         /\ c.op = "rename" => c.to \in Paths
         /\ c.op = "rename" => c.how = "move"
         /\ c.op = "unlink" => c.how \in {"file", "rmdir"}
         /\ c.op = "create" => c.how \in {"creat", "excl", "none"}
         /\ c.op = "fopen" => c.how \in {"plus", "plain"}
BY NamespaceAssumption DEF CallSet, Bases

(* A path the tracer takes a call for. *)
LEMMA NamedType ==
  ASSUME NEW base \in Bases, NEW q \in Paths
  PROVE  Named(base, q) \in NamedPaths \cup {None}
BY NamespaceAssumption DEF Bases, Paths, NamedPaths, Named

(* What the kernel finds is a place. *)
LEMMA PlaceType ==
  ASSUME NEW base, NEW q \in NamedPaths, q.name # Odd
  PROVE  Place(base, q) \in Places \cup {None}
BY NamespaceAssumption DEF NamedPaths, Places, Place

(* Every path of a call is one a record may give, and no place is None. *)
LEMMA PathTypes ==
  /\ Paths \subseteq NamedPaths
  /\ Places \subseteq NamedPaths
  /\ None \notin NamedPaths
  /\ \A q \in Paths : q.name # Odd
  /\ \A l \in Places : l.name # Odd /\ l.dir \in Dirs
BY NamespaceAssumption DEF Paths, NamedPaths, Places

(* Where the kernel finds a complete path, the tracer names that place.    *)
LEMMA Same ==
  ASSUME NEW base \in Bases, NEW q \in Paths, Named(base, q) \in Places, Place(base, q) # None
  PROVE  Place(base, q) = Named(base, q)
<1>1. CASE base = AT_FDCWD
  BY <1>1, NamespaceAssumption DEF Bases, Paths, Places, Named, Place
<1>2. CASE base \in Dirs /\ q.dir = Rel
  BY <1>2, NamespaceAssumption DEF Bases, Paths, Places, Named, Place
<1>3. CASE base \in Dirs /\ q.dir # Rel
  BY <1>3, NamespaceAssumption DEF Bases, Paths, Places, Named, Place
<1>4. CASE base = Bad
  BY <1>4, NamespaceAssumption, PathTypes DEF Named
<1> QED BY <1>1, <1>2, <1>3, <1>4 DEF Bases

(* An absolute path is found where it says. *)
LEMMA PlaceSelf ==
  ASSUME NEW p \in Places
  PROVE  /\ Place(AT_FDCWD, p) \in {p, None}
         /\ Place(AT_FDCWD, p) = None <=> p.dir \in Denied
<1>1. p.dir \in Dirs /\ p.dir # Rel /\ p = [dir |-> p.dir, name |-> p.name]
  BY NamespaceAssumption DEF Places
<1>2. p # None
  BY PathTypes
<1> QED BY <1>1, <1>2 DEF Place

(* A path under a traced prefix is a place, or behind a descriptor. *)
LEMMA TracedNamed ==
  ASSUME NEW p \in NamedPaths, ~skip_path(p), p.name # Odd
  PROVE  p \in Places
BY NamespaceAssumption DEF NamedPaths, Places, skip_path

(* The new path of a rename, where it is complete, is where the file goes. *)
LEMMA NewIsTo ==
  ASSUME NEW c \in Calls, c.op = "rename"
  PROVE  /\ New(c) \in NamedPaths
         /\ New(c) \in Places /\ Place(c.tobase, c.to) # None => New(c) = Place(c.tobase, c.to)
<1>1. c.base \in Bases /\ c.tobase \in Bases /\ c.to \in Paths
  BY CallTypes
<1>2. CASE c.base # AT_FDCWD /\ c.tobase \in Dirs
  <2>1. New(c) = Named(c.tobase, c.to)
    BY <1>2 DEF New
  <2>2. Named(c.tobase, c.to) # None
    BY <1>1, <1>2, PathTypes, NamespaceAssumption DEF Named, NamedPaths, Paths
  <2> QED BY <1>1, <2>1, <2>2, NamedType, Same
<1>3. CASE ~(c.base # AT_FDCWD /\ c.tobase \in Dirs)
  <2>1. New(c) = c.to
    BY <1>3 DEF New
  <2>2. ASSUME c.to \in Places, Place(c.tobase, c.to) # None
        PROVE  c.to = Place(c.tobase, c.to)
    BY <2>2, NamespaceAssumption DEF Places, Place
  <2> QED BY <1>1, <2>1, <2>2, PathTypes
<1> QED BY <1>2, <1>3

(* A call changes nothing that it does not touch. *)
LEMMA TouchFacts ==
  ASSUME NEW c
  PROVE  /\ Touch(c) \subseteq Places
         /\ Place(c.base, c.path) \in Places => Place(c.base, c.path) \in Touch(c)
         /\ Place(KernelBase(c), c.path) \in Places => Place(KernelBase(c), c.path) \in Touch(c)
         /\ Named(c.base, c.path) \in Places => Named(c.base, c.path) \in Touch(c)
         /\ c.op = "rename" /\ New(c) \in Places => New(c) \in Touch(c)
         /\ c.op = "rename" /\ Place(c.tobase, c.to) \in Places => Place(c.tobase, c.to) \in Touch(c)
BY DEF Touch

(* The types of files and the words for them. *)
LEMMA BitsFacts ==
  /\ Bits("file") = {15} /\ Bits("dir") = {14} /\ Bits("link") = {15, 13}
  /\ Bits("sock") = {15, 14} /\ Bits("fifo") = {12}
BY DEF Bits, S_IFREG, S_IFDIR

(* What notify() says of a file. *)
LEMMA NotifyFacts ==
  ASSUME NEW p, NEW k, NEW flags, flags \in {S_IFREG, S_IFREG \cup S_IFDIR}
  PROVE  /\ Notify(k, flags, p) # {} => ~skip_path(p) /\ k # "denied"
         /\ k \in Kinds \cup {"absent", "denied"} => Notify(k, flags, p) \subseteq 12 .. 15
         /\ ~skip_path(p) /\ k = "file" => Notify(k, flags, p) # {}
         /\ ~skip_path(p) /\ k = "absent" => Notify(k, flags, p) # {}
         /\ flags = S_IFREG \cup S_IFDIR /\ ~skip_path(p) /\ k \in {"file", "dir", "link", "sock"}
              => Notify(k, flags, p) = Bits(k)
         /\ flags = S_IFREG \cup S_IFDIR /\ k = "fifo" => Notify(k, flags, p) = {}
BY BitsFacts DEF Notify, S_IFREG, S_IFDIR, Kinds

(* A record's MODE is one of the words, the one for the type of the file.  *)
LEMMA ModeFacts ==
  /\ \A b : Mode(b) \in {"FILE_OR_DIR", "FILE", "DIR", "UNKNOWN"}
  /\ \A k \in {"file", "dir", "link", "sock"} :
       Mode(Bits(k)) = [file |-> "FILE", dir |-> "DIR", link |-> "UNKNOWN",
                        sock |-> "FILE_OR_DIR", fifo |-> "none"][k]
BY BitsFacts DEF Mode, S_IFREG, S_IFDIR

-----------------------------------------------------------------------------
(* What a system call that succeeds does.                                  *)

(* A link is followed to a place. *)
LEMMA FollowType ==
  ASSUME NEW l \in Places
  PROVE  Follow(l) \in Places
BY NamespaceAssumption DEF Follow

(* open() and fopen() make a file where they were led, or open one. *)
LEMMA OpensFacts ==
  ASSUME TypeOK, NEW c \in Calls, c.op \in Opening, NEW r \in Opens(c)
  PROVE  LET l == Place(c.base, c.path) IN
         /\ l \in Places
         /\ r.gone = {} /\ r.kind = "absent"
         /\ r.opened \in {"file", "fifo", "dir"}
         /\ \/ /\ r.made = {} /\ r.fs = fs /\ c.how # "excl"
               /\ fs[Follow(l)] # "absent"
            \/ /\ c.how # "none" /\ r.opened = "file"
               /\ \E x \in Places :
                    /\ r.made = {x} /\ r.fs = [fs EXCEPT ![x] = "file"] /\ fs[x] = "absent"
                    /\ x \in {l, Follow(l)}
                    /\ c.how # "excl" => x = Follow(l)
                    /\ c.how = "excl" => x = l
<1> DEFINE l == Place(c.base, c.path)
           x == IF c.how = "excl" THEN l ELSE Follow(l)
<1>1. c.path \in Paths /\ KernelBase(c) = c.base
  BY CallTypes DEF KernelBase, Opening
<1>2. l \in Places \cup {None}
  BY <1>1, PlaceType, PathTypes
<1>3. l # None
  BY <1>1 DEF Opens
<1>4. l \in Places /\ x \in Places
  BY <1>2, <1>3, FollowType
<1>5. CASE fs[x] = "absent" /\ c.how # "none"
  <2>1. r = [fs |-> [fs EXCEPT ![x] = "file"], made |-> {x}, gone |-> {}, kind |-> "absent",
             opened |-> "file"]
    BY <1>1, <1>3, <1>5 DEF Opens
  <2> QED BY <1>4, <1>5, <2>1
<1>6. CASE ~(fs[x] = "absent" /\ c.how # "none")
  <2>1. /\ c.how # "excl" /\ fs[x] \in {"file", "fifo", "dir"}
        /\ r = [fs |-> fs, made |-> {}, gone |-> {}, kind |-> "absent", opened |-> fs[x]]
    BY <1>1, <1>3, <1>6 DEF Opens
  <2> QED BY <1>4, <2>1
<1> QED BY <1>5, <1>6

(* unlink() empties the place the kernel finds. *)
LEMMA UnlinksFacts ==
  ASSUME TypeOK, NEW c \in Calls, c.op = "unlink", NEW r \in Unlinks(c)
  PROVE  LET l == Place(KernelBase(c), c.path) IN
         /\ l \in Places /\ fs[l] # "absent"
         /\ r.gone = {l} /\ r.made = {} /\ r.kind = fs[l] /\ r.opened = None
         /\ r.fs = [fs EXCEPT ![l] = "absent"]
<1> DEFINE l == Place(KernelBase(c), c.path)
<1>1. l \in Places \cup {None}
  BY CallTypes, PlaceType, PathTypes
<1>2. /\ l # None /\ fs[l] # "absent"
      /\ r = [fs |-> [fs EXCEPT ![l] = "absent"], made |-> {}, gone |-> {l}, kind |-> fs[l],
              opened |-> None]
  BY DEF Unlinks
<1> QED BY <1>1, <1>2

(* rename() moves what is at one place to the other, or does nothing. *)
LEMMA RenamesFacts ==
  ASSUME TypeOK, NEW c \in Calls, c.op = "rename", NEW r \in Renames(c)
  PROVE  LET a == Place(c.base, c.path)
             b == Place(c.tobase, c.to)
         IN
         /\ a \in Places /\ b \in Places /\ fs[a] # "absent"
         /\ r.kind = fs[a] /\ r.opened = None
         /\ \/ a = b /\ r.made = {} /\ r.gone = {} /\ r.fs = fs
            \/ /\ a # b /\ r.made = {b} /\ r.gone = {a}
               /\ r.fs = [fs EXCEPT ![a] = "absent", ![b] = fs[a]]
<1> DEFINE a == Place(c.base, c.path)
           b == Place(c.tobase, c.to)
<1>1. a \in Places \cup {None} /\ b \in Places \cup {None}
  BY CallTypes, PlaceType, PathTypes
<1>2. a # None /\ b # None /\ fs[a] # "absent"
  BY DEF Renames
<1>3. CASE a = b
  <2>1. r = [fs |-> fs, made |-> {}, gone |-> {}, kind |-> fs[a], opened |-> None]
    BY <1>2, <1>3 DEF Renames
  <2> QED BY <1>1, <1>2, <1>3, <2>1
<1>4. CASE a # b
  <2>1. r = [fs |-> [fs EXCEPT ![a] = "absent", ![b] = fs[a]], made |-> {b}, gone |-> {a},
             kind |-> fs[a], opened |-> None]
    BY <1>2, <1>4 DEF Renames
  <2> QED BY <1>1, <1>2, <1>4, <2>1
<1> QED BY <1>3, <1>4

(* What every system call has in common. *)
LEMMA SucceedsFacts ==
  ASSUME TypeOK, NEW c \in Calls, NEW r \in Succeeds(c)
  PROVE  /\ r.fs \in [Places -> Kinds \cup {"absent"}]
         /\ r.made \subseteq Places /\ r.gone \subseteq Places
         /\ r.kind \in Kinds \cup {"absent"} /\ r.opened \in {"file", "fifo", "dir", None}
         /\ r.made \cap r.gone = {}
         /\ \A l \in Places : /\ l \notin r.made \cup r.gone => r.fs[l] = fs[l]
                              /\ l \in r.made => r.fs[l] # "absent"
                              /\ l \in r.gone => r.fs[l] = "absent"
         /\ c.op \in Opening => /\ r.gone = {}
                                /\ \A l \in r.made : r.opened = "file" /\ r.fs[l] = "file"
<1>0. fs \in [Places -> Kinds \cup {"absent"}]
  BY DEF TypeOK
<1>1. CASE c.op \in Opening
  <2>1. r \in Opens(c)
    BY <1>1 DEF Succeeds, Opening
  <2>2. CASE r.made = {} /\ r.fs = fs
    BY <1>0, <1>1, <2>1, <2>2, OpensFacts
  <2>3. CASE ~(r.made = {} /\ r.fs = fs)
    <3>1. PICK x \in Places : r.made = {x} /\ r.fs = [fs EXCEPT ![x] = "file"]
      BY <1>1, <2>1, <2>3, OpensFacts
    <3>2. r.gone = {} /\ r.kind = "absent" /\ r.opened = "file"
      BY <1>1, <2>1, <2>3, OpensFacts
    <3> QED BY <1>0, <3>1, <3>2 DEF Kinds
  <2> QED BY <2>2, <2>3
<1>2. CASE c.op = "unlink"
  <2>1. r \in Unlinks(c)
    BY <1>2 DEF Succeeds, Opening
  <2>2. PICK l \in Places : /\ r.gone = {l} /\ r.made = {} /\ r.kind = fs[l] /\ r.opened = None
                            /\ r.fs = [fs EXCEPT ![l] = "absent"]
    BY <1>2, <2>1, UnlinksFacts
  <2> QED BY <1>0, <1>2, <2>2 DEF Opening
<1>3. CASE c.op = "rename"
  <2>1. r \in Renames(c)
    BY <1>3 DEF Succeeds, Opening
  <2>2. CASE r.made = {} /\ r.gone = {} /\ r.fs = fs
    <3>1. r.kind \in Kinds \cup {"absent"} /\ r.opened = None
      BY <1>0, <1>3, <2>1, RenamesFacts
    <3> QED BY <1>0, <1>3, <2>2, <3>1 DEF Opening
  <2>3. CASE ~(r.made = {} /\ r.gone = {} /\ r.fs = fs)
    <3>1. PICK a \in Places, b \in Places :
            /\ a # b /\ r.made = {b} /\ r.gone = {a} /\ r.kind = fs[a] /\ fs[a] # "absent"
            /\ r.fs = [fs EXCEPT ![a] = "absent", ![b] = fs[a]] /\ r.opened = None
      BY <1>3, <2>1, <2>3, RenamesFacts
    <3> QED BY <1>0, <1>3, <3>1 DEF Opening
  <2> QED BY <2>2, <2>3
<1> QED BY <1>1, <1>2, <1>3, CallTypes DEF Opening

-----------------------------------------------------------------------------
(* Types.                                                                  *)

(* The parts of TypeOK about what a thread remembers. *)
LEMMA CallOfThread ==
  ASSUME TypeOK, NEW t \in Threads, pc[t] # "idle"
  PROVE  /\ call[t] \in Calls
         /\ Old(t) \in NamedPaths \cup {None}
BY CallTypes, NamedType DEF TypeOK, Old

(* What lstat() says. *)
LEMMA LstatType ==
  ASSUME TypeOK, NEW p \in NamedPaths
  PROVE  Lstat(p) \in Kinds \cup {"absent", "denied"}
BY PlaceType DEF TypeOK, Lstat

(* In the beginning. *)
LEMMA InitType == Init => TypeOK
BY NamespaceAssumption DEF Init, TypeOK, Kinds

(* A call begins. *)
LEMMA BeginType ==
  ASSUME TypeOK, NEW t \in Threads, Begin(t)
  PROVE  TypeOK'
<1>1. PICK c \in Calls : call' = [call EXCEPT ![t] = c]
  BY DEF Begin
<1>2. pc' = [pc EXCEPT ![t] = "look"] /\ events' = events + 1 /\ events < MaxEvents
  BY DEF Begin
<1>3. /\ UNCHANGED <<fs, traced, exists, flag, opened, ok, ret, rec, made, gone, kind>>
      /\ UNCHANGED <<disturbed, replay, blind>>
  BY DEF Begin, history
<1>4. /\ call' \in [Threads -> Calls \cup {None}]
      /\ \A u \in Threads : pc'[u] # "idle" => call'[u] \in Calls
      /\ pc' \in [Threads -> {"idle", "look", "call", "log", "done"}]
  BY <1>1, <1>2 DEF TypeOK
<1>5. events' \in 0 .. MaxEvents
  BY <1>2, NamespaceAssumption DEF TypeOK
<1> QED BY <1>3, <1>4, <1>5 DEF TypeOK

(* A hook looks at its path. *)
LEMMA LookType ==
  ASSUME TypeOK, NEW t \in Threads, Look(t)
  PROVE  TypeOK'
<1> DEFINE c == call[t]
           e == ~(LooksForNew(c) /\ Old(t) # None /\ Missing(Old(t)))
           f == IF c.op \in {"unlink", "rename"} /\ traced /\ Old(t) # None
                  THEN Notify(Lstat(Old(t)), S_IFREG \cup S_IFDIR, Old(t)) ELSE {}
<1>1. /\ pc[t] = "look" /\ pc' = [pc EXCEPT ![t] = "call"]
      /\ exists' = [exists EXCEPT ![t] = e] /\ flag' = [flag EXCEPT ![t] = f]
  BY DEF Look, Old
<1>2. /\ UNCHANGED <<fs, traced, call, opened, ok, ret, rec, made, gone, kind, events>>
      /\ UNCHANGED <<disturbed, replay, blind>>
  BY DEF Look, history
<1>3. Old(t) \in NamedPaths \cup {None}
  BY <1>1, CallOfThread
<1>4. f \subseteq 12 .. 15
  BY <1>3, LstatType, NotifyFacts
<1>5. e \in BOOLEAN
  OBVIOUS
<1> HIDE DEF e, f
<1>6. exists' \in [Threads -> BOOLEAN] /\ flag' \in [Threads -> SUBSET (12 .. 15)]
  BY <1>1, <1>4, <1>5 DEF TypeOK
<1>7. /\ pc' \in [Threads -> {"idle", "look", "call", "log", "done"}]
      /\ \A u \in Threads : pc'[u] # "idle" => call'[u] \in Calls
  BY <1>1, <1>2 DEF TypeOK
<1> QED BY <1>2, <1>6, <1>7 DEF TypeOK

(* What a system call changes, whether it succeeds or fails. *)
LEMMA SyscallFacts ==
  ASSUME TypeOK, NEW t \in Threads, Syscall(t)
  PROVE  /\ TypeOK'
         /\ pc[t] = "call" /\ pc' = [pc EXCEPT ![t] = "log"]
         /\ UNCHANGED <<traced, call, exists, flag, rec, replay, events>>
         /\ \/ UNCHANGED <<fs, ok, ret, opened, made, gone, kind, disturbed, blind>>
            \/ \E r \in Succeeds(call[t]) :
                 /\ fs' = r.fs
                 /\ ok' = [ok EXCEPT ![t] = TRUE]
                 /\ ret' = [ret EXCEPT ![t] = "ok"]
                 /\ opened' = [opened EXCEPT ![t] = r.opened]
                 /\ made' = [made EXCEPT ![t] = r.made]
                 /\ gone' = [gone EXCEPT ![t] = r.gone]
                 /\ kind' = [kind EXCEPT ![t] = r.kind]
                 /\ disturbed' = [u \in Threads |->
                      IF u # t /\ Inside(u) THEN disturbed[u] \cup r.made \cup r.gone
                                            ELSE disturbed[u]]
                 /\ blind' = blind \cup ((r.made \cup r.gone) \ Follows(call[t])) \cup
                      Mistaken(call[t]) \cup
                      {l \in r.made \cup r.gone :
                         \/ disturbed[t] \cap Touch(call[t]) # {}
                         \/ \E u \in Threads : u # t /\ Inside(u) /\ l \in Touch(call[u])}
<1>1. /\ pc[t] = "call" /\ pc' = [pc EXCEPT ![t] = "log"]
      /\ UNCHANGED <<traced, call, exists, flag, rec, replay, events>>
  BY DEF Syscall
<1>2. /\ pc' \in [Threads -> {"idle", "look", "call", "log", "done"}]
      /\ \A u \in Threads : pc'[u] # "idle" => call'[u] \in Calls
      /\ call[t] \in Calls
  BY <1>1 DEF TypeOK
<1>3. CASE UNCHANGED <<fs, ok, ret, opened, made, gone, kind, disturbed, blind>>
  BY <1>1, <1>2, <1>3 DEF TypeOK
<1>4. CASE ~UNCHANGED <<fs, ok, ret, opened, made, gone, kind, disturbed, blind>>
  <2>1. PICK r \in Succeeds(call[t]) :
                 /\ fs' = r.fs
                 /\ ok' = [ok EXCEPT ![t] = TRUE]
                 /\ ret' = [ret EXCEPT ![t] = "ok"]
                 /\ opened' = [opened EXCEPT ![t] = r.opened]
                 /\ made' = [made EXCEPT ![t] = r.made]
                 /\ gone' = [gone EXCEPT ![t] = r.gone]
                 /\ kind' = [kind EXCEPT ![t] = r.kind]
                 /\ disturbed' = [u \in Threads |->
                      IF u # t /\ Inside(u) THEN disturbed[u] \cup r.made \cup r.gone
                                            ELSE disturbed[u]]
                 /\ blind' = blind \cup ((r.made \cup r.gone) \ Follows(call[t])) \cup
                      Mistaken(call[t]) \cup
                      {l \in r.made \cup r.gone :
                         \/ disturbed[t] \cap Touch(call[t]) # {}
                         \/ \E u \in Threads : u # t /\ Inside(u) /\ l \in Touch(call[u])}
    BY <1>4 DEF Syscall
  <2>2. /\ r.fs \in [Places -> Kinds \cup {"absent"}]
        /\ r.made \subseteq Places /\ r.gone \subseteq Places
        /\ r.kind \in Kinds \cup {"absent"} /\ r.opened \in {"file", "fifo", "dir", None}
    BY <1>2, SucceedsFacts
  <2>3. /\ fs' \in [Places -> Kinds \cup {"absent"}]
        /\ ok' \in [Threads -> BOOLEAN] /\ ret' \in [Threads -> {"ok", "fail", "length"}]
        /\ opened' \in [Threads -> {"file", "fifo", "dir", None}]
        /\ made' \in [Threads -> SUBSET Places] /\ gone' \in [Threads -> SUBSET Places]
        /\ kind' \in [Threads -> Kinds \cup {"absent"}]
    BY <2>1, <2>2 DEF TypeOK
  <2>4. disturbed' \in [Threads -> SUBSET Places]
    BY <2>1, <2>2 DEF TypeOK
  <2>5. Mistaken(call[t]) \subseteq Places
    BY DEF Mistaken
  <2>6. blind' \subseteq Places
    BY <2>1, <2>2, <2>5 DEF TypeOK
  <2>7. TypeOK'
    BY <1>1, <1>2, <2>3, <2>4, <2>6 DEF TypeOK
  <2> QED BY <1>1, <2>1, <2>7
<1> QED BY <1>1, <1>3, <1>4

(* A hook returns. *)
LEMMA ReturnType ==
  ASSUME TypeOK, NEW t \in Threads, Return(t)
  PROVE  TypeOK'
<1>1. /\ pc' \in [Threads -> {"idle", "look", "call", "log", "done"}]
      /\ call' \in [Threads -> Calls \cup {None}]
      /\ \A u \in Threads : pc'[u] # "idle" => call'[u] \in Calls
  BY DEF Return, TypeOK
<1>2. /\ exists' \in [Threads -> BOOLEAN] /\ ok' \in [Threads -> BOOLEAN]
      /\ flag' \in [Threads -> SUBSET (12 .. 15)]
      /\ opened' \in [Threads -> {"file", "fifo", "dir", None}]
      /\ ret' \in [Threads -> {"ok", "fail", "length"}]
  BY DEF Return, TypeOK
<1>3. /\ rec' \in [Threads -> Records \cup {None}]
      /\ \A u \in Threads : rec'[u] # None => rec'[u].old.dir \in TracedDirs
  BY DEF Return, TypeOK
<1>4. /\ made' \in [Threads -> SUBSET Places] /\ gone' \in [Threads -> SUBSET Places]
      /\ kind' \in [Threads -> Kinds \cup {"absent"}] /\ disturbed' \in [Threads -> SUBSET Places]
  BY DEF Return, TypeOK
<1>5. UNCHANGED <<fs, traced, replay, blind, events>>
  BY DEF Return
<1> QED BY <1>1, <1>2, <1>3, <1>4, <1>5 DEF TypeOK

(* Another process changes a place. *)
LEMMA OtherType ==
  ASSUME TypeOK, NEW l \in Places, Other(l)
  PROVE  TypeOK'
<1>1. PICK k \in Kinds \cup {"absent"} : fs' = [fs EXCEPT ![l] = k]
  BY DEF Other
<1>2. /\ fs' \in [Places -> Kinds \cup {"absent"}] /\ disturbed' \in [Threads -> SUBSET Places]
      /\ blind' \subseteq Places /\ events' \in 0 .. MaxEvents
  BY <1>1, NamespaceAssumption DEF Other, TypeOK
<1>3. UNCHANGED <<traced, pc, call, exists, flag, opened, ok, ret, rec, made, gone, kind, replay>>
  BY DEF Other, locals
<1> QED BY <1>2, <1>3 DEF TypeOK

(* The record of a call. *)
LEMMA RecordFacts ==
  ASSUME TypeOK, NEW t \in Threads, pc[t] = "log", Found(t), NEW k
  PROVE  LET R == Record(t, k) IN
         /\ R \in Records \cup {None}
         /\ R # None =>
              /\ ok[t] /\ traced /\ R.old = Old(t) /\ ~skip_path(Old(t))
              /\ call[t].op \in Opening => exists[t] = FALSE /\ R.op = "create" /\ R.new = None
              /\ call[t].op \in Removing =>
                   R.op = call[t].op /\ flag[t] # {} /\ R.mode = Mode(flag[t])
              /\ call[t].op = "unlink" => R.new = None
              /\ call[t].op = "rename" => R.new = New(call[t])
         /\ R = None =>
              /\ ok[t] /\ call[t].op \in Removing => flag[t] = {}
              /\ ok[t] /\ traced /\ exists[t] = FALSE /\ call[t].op \in Opening
                   => Notify(k, S_IFREG, Old(t)) = {}
<1> DEFINE R == Record(t, k)
<1>0. call[t] \in Calls /\ ok[t] \in BOOLEAN /\ exists[t] \in BOOLEAN /\ traced \in BOOLEAN
  BY DEF TypeOK
<1>1. CASE call[t].op \in Opening
  <2>1. R = Created(t, k)
    BY <1>1 DEF Record, Opening
  <2>2. CASE ok[t] /\ exists[t] = FALSE /\ traced /\ Notify(k, S_IFREG, Old(t)) # {}
    <3>1. R = [op |-> "create", mode |-> None, old |-> Old(t), new |-> None]
      BY <2>1, <2>2 DEF Created, Old
    <3>2. Old(t) \in NamedPaths
      BY <2>2 DEF Found
    <3>3. ~skip_path(Old(t))
      BY <2>2, NotifyFacts
    <3>4. R \in Records
      BY <3>1, <3>2 DEF Records
    <3>5. R # None
      BY <3>4, NamespaceAssumption
    <3> QED BY <1>1, <2>2, <3>1, <3>3, <3>4, <3>5 DEF Opening, Removing
  <2>3. CASE ~(ok[t] /\ exists[t] = FALSE /\ traced /\ Notify(k, S_IFREG, Old(t)) # {})
    <3>1. R = None
      BY <1>0, <2>1, <2>3 DEF Created, Old
    <3> QED BY <1>1, <2>3, <3>1 DEF Opening, Removing
  <2> QED BY <2>2, <2>3
<1>2. CASE call[t].op \in Removing
  <2>1. CASE ok[t] /\ flag[t] # {}
    <3>1. /\ R.op = call[t].op /\ R.mode = Mode(flag[t]) /\ R.old = Old(t)
          /\ call[t].op = "unlink" => R.new = None
          /\ call[t].op = "rename" => R.new = New(call[t])
          /\ R = [op |-> call[t].op, mode |-> Mode(flag[t]), old |-> Old(t), new |-> R.new]
      BY <1>2, <2>1 DEF Record, Removing, Unlinked, Renamed, Old
    <3>2. Old(t) \in NamedPaths /\ ~skip_path(Old(t)) /\ traced
      BY <2>1 DEF Found
    <3>3. R.new \in NamedPaths \cup {None}
      BY <1>0, <1>2, <3>1, NewIsTo DEF Removing
    <3>4. Mode(flag[t]) \in {"FILE_OR_DIR", "FILE", "DIR", "UNKNOWN", None}
      BY ModeFacts
    <3>5. R \in Records
      BY <1>2, <3>1, <3>2, <3>3, <3>4 DEF Records, Removing
    <3>6. R # None
      BY <3>5, NamespaceAssumption
    <3> QED BY <1>2, <2>1, <3>1, <3>2, <3>5, <3>6 DEF Removing, Opening
  <2>2. CASE ~(ok[t] /\ flag[t] # {})
    <3>1. R = None
      BY <1>2, <2>2 DEF Record, Removing, Unlinked, Renamed
    <3> QED BY <1>2, <2>2, <3>1 DEF Removing, Opening
  <2> QED BY <2>1, <2>2
<1> QED BY <1>0, <1>1, <1>2, CallTypes DEF Opening, Removing

(* What writing the record changes. *)
LEMMA LogFacts ==
  ASSUME TypeOK, NEW t \in Threads, Found(t), Log(t)
  PROVE  /\ TypeOK'
         /\ pc[t] = "log" /\ pc' = [pc EXCEPT ![t] = "done"]
         /\ \E k : /\ k = opened[t] \/ (exists[t] = FALSE /\ k = Lstat(Old(t)))
                   /\ rec' = [rec EXCEPT ![t] = Record(t, k)]
                   /\ replay' = Replayed(Record(t, k))
         /\ \/ ret' = ret
            \/ /\ call[t].op = "rename" /\ ok[t] /\ flag[t] # {}
               /\ AT_FDCWD \notin {call[t].base, call[t].tobase}
               /\ ret' = [ret EXCEPT ![t] = ret'[t]]
         /\ UNCHANGED <<fs, traced, call, exists, flag, opened, ok, made, gone, kind, disturbed,
                        blind, events>>
<1>1. /\ pc[t] = "log" /\ pc' = [pc EXCEPT ![t] = "done"]
      /\ UNCHANGED <<fs, traced, call, exists, flag, opened, ok, made, gone, kind, disturbed,
                     blind, events>>
  BY DEF Log
<1>2. PICK k : /\ k = opened[t] \/ (exists[t] = FALSE /\ k = Lstat(Old(t)))
               /\ rec' = [rec EXCEPT ![t] = Record(t, k)]
               /\ replay' = Replayed(Record(t, k))
  <2>1. PICK k \in {opened[t]} \cup
                   (IF StdinClosed /\ ~exists[t] THEN {Lstat(Named(call[t].base, call[t].path))}
                                                 ELSE {}) :
               /\ rec' = [rec EXCEPT ![t] = Record(t, k)]
               /\ replay' = Replayed(Record(t, k))
    BY DEF Log
  <2>2. exists[t] \in BOOLEAN
    BY DEF TypeOK
  <2>3. k = opened[t] \/ (exists[t] = FALSE /\ k = Lstat(Old(t)))
    BY <2>1, <2>2 DEF Old
  <2> QED BY <2>1, <2>3
<1>3. /\ \/ ret' = ret
         \/ /\ call[t].op = "rename" /\ ok[t] /\ flag[t] # {}
            /\ AT_FDCWD \notin {call[t].base, call[t].tobase}
            /\ ret' = [ret EXCEPT ![t] = ret'[t]]
      /\ ret' \in [Threads -> {"ok", "fail", "length"}]
  <2>1. CASE Overwrites(t)
    <3>1. /\ call[t].op = "rename" /\ ok[t] /\ flag[t] # {}
          /\ AT_FDCWD \notin {call[t].base, call[t].tobase}
      BY <2>1 DEF Overwrites
    <3>2. ret' = [ret EXCEPT ![t] = IF call[t].tobase \in Dirs THEN "length" ELSE "fail"]
      BY <2>1 DEF Log
    <3>3. ret' = [ret EXCEPT ![t] = ret'[t]] /\ ret' \in [Threads -> {"ok", "fail", "length"}]
      BY <3>2 DEF TypeOK
    <3> QED BY <3>1, <3>3
  <2>2. CASE ~Overwrites(t)
    BY <2>2 DEF Log, TypeOK
  <2> QED BY <2>1, <2>2
<1>4. /\ Record(t, k) \in Records \cup {None}
      /\ Record(t, k) # None => ~skip_path(Old(t)) /\ Record(t, k).old = Old(t)
  BY <1>1, RecordFacts
<1>5. Record(t, k) # None => Record(t, k).old.dir \in TracedDirs
  BY <1>4 DEF skip_path
<1>6. /\ rec' \in [Threads -> Records \cup {None}]
      /\ \A u \in Threads : rec'[u] # None => rec'[u].old.dir \in TracedDirs
  BY <1>2, <1>4, <1>5 DEF TypeOK
<1>7. replay' \subseteq Places
  BY <1>2 DEF Replayed, TypeOK
<1>8. /\ pc' \in [Threads -> {"idle", "look", "call", "log", "done"}]
      /\ \A u \in Threads : pc'[u] # "idle" => call'[u] \in Calls
  BY <1>1 DEF TypeOK
<1>9. TypeOK'
  BY <1>1, <1>3, <1>6, <1>7, <1>8 DEF TypeOK
<1> QED BY <1>1, <1>2, <1>3, <1>9

-----------------------------------------------------------------------------
(* ThreadInv is inductive.                                                 *)

(* What others do leaves it: a place they change is disturbed. *)
LEMMA Bystander ==
  ASSUME TypeOK, TypeOK', NEW u \in Threads, Thread(u), traced' = traced,
         pc'[u] = pc[u], call'[u] = call[u], exists'[u] = exists[u], flag'[u] = flag[u],
         ok'[u] = ok[u], ret'[u] = ret[u], rec'[u] = rec[u], made'[u] = made[u],
         gone'[u] = gone[u], kind'[u] = kind[u],
         disturbed[u] \subseteq disturbed'[u],
         Inside(u) \/ disturbed'[u] = disturbed[u],
         \A l \in Places : Inside(u) /\ fs'[l] # fs[l] => l \in disturbed'[u]
  PROVE  Thread(u)'
<1>1. Old(u)' = Old(u)
  BY DEF Old
<1>2. Before(u)'
  BY DEF Thread, Before, Inside
<1>4. Found(u)'
  BY <1>1 DEF Thread, Found, LooksForNew, OpenLooks, FopenLooks
<1>5. Looked(u)'
  <2> SUFFICES ASSUME pc[u] = "call" PROVE Looked(u)'
    BY DEF Looked
  <2>1. \A l \in Places : l \notin disturbed'[u] => fs'[l] = fs[l] /\ l \notin disturbed[u]
    BY DEF Inside
  <2>2. LooksForNew(call[u])' = LooksForNew(call[u])
    BY DEF LooksForNew, OpenLooks, FopenLooks
  <2>3. ASSUME exists[u] = FALSE, Old(u) \in Places, {Old(u), Target} \cap disturbed'[u] = {}
        PROVE  Missing(Old(u))'
    <3>1. {Old(u), Target} \cap disturbed[u] = {} /\ Target \in Places
      BY <2>3, NamespaceAssumption
    <3>2. Missing(Old(u))
      BY <2>3, <3>1 DEF Thread, Looked
    <3>3. Old(u).name # Odd
      BY <2>3, PathTypes
    <3>4. Place(AT_FDCWD, Old(u)) = Old(u) /\ fs[Follow(Old(u))] = "absent"
      BY <2>3, <3>2, <3>3, PlaceSelf DEF Missing
    <3>5. fs'[Old(u)] = fs[Old(u)] /\ fs'[Target] = fs[Target]
      BY <2>1, <2>3, <3>1
    <3>6. Old(u) # None
      BY <2>3, PathTypes
    <3> QED BY <1>1, <3>3, <3>4, <3>5, <3>6 DEF Missing, Follow
  <2>4. ASSUME LooksForNew(call[u]), Old(u) \in Places \ disturbed'[u], fs'[Old(u)] = "absent",
               Place(AT_FDCWD, Old(u)) # None
        PROVE  exists[u] = FALSE
    <3>1. Old(u) \in Places \ disturbed[u] /\ fs[Old(u)] = "absent"
      BY <2>1, <2>4
    <3> QED BY <2>4, <3>1 DEF Thread, Looked
  <2>5. ASSUME call[u].op \in Removing, traced, Old(u) \in NamedPaths,
               Old(u) \in Places \ disturbed'[u] \/ Old(u).name = Odd
        PROVE  flag[u] = Notify(Lstat(Old(u))', S_IFREG \cup S_IFDIR, Old(u))
    <3>1. flag[u] = Notify(Lstat(Old(u)), S_IFREG \cup S_IFDIR, Old(u))
      BY <2>1, <2>5 DEF Thread, Looked
    <3>2. CASE Old(u).name = Odd
      <4>1. Lstat(Old(u))' = Lstat(Old(u))
        BY <1>1, <3>2 DEF Lstat
      <4> QED BY <3>1, <4>1
    <3>3. CASE Old(u) \in Places \ disturbed'[u]
      <4>1. fs'[Old(u)] = fs[Old(u)] /\ Place(AT_FDCWD, Old(u)) \in {Old(u), None}
        BY <2>1, <3>3, PlaceSelf
      <4>2. Lstat(Old(u))' = Lstat(Old(u))
        BY <1>1, <4>1 DEF Lstat
      <4> QED BY <3>1, <4>2
    <3> QED BY <2>5, <3>2, <3>3
  <2> QED BY <1>1, <2>2, <2>3, <2>4, <2>5 DEF Looked
<1>6. Written(u)'
  BY <1>1 DEF Thread, Written
<1>7. pc[u] \in {"log", "done"} => MadeNew(u)'
  BY <1>1 DEF Thread, MadeNew
<1>8. pc[u] \in {"log", "done"} => TrueMode(u)'
  BY <1>1 DEF Thread, TrueMode, KernelBase
<1> QED BY <1>2, <1>4, <1>5, <1>6, <1>7, <1>8 DEF Thread

(* In the beginning. *)
LEMMA InitThread == Init => ThreadInv
BY DEF Init, ThreadInv, Thread, Before, Found, Looked, Written

(* A call begins. *)
LEMMA BeginThread ==
  ASSUME TypeOK, TypeOK', ThreadInv, NEW t \in Threads, Begin(t)
  PROVE  ThreadInv'
<1>1. PICK c \in Calls : call' = [call EXCEPT ![t] = c]
  BY DEF Begin
<1>2. /\ pc[t] = "idle" /\ pc' = [pc EXCEPT ![t] = "look"]
      /\ UNCHANGED <<fs, traced, exists, flag, opened, ok, ret, rec, made, gone, kind>>
      /\ UNCHANGED <<disturbed, replay, blind>>
  BY DEF Begin, history
<1>3. Thread(t)'
  <2>1. Before(t) /\ pc'[t] = "look"
    BY <1>2 DEF ThreadInv, Thread, TypeOK
  <2> QED BY <1>2, <2>1 DEF Thread, Before, Found, Looked, Written
<1>4. ASSUME NEW u \in Threads, u # t PROVE Thread(u)'
  <2>1. pc'[u] = pc[u] /\ call'[u] = call[u] /\ Thread(u)
    BY <1>1, <1>2, <1>4 DEF ThreadInv, TypeOK
  <2> QED BY <1>2, <2>1, Bystander
<1> QED BY <1>3, <1>4 DEF ThreadInv

(* A hook looks at its path. *)
LEMMA LookThread ==
  ASSUME TypeOK, TypeOK', ThreadInv, NEW t \in Threads, Look(t)
  PROVE  ThreadInv'
<1> DEFINE c == call[t]
           e == ~(LooksForNew(c) /\ Old(t) # None /\ Missing(Old(t)))
           f == IF c.op \in {"unlink", "rename"} /\ traced /\ Old(t) # None
                  THEN Notify(Lstat(Old(t)), S_IFREG \cup S_IFDIR, Old(t)) ELSE {}
<1>1. /\ pc[t] = "look" /\ pc' = [pc EXCEPT ![t] = "call"]
      /\ exists' = [exists EXCEPT ![t] = e] /\ flag' = [flag EXCEPT ![t] = f]
  BY DEF Look, Old
<1>2. /\ UNCHANGED <<fs, traced, call, opened, ok, ret, rec, made, gone, kind, events>>
      /\ UNCHANGED <<disturbed, replay, blind>>
  BY DEF Look, history
<1>3. /\ Old(t) \in NamedPaths \cup {None} /\ Old(t)' = Old(t) /\ None \notin NamedPaths
      /\ pc'[t] = "call" /\ exists'[t] = e /\ flag'[t] = f
  BY <1>1, <1>2, CallOfThread, PathTypes DEF Old, TypeOK
<1>4. Before(t)' /\ Written(t)'
  BY <1>1, <1>2, <1>3 DEF ThreadInv, Thread, Before, Written
<1>5. /\ LooksForNew(call[t])' <=> LooksForNew(call[t])
      /\ Missing(Old(t))' <=> Missing(Old(t))
      /\ Lstat(Old(t))' = Lstat(Old(t))
  BY <1>2, <1>3 DEF LooksForNew, OpenLooks, FopenLooks, Missing, Follow, Lstat
<1>6. exists'[t] = FALSE <=> LooksForNew(c) /\ Old(t) # None /\ Missing(Old(t))
  BY <1>3
<1>7. ASSUME f # {}
      PROVE  Old(t) # None /\ ~skip_path(Old(t)) /\ traced /\ c.op \in Removing
  BY <1>7, NotifyFacts DEF Removing
<1>8. ASSUME c.op \in Removing, traced, Old(t) \in NamedPaths
      PROVE  f = Notify(Lstat(Old(t)), S_IFREG \cup S_IFDIR, Old(t))
  BY <1>3, <1>8 DEF Removing
<1> HIDE DEF e, f
<1>9. Found(t)'
  <2>1. Missing(Old(t)) => Place(AT_FDCWD, Old(t)) # None
    BY DEF Missing
  <2> QED BY <1>2, <1>3, <1>5, <1>6, <1>7, <2>1 DEF Found
<1>10. Looked(t)'
  <2>1. ASSUME Old(t) \in Places, fs[Old(t)] = "absent", Place(AT_FDCWD, Old(t)) # None
        PROVE  Missing(Old(t)) /\ Old(t) # None
    <3>1. Old(t).name # Odd /\ Place(AT_FDCWD, Old(t)) = Old(t)
      BY <2>1, PathTypes, PlaceSelf
    <3> QED BY <2>1, <3>1 DEF Missing, Follow
  <2> QED BY <1>2, <1>3, <1>5, <1>6, <1>8, <2>1 DEF Looked
<1>11. Thread(t)'
  BY <1>3, <1>4, <1>9, <1>10 DEF Thread
<1>12. ASSUME NEW u \in Threads, u # t PROVE Thread(u)'
  <2>1. pc'[u] = pc[u] /\ exists'[u] = exists[u] /\ flag'[u] = flag[u] /\ Thread(u)
    BY <1>1, <1>12 DEF ThreadInv, TypeOK
  <2> QED BY <1>2, <2>1, Bystander
<1> QED BY <1>11, <1>12 DEF ThreadInv

(* A hook returns. *)
LEMMA ReturnThread ==
  ASSUME TypeOK, TypeOK', ThreadInv, NEW t \in Threads, Return(t)
  PROVE  ThreadInv'
<1>1. Thread(t)'
  <2>1. /\ pc'[t] = "idle" /\ ok'[t] = FALSE /\ ret'[t] = "fail" /\ rec'[t] = None
        /\ made'[t] = {} /\ gone'[t] = {} /\ disturbed'[t] = {}
    BY DEF Return, TypeOK
  <2> QED BY <2>1 DEF Thread, Before, Found, Looked, Written
<1>2. ASSUME NEW u \in Threads, u # t PROVE Thread(u)'
  <2>1. /\ pc'[u] = pc[u] /\ call'[u] = call[u] /\ exists'[u] = exists[u] /\ flag'[u] = flag[u]
        /\ ok'[u] = ok[u] /\ ret'[u] = ret[u] /\ rec'[u] = rec[u] /\ made'[u] = made[u]
        /\ gone'[u] = gone[u] /\ kind'[u] = kind[u] /\ disturbed'[u] = disturbed[u]
        /\ UNCHANGED <<fs, traced>> /\ Thread(u)
    BY <1>2 DEF Return, TypeOK, ThreadInv
  <2> QED BY <2>1, Bystander
<1> QED BY <1>1, <1>2 DEF ThreadInv

(* Another process changes a place. *)
LEMMA OtherThread ==
  ASSUME TypeOK, TypeOK', ThreadInv, NEW l \in Places, Other(l)
  PROVE  ThreadInv'
<1>1. PICK k \in Kinds \cup {"absent"} : fs' = [fs EXCEPT ![l] = k]
  BY DEF Other
<1>2. /\ UNCHANGED <<traced, pc, call, exists, flag, opened, ok, ret, rec, made, gone, kind, replay>>
      /\ disturbed' = [u \in Threads |-> IF Inside(u) THEN disturbed[u] \cup {l} ELSE disturbed[u]]
  BY DEF Other, locals
<1>3. ASSUME NEW u \in Threads PROVE Thread(u)'
  <2>1. /\ Thread(u)
        /\ disturbed'[u] = IF Inside(u) THEN disturbed[u] \cup {l} ELSE disturbed[u]
    BY <1>2 DEF ThreadInv
  <2>2. \A x \in Places : fs'[x] # fs[x] => x = l
    BY <1>1 DEF TypeOK
  <2> QED BY <1>2, <2>1, <2>2, Bystander
<1> QED BY <1>3 DEF ThreadInv

(* A file that was missing and is there after the call was made by it. *)
LEMMA OpensNew ==
  ASSUME TypeOK, NEW t \in Threads, Found(t), Looked(t), pc[t] = "call",
         exists[t] = FALSE, call[t].op \in Opening, ~skip_path(Old(t)),
         {Old(t), Target} \cap disturbed[t] = {}, Old(t).name # Odd,
         NEW r \in Succeeds(call[t])
  PROVE  r.made = {Old(t)} \/ r.made = {Target}
<1> DEFINE c == call[t]
           l == Place(c.base, c.path)
<1>1. c \in Calls /\ r \in Opens(c)
  BY CallOfThread DEF Succeeds, Opening
<1>2. Old(t) \in Places
  BY TracedNamed DEF Found
<1>3. Missing(Old(t))
  BY <1>2 DEF Looked
<1>4. fs[Follow(Old(t))] = "absent"
  BY <1>2, <1>3, PlaceSelf DEF Missing
<1>5. l \in Places /\ c.base \in Bases /\ c.path \in Paths
  BY <1>1, OpensFacts, CallTypes
<1>6. l = Old(t)
  BY <1>2, <1>5, Same, PathTypes DEF Old
<1>7. \E x \in Places : r.made = {x} /\ x \in {l, Follow(l)}
  BY <1>1, <1>4, <1>6, OpensFacts
<1> QED BY <1>6, <1>7 DEF Follow

(* What is removed or moved is what the hook found before. *)
LEMMA FoundIsGone ==
  ASSUME TypeOK, NEW t \in Threads, Found(t), Looked(t), pc[t] = "call", flag[t] # {},
         Old(t) \notin disturbed[t], NEW r \in Succeeds(call[t]),
         Old(t) = Place(KernelBase(call[t]), call[t].path)
  PROVE  Mode(flag[t]) = [file |-> "FILE", dir |-> "DIR", link |-> "UNKNOWN",
                          sock |-> "FILE_OR_DIR", fifo |-> "none"][r.kind]
<1> DEFINE c == call[t]
<1>1. c \in Calls /\ Old(t) \in NamedPaths /\ ~skip_path(Old(t)) /\ traced /\ c.op \in Removing
  BY CallOfThread DEF Found
<1>2. c.op = "unlink" => r \in Unlinks(c)
  BY DEF Succeeds
<1>3. c.op = "rename" => r \in Renames(c)
  BY DEF Succeeds
<1>4. Old(t) \in Places /\ r.kind = fs[Old(t)] /\ fs[Old(t)] # "absent"
  <2>1. CASE c.op = "unlink"
    BY <1>1, <1>2, <2>1, UnlinksFacts
  <2>2. CASE c.op = "rename"
    BY <1>1, <1>3, <2>2, RenamesFacts DEF KernelBase
  <2> QED BY <1>1, <2>1, <2>2 DEF Removing
<1>5. flag[t] = Notify(Lstat(Old(t)), S_IFREG \cup S_IFDIR, Old(t))
  BY <1>1, <1>4 DEF Looked
<1>6. Lstat(Old(t)) # "denied"
  BY <1>5, NotifyFacts
<1>7. Lstat(Old(t)) = fs[Old(t)]
  BY <1>4, <1>6, PlaceSelf, PathTypes DEF Lstat
<1>8. fs[Old(t)] # "fifo"
  BY <1>5, <1>7, NotifyFacts
<1>9. fs[Old(t)] \in {"file", "dir", "link", "sock"}
  BY <1>4, <1>8 DEF TypeOK, Kinds
<1>10. flag[t] = Bits(fs[Old(t)])
  BY <1>1, <1>5, <1>7, <1>9, NotifyFacts
<1> QED BY <1>4, <1>9, <1>10, ModeFacts

(* The system call. *)
LEMMA SyscallThread ==
  ASSUME TypeOK, ThreadInv, NEW t \in Threads, Syscall(t)
  PROVE  ThreadInv'
<1>1. /\ pc[t] = "call" /\ pc' = [pc EXCEPT ![t] = "log"] /\ pc'[t] = "log"
      /\ UNCHANGED <<traced, call, exists, flag, rec, replay, events>> /\ TypeOK'
  BY SyscallFacts DEF TypeOK
<1>2. Old(t)' = Old(t) /\ Thread(t) /\ call[t] \in Calls
  BY <1>1, CallOfThread DEF Old, ThreadInv
<1>3. Found(t)'
  BY <1>1, <1>2 DEF Thread, Found, LooksForNew, OpenLooks, FopenLooks
<1>4. Before(t)' /\ Looked(t)' /\ Written(t)'
  BY <1>1 DEF Before, Looked, Written
<1>5. CASE UNCHANGED <<fs, ok, ret, opened, made, gone, kind, disturbed, blind>>
  <2>1. ok[t] = FALSE
    BY <1>1, <1>2 DEF Thread, Before
  <2>2. MadeNew(t)' /\ TrueMode(t)'
    BY <1>1, <1>5, <2>1 DEF MadeNew, TrueMode
  <2>3. Thread(t)'
    BY <1>3, <1>4, <2>2 DEF Thread
  <2>4. ASSUME NEW u \in Threads, u # t PROVE Thread(u)'
    <3>1. pc'[u] = pc[u] /\ Thread(u)
      BY <1>1, <2>4 DEF ThreadInv, TypeOK
    <3> QED BY <1>1, <1>5, <3>1, Bystander
  <2> QED BY <2>3, <2>4 DEF ThreadInv
<1>6. CASE ~UNCHANGED <<fs, ok, ret, opened, made, gone, kind, disturbed, blind>>
  <2>1. PICK r \in Succeeds(call[t]) :
                 /\ fs' = r.fs
                 /\ ok' = [ok EXCEPT ![t] = TRUE]
                 /\ ret' = [ret EXCEPT ![t] = "ok"]
                 /\ made' = [made EXCEPT ![t] = r.made]
                 /\ gone' = [gone EXCEPT ![t] = r.gone]
                 /\ kind' = [kind EXCEPT ![t] = r.kind]
                 /\ disturbed' = [u \in Threads |->
                      IF u # t /\ Inside(u) THEN disturbed[u] \cup r.made \cup r.gone
                                            ELSE disturbed[u]]
    BY <1>6, SyscallFacts
  <2>2. /\ ok'[t] = TRUE /\ made'[t] = r.made /\ gone'[t] = r.gone
        /\ kind'[t] = r.kind /\ disturbed'[t] = disturbed[t]
    BY <2>1 DEF TypeOK
  <2>4. MadeNew(t)'
    <3> SUFFICES ASSUME exists[t] = FALSE, call[t].op \in Opening, ~skip_path(Old(t)),
                        {Old(t), Target} \cap disturbed[t] = {}, Old(t).name # Odd
                 PROVE  r.made = {Old(t)} \/ r.made = {Target}
      BY <1>1, <1>2, <2>2 DEF MadeNew
    <3> QED BY <1>1, <1>2, OpensNew DEF Thread
  <2>5. TrueMode(t)'
    <3> SUFFICES ASSUME flag[t] # {}, Old(t) \notin disturbed[t],
                        Old(t) = Place(KernelBase(call[t]), call[t].path)
                 PROVE  Mode(flag[t]) = [file |-> "FILE", dir |-> "DIR", link |-> "UNKNOWN",
                                         sock |-> "FILE_OR_DIR", fifo |-> "none"][r.kind]
      BY <1>1, <1>2, <2>2 DEF TrueMode, KernelBase
    <3> QED BY <1>1, <1>2, FoundIsGone DEF Thread
  <2>6. Thread(t)'
    BY <1>3, <1>4, <2>4, <2>5 DEF Thread
  <2>7. ASSUME NEW u \in Threads, u # t PROVE Thread(u)'
    <3>1. /\ pc'[u] = pc[u] /\ ok'[u] = ok[u] /\ ret'[u] = ret[u] /\ made'[u] = made[u]
          /\ gone'[u] = gone[u] /\ kind'[u] = kind[u] /\ Thread(u)
      BY <1>1, <2>1, <2>7 DEF ThreadInv, TypeOK
    <3>2. disturbed'[u] = IF Inside(u) THEN disturbed[u] \cup r.made \cup r.gone ELSE disturbed[u]
      BY <2>1, <2>7
    <3>3. \A l \in Places : fs'[l] # fs[l] => l \in r.made \cup r.gone
      BY <1>2, <2>1, SucceedsFacts
    <3> QED BY <1>1, <3>1, <3>2, <3>3, Bystander
  <2> QED BY <2>6, <2>7 DEF ThreadInv
<1> QED BY <1>5, <1>6

(* The record. *)
LEMMA LogThread ==
  ASSUME TypeOK, ThreadInv, NEW t \in Threads, Log(t)
  PROVE  ThreadInv'
<1>0. Thread(t) /\ Found(t)
  BY DEF ThreadInv, Thread
<1>1. /\ pc[t] = "log" /\ pc' = [pc EXCEPT ![t] = "done"] /\ pc'[t] = "done" /\ TypeOK'
      /\ UNCHANGED <<fs, traced, call, exists, flag, opened, ok, made, gone, kind, disturbed,
                     blind, events>>
  <2>1. pc \in [Threads -> {"idle", "look", "call", "log", "done"}]
    BY DEF TypeOK
  <2> QED BY <1>0, <2>1, LogFacts
<1>2. PICK k : rec' = [rec EXCEPT ![t] = Record(t, k)]
  BY <1>0, LogFacts
<1>3. \/ ret' = ret
      \/ /\ call[t].op = "rename" /\ ok[t] /\ flag[t] # {}
         /\ AT_FDCWD \notin {call[t].base, call[t].tobase}
         /\ ret' = [ret EXCEPT ![t] = ret'[t]]
  BY <1>0, LogFacts
<1>4. Old(t)' = Old(t) /\ rec'[t] = Record(t, k)
  BY <1>1, <1>2 DEF Old, TypeOK
<1>5. Before(t)' /\ Looked(t)'
  BY <1>1 DEF Before, Looked
<1>6. Found(t)' /\ MadeNew(t)' /\ TrueMode(t)'
  BY <1>0, <1>1, <1>4
     DEF Thread, Found, MadeNew, TrueMode, KernelBase, LooksForNew, OpenLooks, FopenLooks
<1>7. Written(t)'
  <2>1. rec'[t] # None =>
          /\ ok[t] /\ rec'[t].old = Old(t) /\ ~skip_path(Old(t))
          /\ call[t].op \in Opening => exists[t] = FALSE
          /\ call[t].op \in Removing => flag[t] # {} /\ rec'[t].mode = Mode(flag[t])
    <3> DEFINE R == Record(t, k)
    <3>1. R # None =>
            /\ ok[t] /\ traced /\ R.old = Old(t) /\ ~skip_path(Old(t))
            /\ call[t].op \in Opening => exists[t] = FALSE /\ R.op = "create" /\ R.new = None
            /\ call[t].op \in Removing =>
                 R.op = call[t].op /\ flag[t] # {} /\ R.mode = Mode(flag[t])
      BY <1>0, <1>1, RecordFacts
    <3>2. rec'[t] = R
      BY <1>4
    <3> HIDE DEF R
    <3> QED BY <3>1, <3>2
  <2> QED BY <1>1, <1>4, <2>1 DEF Written
<1>8. Thread(t)'
  BY <1>5, <1>6, <1>7 DEF Thread
<1>9. ASSUME NEW u \in Threads, u # t PROVE Thread(u)'
  <2>1. pc'[u] = pc[u] /\ rec'[u] = rec[u] /\ ret'[u] = ret[u] /\ Thread(u)
    BY <1>1, <1>2, <1>3, <1>9 DEF ThreadInv, TypeOK
  <2> QED BY <1>1, <2>1, Bystander
<1> QED BY <1>8, <1>9 DEF ThreadInv

(* Nothing changes. *)
LEMMA StutterThread ==
  ASSUME TypeOK, ThreadInv, UNCHANGED vars
  PROVE  TypeOK' /\ ThreadInv'
<1>1. /\ UNCHANGED <<fs, traced, pc, call, exists, flag, opened, ok, ret, rec, made, gone, kind>>
      /\ UNCHANGED <<disturbed, replay, blind, events>>
  BY DEF vars, locals, history
<1>2. TypeOK'
  BY <1>1 DEF TypeOK
<1>3. ASSUME NEW u \in Threads PROVE Thread(u)'
  BY <1>1, <1>2, Bystander DEF ThreadInv
<1> QED BY <1>2, <1>3 DEF ThreadInv

(* Every step keeps it. *)
LEMMA StepThread ==
  ASSUME TypeOK, ThreadInv, [Next]_vars
  PROVE  TypeOK' /\ ThreadInv'
<1>1. ASSUME NEW t \in Threads, Begin(t) PROVE TypeOK' /\ ThreadInv'
  BY <1>1, BeginType, BeginThread
<1>2. ASSUME NEW t \in Threads, Look(t) PROVE TypeOK' /\ ThreadInv'
  BY <1>2, LookType, LookThread
<1>3. ASSUME NEW t \in Threads, Syscall(t) PROVE TypeOK' /\ ThreadInv'
  BY <1>3, SyscallFacts, SyscallThread
<1>4. ASSUME NEW t \in Threads, Log(t) PROVE TypeOK' /\ ThreadInv'
  <2>1. Found(t)
    BY DEF ThreadInv, Thread
  <2> QED BY <1>4, <2>1, LogFacts, LogThread
<1>5. ASSUME NEW t \in Threads, Return(t) PROVE TypeOK' /\ ThreadInv'
  BY <1>5, ReturnType, ReturnThread
<1>6. ASSUME NEW l \in Places, Other(l) PROVE TypeOK' /\ ThreadInv'
  BY <1>6, OtherType, OtherThread
<1>7. ASSUME Rest \/ UNCHANGED vars PROVE TypeOK' /\ ThreadInv'
  BY <1>7, StutterThread DEF Rest
<1> QED BY <1>1, <1>2, <1>3, <1>4, <1>5, <1>6, <1>7 DEF Next, Hook

(* The invariant about what each hook remembers, for any calls and files.  *)
THEOREM NamespaceInvariant == Spec => [](TypeOK /\ ThreadInv)
<1>1. Init => TypeOK /\ ThreadInv
  BY InitType, InitThread
<1>2. TypeOK /\ ThreadInv /\ [Next]_vars => (TypeOK /\ ThreadInv)'
  BY StepThread
<1> QED BY <1>1, <1>2, PTL DEF Spec

(* Every variable keeps its type and a record is only written of a path    *)
(* under a traced prefix: what skip_path() is for.                         *)
THEOREM NamespaceTypes == Spec => []TypeOK
BY NamespaceInvariant, PTL

(* A record of a created file is of a file that the call made: what the    *)
(* look with access() before open() found is still so at the call, unless  *)
(* somebody changed that very place or the target of its link.             *)
THEOREM NewFilesAreNew == Spec => []NewFilesRecorded
<1>1. ThreadInv => NewFilesRecorded
  BY DEF ThreadInv, Thread, Written, MadeNew, NewFilesRecorded, Opening
<1> QED BY <1>1, NamespaceInvariant, PTL

(* The MODE of a record is the type of the file that was removed or moved: *)
(* notify() looks before the call, and the file it sees is the one that    *)
(* goes, unless somebody came between or the path it looked at is not the  *)
(* place the kernel worked on, as with an unlinkat() that has a descriptor.*)
THEOREM ModesAreTrue == Spec => []ModeTrue
<1>1. ThreadInv => ModeTrue
  BY DEF ThreadInv, Thread, Written, TrueMode, ModeTrue, Removing
<1> QED BY <1>1, NamespaceInvariant, PTL

-----------------------------------------------------------------------------
(* The record that follows a system call is right about every place that   *)
(* the trace follows.                                                      *)

(* What is followed is touched. *)
LEMMA FollowsFacts ==
  ASSUME NEW c \in Calls, NEW l \in Follows(c)
  PROVE  LET p == Named(c.base, c.path) IN
         /\ l \in Places /\ l \in Touch(c)
         /\ traced /\ p # None /\ c.how \notin {"none", "plain"} /\ ~skip_path(p)
         /\ c.op \in Removing => Lstat(p) \notin {"fifo", "denied"}
         /\ l = p \/ (c.op = "rename" /\ l = New(c))
<1> DEFINE p == Named(c.base, c.path)
<1>1. ~(~traced \/ p = None \/ c.how \in {"none", "plain"})
  BY DEF Follows
<1>2. ~(skip_path(p) \/ (c.op \in {"unlink", "rename"} /\ Lstat(p) \in {"fifo", "denied"}))
  BY <1>1 DEF Follows
<1>3. l \in ({p} \cup (IF c.op = "rename" THEN {New(c)} ELSE {})) \cap Places
  BY <1>1, <1>2 DEF Follows
<1>4. l \in Places /\ (l = p \/ (c.op = "rename" /\ l = New(c)))
  BY <1>3
<1>5. l \in Touch(c)
  BY <1>4, TouchFacts
<1> QED BY <1>1, <1>2, <1>4, <1>5 DEF Removing

(* A hook that looked at a path nobody disturbed knows the type. *)
LEMMA FlagSet ==
  ASSUME TypeOK, NEW t \in Threads, Looked(t), pc[t] = "call", call[t].op \in Removing, traced,
         Old(t) # None, ~skip_path(Old(t)), Lstat(Old(t)) \notin {"fifo", "denied"},
         disturbed[t] \cap Touch(call[t]) = {}
  PROVE  flag[t] # {}
<1>1. Old(t) \in NamedPaths
  BY CallOfThread
<1>2. Old(t) \in Places \ disturbed[t] \/ Old(t).name = Odd
  <2>1. CASE Old(t).name # Odd
    <3>1. Old(t) \in Places
      BY <1>1, <2>1, TracedNamed
    <3>2. Old(t) \in Touch(call[t])
      BY <3>1, TouchFacts DEF Old
    <3> QED BY <3>1, <3>2
  <2> QED BY <2>1
<1>3. flag[t] = Notify(Lstat(Old(t)), S_IFREG \cup S_IFDIR, Old(t))
  BY <1>1, <1>2 DEF Looked
<1>4. Lstat(Old(t)) \in {"file", "dir", "link", "sock", "absent"}
  BY <1>1, LstatType DEF Kinds
<1>5. CASE Lstat(Old(t)) = "absent"
  BY <1>3, <1>5, NotifyFacts
<1>6. CASE Lstat(Old(t)) # "absent"
  <2>1. flag[t] = Bits(Lstat(Old(t)))
    BY <1>3, <1>4, <1>6, NotifyFacts
  <2> QED BY <1>4, <1>6, <2>1, BitsFacts
<1> QED BY <1>5, <1>6

(* open() and fopen(). *)
LEMMA OpenRight ==
  ASSUME TypeOK, NEW t \in Threads, Thread(t), pc[t] = "call", call[t].op \in Opening,
         NEW r \in Succeeds(call[t]), NEW l \in Places,
         l \in r.made => l \in Follows(call[t]) /\ disturbed[t] \cap Touch(call[t]) = {}
  PROVE  /\ l \in r.made => l = Old(t) /\ traced /\ exists[t] = FALSE /\ ~skip_path(Old(t))
         /\ l = Old(t) /\ exists[t] = FALSE => r.fs[l] # "absent"
<1> DEFINE c == call[t]
           x == Place(c.base, c.path)
<1>1. c \in Calls /\ r \in Opens(c) /\ c.base \in Bases /\ c.path \in Paths
  BY CallOfThread, CallTypes DEF Succeeds, Opening
<1>2. x \in Places
  BY <1>1, OpensFacts
<1>3. \/ r.made = {} /\ fs[Follow(x)] # "absent"
      \/ \E y \in Places : r.made = {y} /\ fs[y] = "absent" /\ y \in {x, Follow(x)}
  BY <1>1, OpensFacts
<1>4. ASSUME l = Old(t)
      PROVE  x = l
  BY <1>1, <1>2, <1>4, Same, PathTypes DEF Old
<1>5. ASSUME l \in r.made
      PROVE  l = Old(t) /\ traced /\ exists[t] = FALSE /\ ~skip_path(Old(t))
  <2>1. /\ l = Old(t) /\ traced /\ c.how \notin {"none", "plain"} /\ ~skip_path(Old(t))
        /\ l \in Touch(c)
    BY <1>1, <1>5, FollowsFacts DEF Old, Opening
  <2>2. LooksForNew(c)
    BY <1>1, <2>1, CallTypes DEF LooksForNew, OpenLooks, FopenLooks, Opening
  <2>3. Old(t) \in Places \ disturbed[t]
    BY <1>5, <2>1
  <2>4. fs[l] = "absent" /\ l \in {x, Follow(x)}
    BY <1>5, <1>3
  <2>5. l.dir \notin Denied
    <3>1. x.dir \notin Denied
      BY <1>2, PathTypes DEF Place
    <3>2. Follow(x) \in {x, Target}
      BY DEF Follow
    <3> QED BY <2>4, <3>1, <3>2, NamespaceAssumption
  <2>6. Place(AT_FDCWD, Old(t)) # None
    BY <2>1, <2>3, <2>5, PlaceSelf
  <2>7. exists[t] = FALSE
    BY <2>1, <2>2, <2>3, <2>4, <2>6 DEF Thread, Looked
  <2> QED BY <2>1, <2>7
<1>6. ASSUME l = Old(t)
      PROVE  r.fs[l] # "absent"
  <2>1. CASE l \in r.made
    BY <1>1, <2>1, SucceedsFacts
  <2>2. CASE l \notin r.made
    <3>1. r.fs[l] = fs[l]
      BY <1>1, <2>2, SucceedsFacts
    <3>2. SUFFICES ASSUME fs[l] = "absent" PROVE FALSE
      BY <3>1
    <3>3. Follow(x) = l /\ x = l
      BY <1>4, <1>6, <3>2 DEF Follow
    <3> QED BY <1>3, <2>2, <3>2, <3>3
  <2> QED BY <2>1, <2>2
<1> QED BY <1>5, <1>6

(* unlink(). *)
LEMMA UnlinkRight ==
  ASSUME TypeOK, NEW t \in Threads, Thread(t), pc[t] = "call", call[t].op = "unlink",
         NEW r \in Succeeds(call[t]), NEW l \in Places, l \notin Mistaken(call[t]),
         l \in r.gone => l \in Follows(call[t]) /\ disturbed[t] \cap Touch(call[t]) = {}
  PROVE  /\ l \in r.gone => l = Old(t) /\ traced /\ flag[t] # {}
         /\ l = Old(t) => l \in r.gone
         /\ r.made = {}
<1> DEFINE c == call[t]
           x == Place(KernelBase(c), c.path)
<1>1. c \in Calls /\ r \in Unlinks(c)
  BY CallOfThread DEF Succeeds, Opening
<1>2. r.gone = {x} /\ r.made = {}
  BY <1>1, UnlinksFacts
<1>3. ASSUME l \in r.gone
      PROVE  l = Old(t) /\ traced /\ flag[t] # {}
  <2>1. /\ l = Old(t) /\ traced /\ ~skip_path(Old(t)) /\ Old(t) # None
        /\ Lstat(Old(t)) \notin {"fifo", "denied"}
    BY <1>1, <1>3, FollowsFacts DEF Old, Removing
  <2>2. flag[t] # {}
    BY <1>3, <2>1, FlagSet DEF Thread, Removing
  <2> QED BY <2>1, <2>2
<1>4. ASSUME l = Old(t)
      PROVE  l \in r.gone
  BY <1>2, <1>4 DEF Mistaken, Old
<1> QED BY <1>2, <1>3, <1>4

(* rename(). *)
LEMMA RenameRight ==
  ASSUME TypeOK, NEW t \in Threads, Thread(t), pc[t] = "call", call[t].op = "rename",
         NEW r \in Succeeds(call[t]), NEW l \in Places, l \notin Mistaken(call[t]),
         l \in r.made \cup r.gone =>
           l \in Follows(call[t]) /\ disturbed[t] \cap Touch(call[t]) = {}
  PROVE  /\ l \in r.made => l = New(call[t]) /\ traced /\ flag[t] # {}
         /\ l \in r.gone => l = Old(t) /\ l # New(call[t]) /\ traced /\ flag[t] # {}
         /\ l = New(call[t]) => r.fs[l] # "absent"
         /\ l = Old(t) /\ l # New(call[t]) => l \in r.gone
<1> DEFINE c == call[t]
           a == Place(c.base, c.path)
           b == Place(c.tobase, c.to)
<1>1. c \in Calls /\ r \in Renames(c) /\ c.base \in Bases /\ c.path \in Paths
  BY CallOfThread, CallTypes DEF Succeeds, Opening
<1>2. /\ a \in Places /\ b \in Places /\ fs[a] # "absent" /\ a # None /\ b # None
      /\ \/ a = b /\ r.made = {} /\ r.gone = {} /\ r.fs = fs
         \/ a # b /\ r.made = {b} /\ r.gone = {a}
  BY <1>1, RenamesFacts, PathTypes
<1>3. l = Old(t) => a = l
  BY <1>1, <1>2, Same DEF Old
<1>4. l = New(c) => b = l
  BY <1>1, <1>2, NewIsTo
<1>5. ASSUME l \in r.made \cup r.gone
      PROVE  traced /\ flag[t] # {} /\ (l = Old(t) \/ l = New(c))
  <2>1. /\ traced /\ ~skip_path(Old(t)) /\ Old(t) # None
        /\ Lstat(Old(t)) \notin {"fifo", "denied"} /\ (l = Old(t) \/ l = New(c))
    BY <1>1, <1>5, FollowsFacts DEF Old, Removing
  <2>2. flag[t] # {}
    BY <1>5, <2>1, FlagSet DEF Thread, Removing
  <2> QED BY <2>1, <2>2
<1>6. ASSUME l = New(c) PROVE r.fs[l] # "absent"
  <2>1. CASE a = b
    BY <1>2, <1>4, <1>6, <2>1
  <2>2. CASE a # b
    <3>1. l \in r.made
      BY <1>2, <1>4, <1>6, <2>2
    <3> QED BY <1>1, <3>1, SucceedsFacts
  <2> QED BY <2>1, <2>2
<1>7. ASSUME l = Old(t), l # New(c) PROVE l \in r.gone
  <2>1. a # b
    BY <1>7 DEF Mistaken, Old
  <2> QED BY <1>2, <1>3, <1>7, <2>1
<1> HIDE DEF a, b, c
<1> QED BY <1>2, <1>3, <1>4, <1>5, <1>6, <1>7 DEF c

-----------------------------------------------------------------------------
(* TraceInv is inductive.                                                  *)

(* A step that writes no record and makes every change it sees blind. *)
LEMMA Untraced ==
  ASSUME TypeOK, TypeOK', TraceInv, replay' = replay, blind \subseteq blind',
         \A u \in Threads : Pending(u)' = Pending(u),
         \A u \in Threads : pc'[u] = "log" => Touch(call[u])' = Touch(call[u]),
         \A l \in Places \ blind' : fs'[l] = fs[l],
         \A u \in Threads : Inside(u)' => disturbed'[u] \cap Touch(call[u])' \subseteq blind',
         \A u \in Threads : pc'[u] = "log" => \A l \in Places \ blind' : Right(u, l)'
  PROVE  TraceInv'
<1>1. \A u \in Threads : Pending(u)' \subseteq Touch(call[u])' \cup blind'
  <2>1. \A u \in Threads : pc'[u] # "log" => Pending(u)' = {}
    BY DEF Pending
  <2> QED BY <2>1 DEF TraceInv
<1>2. \A t, u \in Threads : t # u => Pending(t)' \cap Pending(u)' \subseteq blind'
  BY DEF TraceInv
<1>3. ASSUME NEW l \in Places \ blind', \A u \in Threads : l \notin Pending(u)'
      PROVE  l \in replay' <=> fs'[l] # "absent"
  <2>1. l \in Places \ blind /\ \A u \in Threads : l \notin Pending(u)
    BY <1>3
  <2>2. l \in replay <=> fs[l] # "absent"
    BY <2>1 DEF TraceInv
  <2> QED BY <1>3, <2>2
<1> QED BY <1>1, <1>2, <1>3 DEF TraceInv

(* A record still to come stays right while its thread waits. *)
LEMMA RightStays ==
  ASSUME TypeOK, NEW u \in Threads, NEW l \in Places, Right(u, l), traced' = traced,
         call'[u] = call[u], exists'[u] = exists[u], flag'[u] = flag[u], ok'[u] = ok[u],
         opened'[u] = opened[u], made'[u] = made[u], gone'[u] = gone[u], fs'[l] = fs[l]
  PROVE  Right(u, l)'
<1>1. Old(u)' = Old(u) /\ New(call[u])' = New(call[u])
  BY DEF Old, New
<1>2. Tells(u)' <=> Tells(u)
  BY <1>1 DEF Tells
<1>3. Adds(u)' = Adds(u) /\ Removes(u)' = Removes(u)
  BY <1>1, <1>2 DEF Adds, Removes
<1> QED BY <1>3 DEF Right

(* The places a call touches are those it touched before. *)
LEMMA TouchStays ==
  ASSUME NEW u \in Threads, traced' = traced, call'[u] = call[u]
  PROVE  Touch(call[u])' = Touch(call[u])
BY DEF Touch, KernelBase, New

(* In the beginning. *)
LEMMA InitTrace == Init => TraceInv
BY DEF Init, TraceInv, Inside, Pending

(* A call begins. *)
LEMMA BeginTrace ==
  ASSUME TypeOK, TypeOK', ThreadInv, TraceInv, NEW t \in Threads, Begin(t)
  PROVE  TraceInv'
<1>1. /\ pc[t] = "idle" /\ pc' = [pc EXCEPT ![t] = "look"] /\ call' = [call EXCEPT ![t] = call'[t]]
      /\ UNCHANGED <<fs, traced, exists, flag, opened, ok, ret, rec, made, gone, kind>>
      /\ UNCHANGED <<disturbed, replay, blind>>
  BY DEF Begin, history, TypeOK
<1>2. disturbed[t] = {}
  BY <1>1 DEF ThreadInv, Thread, Before
<1>3. pc'[t] = "look" /\ \A u \in Threads : u # t => pc'[u] = pc[u] /\ call'[u] = call[u]
  BY <1>1 DEF TypeOK
<1>4. \A u \in Threads : Pending(u)' = Pending(u)
  BY <1>1, <1>3 DEF Pending
<1>5. \A u \in Threads : u # t => Touch(call[u])' = Touch(call[u])
  BY <1>1, <1>3, TouchStays
<1>6. \A u \in Threads : Inside(u)' => disturbed'[u] \cap Touch(call[u])' \subseteq blind'
  BY <1>1, <1>2, <1>3, <1>5 DEF TraceInv, Inside
<1>7. ASSUME NEW u \in Threads, pc'[u] = "log", NEW l \in Places \ blind' PROVE Right(u, l)'
  <2>1. Right(u, l) /\ call'[u] = call[u]
    BY <1>1, <1>3, <1>7 DEF TraceInv
  <2> QED BY <1>1, <2>1, RightStays
<1>8. \A u \in Threads : pc'[u] = "log" => Touch(call[u])' = Touch(call[u])
  BY <1>3, <1>5
<1> QED BY <1>1, <1>4, <1>6, <1>7, <1>8, Untraced

(* A hook looks at its path. *)
LEMMA LookTrace ==
  ASSUME TypeOK, TypeOK', TraceInv, NEW t \in Threads, Look(t)
  PROVE  TraceInv'
<1>1. /\ pc[t] = "look" /\ pc' = [pc EXCEPT ![t] = "call"]
      /\ exists' = [exists EXCEPT ![t] = exists'[t]] /\ flag' = [flag EXCEPT ![t] = flag'[t]]
      /\ UNCHANGED <<fs, traced, call, opened, ok, ret, rec, made, gone, kind, events>>
      /\ UNCHANGED <<disturbed, replay, blind>>
  BY DEF Look, history, TypeOK
<1>2. /\ pc'[t] = "call"
      /\ \A u \in Threads : u # t => pc'[u] = pc[u] /\ exists'[u] = exists[u] /\ flag'[u] = flag[u]
  BY <1>1 DEF TypeOK
<1>3. \A u \in Threads : Pending(u)' = Pending(u)
  BY <1>1, <1>2 DEF Pending
<1>4. \A u \in Threads : Touch(call[u])' = Touch(call[u])
  BY <1>1, TouchStays
<1>5. \A u \in Threads : Inside(u)' => disturbed'[u] \cap Touch(call[u])' \subseteq blind'
  BY <1>1, <1>2, <1>4 DEF TraceInv, Inside
<1>6. ASSUME NEW u \in Threads, pc'[u] = "log", NEW l \in Places \ blind' PROVE Right(u, l)'
  <2>1. Right(u, l) /\ exists'[u] = exists[u] /\ flag'[u] = flag[u]
    BY <1>1, <1>2, <1>6 DEF TraceInv
  <2> QED BY <1>1, <2>1, RightStays
<1> QED BY <1>1, <1>3, <1>4, <1>5, <1>6, Untraced

(* A hook returns. *)
LEMMA ReturnTrace ==
  ASSUME TypeOK, TypeOK', TraceInv, NEW t \in Threads, Return(t)
  PROVE  TraceInv'
<1>1. /\ pc[t] = "done" /\ pc'[t] = "idle"
      /\ \A u \in Threads : u # t =>
           /\ pc'[u] = pc[u] /\ call'[u] = call[u] /\ exists'[u] = exists[u] /\ flag'[u] = flag[u]
           /\ ok'[u] = ok[u] /\ opened'[u] = opened[u] /\ made'[u] = made[u] /\ gone'[u] = gone[u]
           /\ disturbed'[u] = disturbed[u]
      /\ UNCHANGED <<fs, traced, replay, blind>>
  BY DEF Return, TypeOK
<1>2. \A u \in Threads : Pending(u)' = Pending(u)
  BY <1>1 DEF Pending
<1>3. \A u \in Threads : u # t => Touch(call[u])' = Touch(call[u])
  BY <1>1, TouchStays
<1>4. \A u \in Threads : Inside(u)' => disturbed'[u] \cap Touch(call[u])' \subseteq blind'
  BY <1>1, <1>3 DEF TraceInv, Inside
<1>5. ASSUME NEW u \in Threads, pc'[u] = "log", NEW l \in Places \ blind' PROVE Right(u, l)'
  <2>1. Right(u, l) /\ u # t
    BY <1>1, <1>5 DEF TraceInv
  <2> QED BY <1>1, <1>5, <2>1, RightStays
<1>6. \A u \in Threads : pc'[u] = "log" => Touch(call[u])' = Touch(call[u])
  BY <1>1, <1>3
<1> QED BY <1>1, <1>2, <1>4, <1>5, <1>6, Untraced

(* Another process changes a place: it is blind from then on. *)
LEMMA OtherTrace ==
  ASSUME TypeOK, TypeOK', TraceInv, NEW l \in Places, Other(l)
  PROVE  TraceInv'
<1>1. PICK k \in Kinds \cup {"absent"} : fs' = [fs EXCEPT ![l] = k]
  BY DEF Other
<1>2. /\ UNCHANGED <<traced, pc, call, exists, flag, opened, ok, ret, rec, made, gone, kind, replay>>
      /\ disturbed' = [u \in Threads |-> IF Inside(u) THEN disturbed[u] \cup {l} ELSE disturbed[u]]
      /\ blind' = blind \cup {l}
  BY DEF Other, locals
<1>3. \A x \in Places \ blind' : fs'[x] = fs[x]
  BY <1>1, <1>2 DEF TypeOK
<1>4. \A u \in Threads : Pending(u)' = Pending(u) /\ Touch(call[u])' = Touch(call[u])
  BY <1>2, TouchStays DEF Pending
<1>5. \A u \in Threads : Inside(u)' => disturbed'[u] \cap Touch(call[u])' \subseteq blind'
  BY <1>2, <1>4 DEF TraceInv, Inside
<1>6. ASSUME NEW u \in Threads, pc'[u] = "log", NEW x \in Places \ blind' PROVE Right(u, x)'
  <2>1. Right(u, x)
    BY <1>2, <1>6 DEF TraceInv
  <2> QED BY <1>2, <1>3, <2>1, RightStays
<1> QED BY <1>2, <1>3, <1>4, <1>5, <1>6, Untraced

(* Nothing changes. *)
LEMMA StutterTrace ==
  ASSUME TypeOK, TypeOK', TraceInv, UNCHANGED vars
  PROVE  TraceInv'
<1>1. /\ UNCHANGED <<fs, traced, pc, call, exists, flag, opened, ok, ret, rec, made, gone, kind>>
      /\ UNCHANGED <<disturbed, replay, blind, events>>
  BY DEF vars, locals, history
<1>2. \A u \in Threads : Pending(u)' = Pending(u) /\ Touch(call[u])' = Touch(call[u])
  BY <1>1, TouchStays DEF Pending
<1>3. \A u \in Threads : Inside(u)' => disturbed'[u] \cap Touch(call[u])' \subseteq blind'
  BY <1>1, <1>2 DEF TraceInv, Inside
<1>4. ASSUME NEW u \in Threads, pc'[u] = "log", NEW l \in Places \ blind' PROVE Right(u, l)'
  <2>1. Right(u, l)
    BY <1>1, <1>4 DEF TraceInv
  <2> QED BY <1>1, <2>1, RightStays
<1> QED BY <1>1, <1>2, <1>3, <1>4, Untraced

(* A system call that fails leaves nothing to record. *)
LEMMA FailTrace ==
  ASSUME TypeOK, TypeOK', ThreadInv, TraceInv, NEW t \in Threads,
         pc[t] = "call", pc' = [pc EXCEPT ![t] = "log"],
         UNCHANGED <<traced, call, exists, flag, rec, replay, events>>,
         UNCHANGED <<fs, ok, ret, opened, made, gone, kind, disturbed, blind>>
  PROVE  TraceInv'
<1>1. ok[t] = FALSE /\ made[t] = {} /\ gone[t] = {}
  BY DEF ThreadInv, Thread, Before
<1>2. pc'[t] = "log" /\ \A u \in Threads : u # t => pc'[u] = pc[u]
  BY DEF TypeOK
<1>3. \A u \in Threads : Pending(u)' = Pending(u)
  BY <1>1, <1>2 DEF Pending
<1>4. \A u \in Threads : Touch(call[u])' = Touch(call[u])
  BY TouchStays
<1>5. \A u \in Threads : Inside(u)' => disturbed'[u] \cap Touch(call[u])' \subseteq blind'
  BY <1>2, <1>4 DEF TraceInv, Inside
<1>6. ASSUME NEW u \in Threads, pc'[u] = "log", NEW l \in Places \ blind' PROVE Right(u, l)'
  <2>1. CASE u = t
    BY <1>1, <2>1 DEF Right, Adds, Removes, Tells
  <2>2. CASE u # t
    <3>1. Right(u, l)
      BY <1>2, <1>6, <2>2 DEF TraceInv
    <3> QED BY <3>1, RightStays
  <2> QED BY <2>1, <2>2
<1> QED BY <1>3, <1>4, <1>5, <1>6, Untraced

(* A system call that succeeds: what it changes is now to be recorded. *)
LEMMA SyscallTrace ==
  ASSUME TypeOK, ThreadInv, TraceInv, NEW t \in Threads, Syscall(t)
  PROVE  TraceInv'
<1> DEFINE c == call[t]
<1>1. /\ pc[t] = "call" /\ pc' = [pc EXCEPT ![t] = "log"]
      /\ UNCHANGED <<traced, call, exists, flag, rec, replay, events>> /\ TypeOK'
  BY SyscallFacts
<1>2. CASE UNCHANGED <<fs, ok, ret, opened, made, gone, kind, disturbed, blind>>
  BY <1>1, <1>2, FailTrace
<1>3. CASE ~UNCHANGED <<fs, ok, ret, opened, made, gone, kind, disturbed, blind>>
  <2>1. PICK r \in Succeeds(c) :
                 /\ fs' = r.fs
                 /\ ok' = [ok EXCEPT ![t] = TRUE]
                 /\ opened' = [opened EXCEPT ![t] = r.opened]
                 /\ made' = [made EXCEPT ![t] = r.made]
                 /\ gone' = [gone EXCEPT ![t] = r.gone]
                 /\ disturbed' = [u \in Threads |->
                      IF u # t /\ Inside(u) THEN disturbed[u] \cup r.made \cup r.gone
                                            ELSE disturbed[u]]
                 /\ blind' = blind \cup ((r.made \cup r.gone) \ Follows(c)) \cup Mistaken(c) \cup
                      {l \in r.made \cup r.gone :
                         \/ disturbed[t] \cap Touch(c) # {}
                         \/ \E u \in Threads : u # t /\ Inside(u) /\ l \in Touch(call[u])}
    BY <1>3, SyscallFacts
  <2>2. /\ pc'[t] = "log" /\ ok'[t] = TRUE /\ opened'[t] = r.opened /\ made'[t] = r.made
        /\ gone'[t] = r.gone /\ disturbed'[t] = disturbed[t]
    BY <1>1, <2>1 DEF TypeOK
  <2>3. \A u \in Threads : u # t =>
          /\ pc'[u] = pc[u] /\ ok'[u] = ok[u] /\ opened'[u] = opened[u] /\ made'[u] = made[u]
          /\ gone'[u] = gone[u]
          /\ disturbed'[u] = IF Inside(u) THEN disturbed[u] \cup r.made \cup r.gone
                                          ELSE disturbed[u]
    BY <1>1, <2>1 DEF TypeOK
  <2>4. c \in Calls /\ Thread(t) /\ Inside(t) /\ Old(t)' = Old(t)
    BY <1>1, CallOfThread DEF ThreadInv, Inside, Old
  <2>5. \A l \in Places :
          /\ l \notin r.made \cup r.gone => r.fs[l] = fs[l]
          /\ l \in r.made => r.fs[l] # "absent"
          /\ l \in r.gone => r.fs[l] = "absent"
    BY <2>4, SucceedsFacts
  <2>6. r.made \subseteq Places /\ r.gone \subseteq Places /\ blind \subseteq blind'
    BY <2>1, <2>4, SucceedsFacts
  <2>7. ASSUME NEW l \in r.made \cup r.gone, l \notin blind'
        PROVE  /\ l \in Follows(c) /\ disturbed[t] \cap Touch(c) = {} /\ l \in Touch(c)
               /\ \A u \in Threads : u # t /\ Inside(u) => l \notin Touch(call[u])
    <3>1. l \in Follows(c)
      BY <2>1, <2>7
    <3>2. disturbed[t] \cap Touch(c) = {}
      BY <2>1, <2>7
    <3>3. \A u \in Threads : u # t /\ Inside(u) => l \notin Touch(call[u])
      BY <2>1, <2>7
    <3> QED BY <2>4, <3>1, <3>2, <3>3, FollowsFacts
  <2>8. \A u \in Threads : Touch(call[u])' = Touch(call[u])
    BY <1>1, TouchStays
  <2>9. /\ Pending(t)' = r.made \cup r.gone /\ Pending(t) = {}
        /\ \A u \in Threads : u # t => Pending(u)' = Pending(u)
    BY <1>1, <2>2, <2>3 DEF Pending
  <2>10. ASSUME NEW u \in Threads, Inside(u)'
         PROVE  disturbed'[u] \cap Touch(call[u])' \subseteq blind'
    <3>1. disturbed[u] \cap Touch(call[u]) \subseteq blind
      BY <1>1, <2>2, <2>3, <2>4, <2>10 DEF TraceInv, Inside
    <3>2. CASE u = t
      BY <2>2, <2>6, <2>8, <3>1, <3>2
    <3>3. CASE u # t
      <4>1. Inside(u)
        BY <2>3, <2>10, <3>3 DEF Inside
      <4>2. \A l \in r.made \cup r.gone : l \in Touch(call[u]) => l \in blind'
        BY <2>7, <3>3, <4>1
      <4> QED BY <2>3, <2>6, <2>8, <3>1, <3>3, <4>1, <4>2
    <3> QED BY <3>2, <3>3
  <2>11. ASSUME NEW u \in Threads
         PROVE  Pending(u)' \subseteq Touch(call[u])' \cup blind'
    <3>1. CASE u = t
      BY <2>7, <2>8, <2>9, <3>1
    <3>2. CASE u # t
      BY <2>6, <2>8, <2>9, <3>2 DEF TraceInv
    <3> QED BY <3>1, <3>2
  <2>12. ASSUME NEW u \in Threads, u # t, NEW l \in Pending(u), l \notin blind
         PROVE  l \in Touch(call[u]) /\ Inside(u)
    BY <2>12 DEF TraceInv, Pending, Inside
  <2>13. ASSUME NEW u \in Threads, u # t PROVE Pending(t)' \cap Pending(u)' \subseteq blind'
    BY <2>6, <2>7, <2>9, <2>12, <2>13
  <2>14. ASSUME NEW u \in Threads, NEW v \in Threads, u # v
         PROVE  Pending(u)' \cap Pending(v)' \subseteq blind'
    <3>1. CASE u = t \/ v = t
      BY <2>13, <2>14, <3>1
    <3>2. CASE u # t /\ v # t
      BY <2>6, <2>9, <2>14, <3>2 DEF TraceInv
    <3> QED BY <3>1, <3>2
  <2>15. ASSUME NEW l \in Places \ blind', \A u \in Threads : l \notin Pending(u)'
         PROVE  l \in replay' <=> fs'[l] # "absent"
    <3>1. \A u \in Threads : l \notin Pending(u)
      BY <2>9, <2>15
    <3>2. fs'[l] = fs[l] /\ l \in Places \ blind
      BY <2>1, <2>5, <2>6, <2>9, <2>15
    <3>3. l \in replay <=> fs[l] # "absent"
      BY <3>1, <3>2 DEF TraceInv
    <3> QED BY <1>1, <3>2, <3>3
  <2>16. ASSUME NEW l \in Places \ blind' PROVE Right(t, l)'
    <3>0. /\ l \in r.made \cup r.gone => l \in Follows(c) /\ disturbed[t] \cap Touch(c) = {}
          /\ l \notin Mistaken(c) /\ l \in Places
      BY <2>1, <2>7, <2>16
    <3>1. CASE c.op \in Opening
      <4>1. /\ l \in r.made => l = Old(t) /\ traced /\ exists[t] = FALSE /\ ~skip_path(Old(t))
            /\ l = Old(t) /\ exists[t] = FALSE => r.fs[l] # "absent"
        BY <1>1, <2>4, <3>0, <3>1, OpenRight
      <4>2. r.gone = {} /\ (l \in r.made => r.opened = "file" /\ r.fs[l] = "file")
        BY <2>4, <3>1, SucceedsFacts
      <4> QED BY <1>1, <2>1, <2>2, <2>4, <3>1, <4>1, <4>2 DEF Right, Adds, Removes, Tells
    <3>2. CASE c.op = "unlink"
      <4>1. /\ l \in r.gone => l = Old(t) /\ traced /\ flag[t] # {}
            /\ l = Old(t) => l \in r.gone
            /\ r.made = {}
        BY <1>1, <2>4, <3>0, <3>2, UnlinkRight
      <4>2. l \in r.gone => fs'[l] = "absent"
        BY <2>1, <2>5, <3>0
      <4>3. c.op \notin Opening
        BY <3>2 DEF Opening
      <4> QED BY <1>1, <2>2, <2>4, <3>2, <4>1, <4>2, <4>3 DEF Right, Adds, Removes, Tells
    <3>3. CASE c.op = "rename"
      <4>1. /\ l \in r.made => l = New(c) /\ traced /\ flag[t] # {}
            /\ l \in r.gone => l = Old(t) /\ l # New(c) /\ traced /\ flag[t] # {}
            /\ l = New(c) => r.fs[l] # "absent"
            /\ l = Old(t) /\ l # New(c) => l \in r.gone
        BY <1>1, <2>4, <3>0, <3>3, RenameRight
      <4>2. l \in r.gone => fs'[l] = "absent"
        BY <2>1, <2>5, <3>0
      <4>3. c.op \notin Opening /\ New(call[t])' = New(c)
        BY <1>1, <3>3 DEF Opening, New
      <4> QED BY <1>1, <2>1, <2>2, <2>4, <3>3, <4>1, <4>2, <4>3 DEF Right, Adds, Removes, Tells
    <3> QED BY <2>4, <3>1, <3>2, <3>3, CallTypes DEF Opening
  <2>17. ASSUME NEW u \in Threads, u # t, pc'[u] = "log", NEW l \in Places \ blind'
         PROVE  Right(u, l)'
    <3>1. Right(u, l) /\ l \notin blind /\ Inside(u) /\ pc[u] = "log"
      BY <2>3, <2>6, <2>17 DEF TraceInv, Inside
    <3>2. CASE fs'[l] = fs[l]
      BY <1>1, <2>3, <2>17, <3>1, <3>2, RightStays
    <3>3. CASE fs'[l] # fs[l]
      <4>1. l \in r.made \cup r.gone
        BY <2>1, <2>5, <2>17, <3>3
      <4>2. l \notin Touch(call[u])
        BY <2>7, <2>17, <3>1, <4>1
      <4>3. l \notin made[u] /\ l \notin gone[u]
        BY <2>12, <2>17, <3>1, <4>2 DEF Pending
      <4>4. l # Old(u) /\ (call[u].op = "rename" => l # New(call[u]))
        BY <4>2, TouchFacts DEF Old
      <4>5. Old(u)' = Old(u) /\ New(call[u])' = New(call[u])
        BY <1>1 DEF Old, New
      <4>6. l \notin Adds(u)' /\ l \notin Removes(u)'
        BY <1>1, <4>4, <4>5 DEF Adds, Removes
      <4> QED BY <2>3, <2>17, <4>3, <4>6 DEF Right
    <3> QED BY <3>2, <3>3
  <2> QED BY <2>10, <2>11, <2>14, <2>15, <2>16, <2>17 DEF TraceInv
<1> QED BY <1>2, <1>3

(* Where a call changed a place that the trace follows, it is recorded. *)
LEMMA ChangesRecorded ==
  ASSUME TypeOK, NEW t \in Threads, Found(t), pc[t] = "log", NEW k,
         k = opened[t] \/ (exists[t] = FALSE /\ k = Lstat(Old(t))),
         Record(t, k) = None, NEW l \in Places, Right(t, l)
  PROVE  l \notin Pending(t)
<1> SUFFICES ASSUME l \in made[t] \cup gone[t] PROVE FALSE
  BY DEF Pending
<1>1. Tells(t)
  BY DEF Right, Adds, Removes
<1>2. CASE call[t].op \notin Opening
  <2>1. call[t].op \in Removing /\ ok[t] /\ flag[t] # {}
    BY <1>1, <1>2, CallOfThread, CallTypes DEF Opening, Removing, Tells
  <2> QED BY <2>1, RecordFacts
<1>3. CASE call[t].op \in Opening
  <2>1. ok[t] /\ traced /\ exists[t] = FALSE /\ ~skip_path(Old(t))
    BY <1>1, <1>3 DEF Tells
  <2>2. l = Old(t) /\ opened[t] = "file" /\ fs[l] = "file"
    BY <1>3 DEF Right, Adds, Removes
  <2>3. Place(AT_FDCWD, Old(t)) # None
    BY <2>1 DEF Found
  <2>4. Lstat(Old(t)) = "file"
    BY <2>2, <2>3, PlaceSelf, PathTypes DEF Lstat
  <2>5. Notify(k, S_IFREG, Old(t)) # {}
    BY <2>1, <2>2, <2>4, NotifyFacts
  <2> QED BY <1>3, <2>1, <2>5, RecordFacts
<1> QED BY <1>2, <1>3

(* A record makes the trace right at every place it was still to tell of.  *)
LEMMA RecordTells ==
  ASSUME TypeOK, NEW t \in Threads, Found(t), pc[t] = "log", NEW k,
         k = opened[t] \/ (exists[t] = FALSE /\ k = Lstat(Old(t))),
         NEW l \in Places, Right(t, l),
         l \notin Pending(t) => (l \in replay <=> fs[l] # "absent")
  PROVE  l \in Replayed(Record(t, k)) <=> fs[l] # "absent"
<1> DEFINE R == Record(t, k)
           c == call[t]
<1>0. None \notin Places /\ c \in Calls
  BY PathTypes, CallOfThread
<1>1. CASE R = None
  <2>1. l \notin Pending(t)
    BY <1>1, ChangesRecorded
  <2> QED BY <1>1, <2>1 DEF Replayed
<1>2. CASE R # None
  <2>1. /\ ok[t] /\ traced /\ R.old = Old(t) /\ ~skip_path(Old(t))
        /\ c.op \in Opening => exists[t] = FALSE /\ R.op = "create"
        /\ c.op \in Removing => R.op = c.op /\ flag[t] # {}
        /\ c.op = "unlink" => R.new = None
        /\ c.op = "rename" => R.new = New(c)
    BY <1>2, RecordFacts
  <2>2. l \in made[t] \/ l \in gone[t] \/ l \notin Pending(t)
    BY DEF Pending
  <2> SUFFICES l \in Replayed(R) <=> fs[l] # "absent"
    OBVIOUS
  <2> HIDE DEF R
  <2>3. CASE c.op \in Opening
    <3>1. Adds(t) = {Old(t)} /\ Removes(t) = {}
      BY <2>1, <2>3 DEF Adds, Removes, Tells
    <3>2. Replayed(R) = replay \cup ({Old(t)} \cap Places)
      BY <1>2, <2>1, <2>3 DEF Replayed
    <3>3. CASE l = Old(t)
      BY <3>1, <3>2, <3>3 DEF Right
    <3>4. CASE l # Old(t)
      <4>1. l \notin Pending(t)
        BY <2>2, <3>1, <3>4 DEF Right
      <4> QED BY <3>2, <3>4, <4>1
    <3> QED BY <3>3, <3>4
  <2>4. CASE c.op = "unlink"
    <3>1. Adds(t) = {} /\ Removes(t) = {Old(t)}
      BY <2>1, <2>4 DEF Adds, Removes, Tells, Opening, Removing
    <3>2. Replayed(R) = replay \ {Old(t)}
      BY <1>0, <1>2, <2>1, <2>4 DEF Replayed, Removing
    <3>3. CASE l = Old(t)
      BY <3>1, <3>2, <3>3 DEF Right
    <3>4. CASE l # Old(t)
      <4>1. l \notin Pending(t)
        BY <2>2, <3>1, <3>4 DEF Right
      <4> QED BY <3>2, <3>4, <4>1
    <3> QED BY <3>3, <3>4
  <2>5. CASE c.op = "rename"
    <3>1. Adds(t) = {New(c)} /\ Removes(t) = {Old(t)} \ {New(c)}
      BY <2>1, <2>5 DEF Adds, Removes, Tells, Opening, Removing
    <3>2. Replayed(R) = (replay \ {Old(t)}) \cup ({New(c)} \cap Places)
      BY <1>2, <2>1, <2>5 DEF Replayed, Removing
    <3>3. CASE l = New(c)
      BY <3>1, <3>2, <3>3 DEF Right
    <3>4. CASE l = Old(t) /\ l # New(c)
      BY <3>1, <3>2, <3>4 DEF Right
    <3>5. CASE l # Old(t) /\ l # New(c)
      <4>1. l \notin Pending(t)
        BY <2>2, <3>1, <3>5 DEF Right
      <4> QED BY <3>2, <3>5, <4>1
    <3> QED BY <3>3, <3>4, <3>5
  <2> QED BY <1>0, <2>3, <2>4, <2>5, CallTypes DEF Opening
<1> QED BY <1>1, <1>2

(* The record. *)
LEMMA LogTrace ==
  ASSUME TypeOK, ThreadInv, TraceInv, NEW t \in Threads, Log(t)
  PROVE  TraceInv'
<1>0. Found(t)
  BY DEF ThreadInv, Thread
<1>1. /\ pc[t] = "log" /\ pc' = [pc EXCEPT ![t] = "done"]
      /\ UNCHANGED <<fs, traced, call, exists, flag, opened, ok, made, gone, kind, disturbed,
                     blind, events>>
  BY <1>0, LogFacts
<1>2. PICK k : /\ k = opened[t] \/ (exists[t] = FALSE /\ k = Lstat(Old(t)))
               /\ replay' = Replayed(Record(t, k))
  BY <1>0, LogFacts
<1>3. pc'[t] = "done" /\ \A u \in Threads : u # t => pc'[u] = pc[u]
  BY <1>1 DEF TypeOK
<1>4. Pending(t)' = {} /\ \A u \in Threads : u # t => Pending(u)' = Pending(u)
  BY <1>1, <1>3 DEF Pending
<1>5. \A u \in Threads : Touch(call[u])' = Touch(call[u])
  BY <1>1, TouchStays
<1>6. \A u \in Threads : Inside(u)' => disturbed'[u] \cap Touch(call[u])' \subseteq blind'
  BY <1>1, <1>3, <1>5 DEF TraceInv, Inside
<1>7. \A u \in Threads : Pending(u)' \subseteq Touch(call[u])' \cup blind'
  BY <1>1, <1>4, <1>5 DEF TraceInv
<1>8. \A u, v \in Threads : u # v => Pending(u)' \cap Pending(v)' \subseteq blind'
  BY <1>1, <1>4 DEF TraceInv
<1>9. ASSUME NEW l \in Places \ blind', \A u \in Threads : l \notin Pending(u)'
      PROVE  l \in replay' <=> fs'[l] # "absent"
  <2>1. l \in Places \ blind /\ \A u \in Threads : u # t => l \notin Pending(u)
    BY <1>1, <1>4, <1>9
  <2>2. l \notin Pending(t) => (l \in replay <=> fs[l] # "absent")
    BY <2>1 DEF TraceInv
  <2>3. Right(t, l)
    BY <1>1, <2>1 DEF TraceInv
  <2>4. l \in Replayed(Record(t, k)) <=> fs[l] # "absent"
    BY <1>0, <1>1, <1>2, <2>1, <2>2, <2>3, RecordTells
  <2> QED BY <1>1, <1>2, <2>4
<1>10. ASSUME NEW u \in Threads, pc'[u] = "log", NEW l \in Places \ blind' PROVE Right(u, l)'
  <2>1. Right(u, l)
    BY <1>1, <1>3, <1>10 DEF TraceInv
  <2> QED BY <1>1, <2>1, RightStays
<1> QED BY <1>6, <1>7, <1>8, <1>9, <1>10 DEF TraceInv

(* Every step keeps it. *)
LEMMA StepTrace ==
  ASSUME TypeOK, TypeOK', ThreadInv, TraceInv, [Next]_vars
  PROVE  TraceInv'
<1>1. ASSUME NEW t \in Threads, Begin(t) PROVE TraceInv'
  BY <1>1, BeginTrace
<1>2. ASSUME NEW t \in Threads, Look(t) PROVE TraceInv'
  BY <1>2, LookTrace
<1>3. ASSUME NEW t \in Threads, Syscall(t) PROVE TraceInv'
  BY <1>3, SyscallTrace
<1>4. ASSUME NEW t \in Threads, Log(t) PROVE TraceInv'
  BY <1>4, LogTrace
<1>5. ASSUME NEW t \in Threads, Return(t) PROVE TraceInv'
  BY <1>5, ReturnTrace
<1>6. ASSUME NEW l \in Places, Other(l) PROVE TraceInv'
  BY <1>6, OtherTrace
<1>7. ASSUME Rest \/ UNCHANGED vars PROVE TraceInv'
  BY <1>7, StutterTrace DEF Rest
<1> QED BY <1>1, <1>2, <1>3, <1>4, <1>5, <1>6, <1>7 DEF Next, Hook

(* The records still to come make up the difference between the trace and  *)
(* the files, at every place the hooks can follow.                         *)
THEOREM TraceInvariant == Spec => []TraceInv
<1>1. Init => TraceInv
  BY InitTrace
<1>2. TypeOK /\ TypeOK' /\ ThreadInv /\ TraceInv /\ [Next]_vars => TraceInv'
  BY StepTrace
<1> QED BY <1>1, <1>2, NamespaceInvariant, PTL DEF Spec

(* Replaying the records of the hooks gives the files that are there, at   *)
(* every traced place that only calls they can follow have changed, one at *)
(* a time: no file is missing from the trace and none is in it too much.   *)
THEOREM TraceReplaysFiles == Spec => []TraceReplays
<1>1. TypeOK /\ TraceInv => TraceReplays
  <2> SUFFICES ASSUME TypeOK, TraceInv, NEW l \in Places, l \notin blind,
                      \A t \in Threads : Inside(t) => l \notin Touch(call[t])
               PROVE  l \in replay <=> fs[l] # "absent"
    BY DEF TraceReplays
  <2>1. \A t \in Threads : l \notin Pending(t)
    BY DEF TraceInv, Pending, Inside
  <2> QED BY <2>1 DEF TraceInv
<1> QED BY <1>1, NamespaceInvariant, TraceInvariant, PTL
=============================================================================
