----------------------------- MODULE Namespace -----------------------------
(***************************************************************************)
(* The hooks that follow the name space: open(), openat(), creat() and     *)
(* fopen() of open.c and fopen.c, unlink() and unlinkat() of unlink.c,     *)
(* rename() and renameat() of rename.c, with notify() and fd_to_path() of  *)
(* fs.c.  Each looks at the path, makes the system call and then writes a  *)
(* record: three steps between which other threads and processes work on   *)
(* the same files.                                                         *)
(*                                                                         *)
(* A place is a name in a directory.  A path is a place (absolute) or a    *)
(* name in the directory Rel (relative).  The directories themselves stay. *)
(* A record is reduced to its operation, its MODE and its paths.           *)
(***************************************************************************)
EXTENDS Integers, FiniteSets

CONSTANTS
  Threads,      \* threads of the traced process
  Dirs,         \* directories
  TracedDirs,   \* those under one of the prefixes of skip_path()
  Denied,       \* those the process may not search
  Cwd,          \* the working directory
  Names,        \* names in a directory
  Target,       \* the place every symbolic link points to
  Calls,        \* the calls the application may make
  Files,        \* the file systems to begin with
  StdinClosed,  \* open() may return descriptor 0
  Rel, Odd,     \* "relative"; the name under which nothing is ever found
  AT_FDCWD, Bad,\* the base of a plain path; a descriptor that is not open
  None,
  MaxEvents     \* bound: calls begun, and changes by other processes and
                \* by calls that have no hook

Places == [dir : Dirs, name : Names]
Paths == [dir : Dirs \cup {Rel}, name : Names]
Bases == Dirs \cup {AT_FDCWD, Bad}

(* A call: "create" is open() and its family, and how is what its flags    *)
(* say: O_CREAT, O_CREAT with O_EXCL, or neither.  For fopen(), how is     *)
(* whether the mode has "w+" or "a+" or another form that creates.  For    *)
(* unlinkat(), "rmdir" is AT_REMOVEDIR.  Only a rename has another to.     *)
CallSet ==
  [op : {"create"}, how : {"creat", "excl", "none"}, base : Bases, path : Paths,
   tobase : {AT_FDCWD}, to : {None}]
  \cup
  [op : {"fopen"}, how : {"plus", "plain"}, base : {AT_FDCWD}, path : Paths,
   tobase : {AT_FDCWD}, to : {None}]
  \cup
  [op : {"unlink"}, how : {"file", "rmdir"}, base : Bases, path : Paths,
   tobase : {AT_FDCWD}, to : {None}]
  \cup
  [op : {"rename"}, how : {"move"}, base : Bases, path : Paths, tobase : Bases, to : Paths]

(* The paths a record may give, and the records. *)
NamedPaths == [dir : Dirs \cup {Rel}, name : Names \cup {Odd}]
Records ==
  [op : {"create", "unlink", "rename"}, mode : {"FILE_OR_DIR", "FILE", "DIR", "UNKNOWN", None},
   old : NamedPaths, new : NamedPaths \cup {None}]

ASSUME NamespaceAssumption ==
  /\ TracedDirs \subseteq Dirs /\ Denied \subseteq Dirs /\ Cwd \in Dirs \ Denied
  /\ Target \in Places /\ Target.dir \notin Denied
  /\ Rel \notin Dirs /\ Odd \notin Names /\ AT_FDCWD \notin Dirs /\ Bad \notin Dirs
  /\ AT_FDCWD # Bad /\ None \notin NamedPaths \cup Records
  /\ Calls \subseteq CallSet
  /\ Files \subseteq [Places -> {"file", "dir", "link", "sock", "fifo", "absent"}]
  /\ StdinClosed \in BOOLEAN /\ MaxEvents \in Nat

VARIABLES
  fs,         \* what is at each place
  traced,     \* _notify
  pc,         \* each thread: "idle", "look", "call", "log" or "done"
  call,       \* its call
  exists,     \* exists in __OPENAT() and fopen()
  flag,       \* flag in __UNLINKAT() and __RENAMEAT(), a set of bits
  opened,     \* what the descriptor it got refers to, None without one
  ok,         \* the system call succeeded
  ret,        \* what it returns: "ok", "fail", or "length" of a path
  rec,        \* the record it wrote, None without one
  made, gone, kind,  \* history: places its system call filled and emptied,
                     \* and what it removed or moved
  disturbed,  \* history: places that others changed during its call
  replay,     \* history: the places that are taken according to the trace
  blind,      \* history: places changed in a way the trace does not follow
  events

locals == <<pc, call, exists, flag, opened, ok, ret, rec, made, gone, kind>>
history == <<disturbed, replay, blind>>
vars == <<fs, traced, locals, history, events>>

-----------------------------------------------------------------------------
(* The types of files in st_mode, as the set of bits of S_IFMT.            *)

Kinds == {"file", "dir", "link", "sock", "fifo"}
S_IFREG == {15}
S_IFDIR == {14}
Bits(k) == [file |-> S_IFREG, dir |-> S_IFDIR, link |-> {15, 13}, sock |-> {15, 14},
            fifo |-> {12}][k]

(* The word a record has for such bits: the macro mode(). *)
Mode(bits) == CASE bits = S_IFREG \cup S_IFDIR -> "FILE_OR_DIR"
                [] bits = S_IFREG              -> "FILE"
                [] bits = S_IFDIR              -> "DIR"
                [] OTHER                       -> "UNKNOWN"

(* Where the kernel finds a path; None when it does not. *)
Place(base, p) ==
  LET d == IF p.dir # Rel THEN p.dir ELSE IF base = AT_FDCWD THEN Cwd ELSE base
  IN  IF d \in Dirs \ Denied THEN [dir |-> d, name |-> p.name] ELSE None

(* The path the tracer takes a pair of base and path for: the path itself, *)
(* or path put behind what fd_to_path() says of the base.  An absolute     *)
(* path behind a directory names nothing.                                  *)
Named(base, p) ==
  CASE base = AT_FDCWD               -> p
    [] base \in Dirs /\ p.dir = Rel  -> [dir |-> base, name |-> p.name]
    [] base \in Dirs /\ p.dir # Rel  -> [dir |-> base, name |-> Odd]
    [] OTHER                         -> None

(* lstat(): what is at path p. *)
Lstat(p) ==
  LET l == Place(AT_FDCWD, p) IN
  IF l = None THEN "denied" ELSE IF p.name = Odd THEN "absent" ELSE fs[l]

(* The place that a path leads to when a symbolic link is followed. *)
Follow(l) == IF fs[l] = "link" THEN Target ELSE l

(* access(p, F_OK) fails with ENOENT. *)
Missing(p) ==
  \/ p.name = Odd /\ Place(AT_FDCWD, p) # None
  \/ p.name # Odd /\ Place(AT_FDCWD, p) # None /\ fs[Follow(Place(AT_FDCWD, p))] = "absent"

skip_path(p) == p.dir \notin TracedDirs

(* Variants of notify(): without skip_path(), and with the types asked for *)
(* instead of the one found.                                               *)
Notify_AnyPath(k, flags, p) ==
  IF k = "denied" THEN {} ELSE IF k = "absent" THEN flags ELSE flags \cap Bits(k)

Notify_Asked(k, flags, p) ==
  CASE skip_path(p) \/ k = "denied"   -> {}
    [] ~skip_path(p) /\ k = "absent"  -> flags
    [] OTHER                          -> IF flags \cap Bits(k) = {} THEN {} ELSE flags

(* notify(), where k is what stat() says of the descriptor or the path. *)
Notify(k, flags, p) ==
  CASE skip_path(p) \/ k = "denied"   -> {}
    [] ~skip_path(p) /\ k = "absent"  -> flags
    [] OTHER                          -> IF flags \cap Bits(k) = {} THEN {} ELSE Bits(k)

-----------------------------------------------------------------------------
Init ==
  /\ fs \in Files
  /\ traced \in BOOLEAN
  /\ pc = [t \in Threads |-> "idle"] /\ call = [t \in Threads |-> None]
  /\ exists = [t \in Threads |-> TRUE] /\ flag = [t \in Threads |-> {}]
  /\ opened = [t \in Threads |-> None] /\ ok = [t \in Threads |-> FALSE]
  /\ ret = [t \in Threads |-> "fail"] /\ rec = [t \in Threads |-> None]
  /\ made = [t \in Threads |-> {}] /\ gone = [t \in Threads |-> {}]
  /\ kind = [t \in Threads |-> "absent"] /\ disturbed = [t \in Threads |-> {}]
  /\ replay = {l \in Places : fs[l] # "absent"}
  /\ blind = {} /\ events = 0

(* The application calls one of the functions. *)
Begin(t) ==
  /\ pc[t] = "idle" /\ events < MaxEvents
  /\ \E c \in Calls : call' = [call EXCEPT ![t] = c]
  /\ events' = events + 1
  /\ pc' = [pc EXCEPT ![t] = "look"]
  /\ UNCHANGED <<fs, traced, exists, flag, opened, ok, ret, rec, made, gone, kind, history>>

(* Whether a new file is looked for before the call.  fopen() does so also *)
(* in a process that is not traced.                                        *)
OpenLooks(c) == c.op = "create" /\ traced /\ c.how # "none"
FopenLooks(c) == c.op = "fopen" /\ c.how = "plus"
LooksForNew(c) == OpenLooks(c) \/ FopenLooks(c)

(* A variant: directories are not asked for. *)
Look_FilesOnly(t) ==
  LET c == call[t]
      p == Named(c.base, c.path)
  IN
  /\ pc[t] = "look"
  /\ pc' = [pc EXCEPT ![t] = "call"]
  /\ exists' = [exists EXCEPT ![t] = ~(LooksForNew(c) /\ p # None /\ Missing(p))]
  /\ flag' = [flag EXCEPT ![t] =
       IF c.op \in {"unlink", "rename"} /\ traced /\ p # None
         THEN Notify(Lstat(p), S_IFREG, p) ELSE {}]
  /\ UNCHANGED <<fs, traced, call, opened, ok, ret, rec, made, gone, kind, history, events>>

(* access(), lstat() and what the hook remembers of them. *)
Look(t) ==
  LET c == call[t]
      p == Named(c.base, c.path)
  IN
  /\ pc[t] = "look"
  /\ pc' = [pc EXCEPT ![t] = "call"]
  /\ exists' = [exists EXCEPT ![t] = ~(LooksForNew(c) /\ p # None /\ Missing(p))]
  /\ flag' = [flag EXCEPT ![t] =
       IF c.op \in {"unlink", "rename"} /\ traced /\ p # None
         THEN Notify(Lstat(p), S_IFREG \cup S_IFDIR, p) ELSE {}]
  /\ UNCHANGED <<fs, traced, call, opened, ok, ret, rec, made, gone, kind, history, events>>

-----------------------------------------------------------------------------
(* The system call.  In a traced process unlinkat() is called with the     *)
(* working directory, whatever the application's descriptor.               *)

KernelBase(c) == IF c.op = "unlink" /\ traced THEN AT_FDCWD ELSE c.base

(* What a call that succeeds may do: the file system it leaves, the places *)
(* it filled and emptied, what it removed or moved, what it opened.        *)
Opens(c) ==
  LET l == Place(KernelBase(c), c.path)
      r == IF c.how = "excl" THEN l ELSE Follow(l)
      Old == {"file", "fifo"} \cup (IF c.how = "none" THEN {"dir"} ELSE {})
  IN
  IF l = None THEN {}
  ELSE IF fs[r] = "absent" /\ c.how # "none"
    THEN {[fs |-> [fs EXCEPT ![r] = "file"], made |-> {r}, gone |-> {}, kind |-> "absent",
           opened |-> "file"]}
  ELSE IF fs[r] \in Old /\ c.how # "excl"
    THEN {[fs |-> fs, made |-> {}, gone |-> {}, kind |-> "absent", opened |-> fs[r]]}
  ELSE {}

Unlinks(c) ==
  LET l == Place(KernelBase(c), c.path) IN
  IF l # None /\ fs[l] # "absent" /\ (fs[l] = "dir" <=> c.how = "rmdir")
    THEN {[fs |-> [fs EXCEPT ![l] = "absent"], made |-> {}, gone |-> {l}, kind |-> fs[l],
           opened |-> None]}
    ELSE {}

Renames(c) ==
  LET a == Place(c.base, c.path)
      b == Place(c.tobase, c.to)
  IN
  IF a = None \/ b = None \/ fs[a] = "absent" THEN {}
  ELSE IF a = b
    THEN {[fs |-> fs, made |-> {}, gone |-> {}, kind |-> fs[a], opened |-> None]}
  ELSE IF fs[b] = "absent" \/ (fs[a] = "dir" <=> fs[b] = "dir")
    THEN {[fs |-> [fs EXCEPT ![a] = "absent", ![b] = fs[a]], made |-> {b}, gone |-> {a},
           kind |-> fs[a], opened |-> None]}
  ELSE {}

Succeeds(c) == CASE c.op \in {"create", "fopen"} -> Opens(c)
                 [] c.op = "unlink"              -> Unlinks(c)
                 [] c.op = "rename"              -> Renames(c)

(* The path a rename gives as its new one: __RENAMEAT() completes it only  *)
(* when both paths have a descriptor, and fd_to_path() knows the second.   *)
New(c) ==
  IF c.base # AT_FDCWD /\ c.tobase \in Dirs THEN Named(c.tobase, c.to) ELSE c.to

-----------------------------------------------------------------------------
(* What the trace can follow (used by the properties only).                *)

(* The places a call names or may change. *)
Touch(c) ==
  {l \in Places : \/ l \in {Place(c.base, c.path), Place(KernelBase(c), c.path),
                            Named(c.base, c.path)}
                  \/ c.op = "rename" /\ l \in {Place(c.tobase, c.to), New(c)}}

(* A thread is between the beginning of its call and its record. *)
Inside(t) == pc[t] \in {"look", "call", "log"}

(* The places whose change by call c its record tells: the paths are       *)
(* absolute or complete, the first one is under a traced prefix, fopen()   *)
(* has a + in its mode, and what is removed or moved is not a FIFO and can *)
(* be looked at.                                                           *)
Follows(c) ==
  LET p == Named(c.base, c.path) IN
  IF ~traced \/ p = None \/ c.how \in {"none", "plain"} THEN {}
  ELSE IF skip_path(p) \/ (c.op \in {"unlink", "rename"} /\ Lstat(p) \in {"fifo", "denied"}) THEN {}
  ELSE ({p} \cup (IF c.op = "rename" THEN {New(c)} ELSE {})) \cap Places

(* The places a record of c is wrong about: unlinkat() with a descriptor   *)
(* removed another file, or a rename onto itself is given with two paths.  *)
Mistaken(c) ==
  LET p == Named(c.base, c.path) IN
  IF \/ c.op = "unlink" /\ p # Place(KernelBase(c), c.path)
     \/ c.op = "rename" /\ Place(c.base, c.path) = Place(c.tobase, c.to) /\ New(c) # p
  THEN {p} \cap Places
  ELSE {}

-----------------------------------------------------------------------------
Syscall(t) ==
  LET c == call[t] IN
  /\ pc[t] = "call"
  /\ pc' = [pc EXCEPT ![t] = "log"]
  /\ \/ \E r \in Succeeds(c) :
          /\ fs' = r.fs
          /\ ok' = [ok EXCEPT ![t] = TRUE]
          /\ ret' = [ret EXCEPT ![t] = "ok"]
          /\ opened' = [opened EXCEPT ![t] = r.opened]
          /\ made' = [made EXCEPT ![t] = r.made]
          /\ gone' = [gone EXCEPT ![t] = r.gone]
          /\ kind' = [kind EXCEPT ![t] = r.kind]
          /\ disturbed' = [u \in Threads |->
               IF u # t /\ Inside(u) THEN disturbed[u] \cup r.made \cup r.gone
                                     ELSE disturbed[u]]
          /\ blind' = blind \cup ((r.made \cup r.gone) \ Follows(c)) \cup Mistaken(c) \cup
               {l \in r.made \cup r.gone :
                  \/ disturbed[t] \cap Touch(c) # {}
                  \/ \E u \in Threads : u # t /\ Inside(u) /\ l \in Touch(call[u])}
     \/ UNCHANGED <<fs, ok, ret, opened, made, gone, kind, disturbed, blind>>
  /\ UNCHANGED <<traced, call, exists, flag, rec, replay, events>>

(* The records of a thread's call: notify_create() of a file that was      *)
(* missing before, where k is the type of the file; notify_unlink() and    *)
(* notify_rename() of what notify() found before.  A variant does not ask  *)
(* whether the file is new.                                                *)
Created_Existing(t, k) ==
  LET p == Named(call[t].base, call[t].path) IN
  IF ok[t] /\ traced /\ p # None /\ Notify(k, S_IFREG, p) # {}
    THEN [op |-> "create", mode |-> None, old |-> p, new |-> None] ELSE None

Created(t, k) ==
  LET p == Named(call[t].base, call[t].path) IN
  IF ok[t] /\ ~exists[t] /\ traced /\ Notify(k, S_IFREG, p) # {}
    THEN [op |-> "create", mode |-> None, old |-> p, new |-> None] ELSE None

Unlinked(t) ==
  IF ok[t] /\ flag[t] # {}
    THEN [op |-> "unlink", mode |-> Mode(flag[t]), old |-> Named(call[t].base, call[t].path),
          new |-> None]
    ELSE None

Renamed(t) ==
  IF ok[t] /\ flag[t] # {}
    THEN [op |-> "rename", mode |-> Mode(flag[t]), old |-> Named(call[t].base, call[t].path),
          new |-> New(call[t])]
    ELSE None

Record(t, k) == CASE call[t].op \in {"create", "fopen"} -> Created(t, k)
                  [] call[t].op = "unlink"              -> Unlinked(t)
                  [] call[t].op = "rename"              -> Renamed(t)

(* The trace with one record more. *)
Replayed(r) ==
  IF r = None THEN replay
  ELSE IF r.op = "create" THEN replay \cup ({r.old} \cap Places)
  ELSE (replay \ {r.old}) \cup ({r.new} \cap Places)

(* Whether completing the new path of a rename overwrites the result. *)
Overwrites(t) ==
  LET c == call[t] IN
  c.op = "rename" /\ ok[t] /\ flag[t] # {} /\ c.base # AT_FDCWD /\ c.tobase # AT_FDCWD

(* The record and the return.  notify() looks at descriptor 0 by its path. *)
Log(t) ==
  LET c == call[t] IN
  /\ pc[t] = "log"
  /\ \E k \in {opened[t]} \cup
              (IF StdinClosed /\ ~exists[t] THEN {Lstat(Named(c.base, c.path))} ELSE {}) :
       /\ rec' = [rec EXCEPT ![t] = Record(t, k)]
       /\ replay' = Replayed(Record(t, k))
  /\ ret' = IF Overwrites(t)
              THEN [ret EXCEPT ![t] = IF c.tobase \in Dirs THEN "length" ELSE "fail"]
              ELSE ret
  /\ pc' = [pc EXCEPT ![t] = "done"]
  /\ UNCHANGED <<fs, traced, call, exists, flag, opened, ok, made, gone, kind, disturbed, blind,
                 events>>

Return(t) ==
  /\ pc[t] = "done"
  /\ pc' = [pc EXCEPT ![t] = "idle"] /\ call' = [call EXCEPT ![t] = None]
  /\ exists' = [exists EXCEPT ![t] = TRUE] /\ flag' = [flag EXCEPT ![t] = {}]
  /\ opened' = [opened EXCEPT ![t] = None] /\ ok' = [ok EXCEPT ![t] = FALSE]
  /\ ret' = [ret EXCEPT ![t] = "fail"] /\ rec' = [rec EXCEPT ![t] = None]
  /\ made' = [made EXCEPT ![t] = {}] /\ gone' = [gone EXCEPT ![t] = {}]
  /\ kind' = [kind EXCEPT ![t] = "absent"]
  /\ disturbed' = [disturbed EXCEPT ![t] = {}]
  /\ UNCHANGED <<fs, traced, replay, blind, events>>

(* Another process, or a call that is not hooked: mkdir(), symlink(), ...  *)
Other(l) ==
  /\ events < MaxEvents
  /\ \E k \in Kinds \cup {"absent"} : k # fs[l] /\ fs' = [fs EXCEPT ![l] = k]
  /\ events' = events + 1
  /\ disturbed' = [u \in Threads |->
       IF Inside(u) THEN disturbed[u] \cup {l} ELSE disturbed[u]]
  /\ blind' = blind \cup {l}
  /\ UNCHANGED <<traced, locals, replay>>

Hook(t) == Look(t) \/ Syscall(t) \/ Log(t) \/ Return(t)

(* Nobody calls any more. *)
Rest == (\A t \in Threads : pc[t] = "idle") /\ UNCHANGED vars

Next ==
  \/ \E t \in Threads : Begin(t) \/ Hook(t)
  \/ \E l \in Places : Other(l)
  \/ Rest

Spec == Init /\ [][Next]_vars

-----------------------------------------------------------------------------
(* Properties.                                                             *)

(* Every variable keeps its type; a hook that did not look for the file    *)
(* or its type writes no record.                                           *)
TypeOK ==
  /\ fs \in [Places -> Kinds \cup {"absent"}]
  /\ traced \in BOOLEAN
  /\ pc \in [Threads -> {"idle", "look", "call", "log", "done"}]
  /\ call \in [Threads -> Calls \cup {None}]
  /\ \A t \in Threads : pc[t] # "idle" => call[t] \in Calls
  /\ exists \in [Threads -> BOOLEAN]
  /\ flag \in [Threads -> SUBSET (12 .. 15)]
  /\ opened \in [Threads -> {"file", "fifo", "dir", None}]
  /\ ok \in [Threads -> BOOLEAN]
  /\ ret \in [Threads -> {"ok", "fail", "length"}]
  /\ rec \in [Threads -> Records \cup {None}]
  /\ \A t \in Threads : rec[t] # None => rec[t].old.dir \in TracedDirs
  /\ made \in [Threads -> SUBSET Places] /\ gone \in [Threads -> SUBSET Places]
  /\ kind \in [Threads -> Kinds \cup {"absent"}]
  /\ disturbed \in [Threads -> SUBSET Places]
  /\ replay \subseteq Places /\ blind \subseteq Places
  /\ events \in 0 .. MaxEvents

(* Replaying the records gives the files that are there: at every traced   *)
(* place that was only changed by calls the hooks can follow, one at a     *)
(* time.                                                                   *)
TraceReplays ==
  \A l \in Places :
    /\ l.dir \in TracedDirs /\ l \notin blind
    /\ \A t \in Threads : Inside(t) => l \notin Touch(call[t])
    => (l \in replay <=> fs[l] # "absent")

(* A record of a file that is created is of a file the call made, unless   *)
(* somebody else made it after the call looked, or the path is an absolute *)
(* one behind a descriptor, which exists nowhere.                          *)
NewFilesRecorded ==
  \A t \in Threads : pc[t] = "done" /\ rec[t] # None /\ call[t].op \in {"create", "fopen"} =>
    \/ made[t] = {rec[t].old} \/ made[t] = {Target}
    \/ {rec[t].old, Target} \cap disturbed[t] # {}
    \/ rec[t].old.name = Odd

(* The MODE of a record is the type of what was removed or moved, with two *)
(* exceptions: somebody came between look and call, or the path that was   *)
(* looked at is not the place the kernel worked on.  The second needs      *)
(* nobody else: unlinkat() with a descriptor is passed on with the working *)
(* directory (unlink.c:74) and so removes another file than the one that   *)
(* is recorded, and an absolute path behind a descriptor is put behind its *)
(* directory.  A symbolic link is UNKNOWN and a socket FILE_OR_DIR, as a   *)
(* file that is missing.                                                   *)
ModeTrue ==
  \A t \in Threads : pc[t] = "done" /\ rec[t] # None /\ call[t].op \in {"unlink", "rename"} =>
    \/ rec[t].old \in disturbed[t]
    \/ rec[t].old # Place(KernelBase(call[t]), call[t].path)
    \/ rec[t].mode = [file |-> "FILE", dir |-> "DIR", link |-> "UNKNOWN",
                      sock |-> "FILE_OR_DIR", fifo |-> "none"][kind[t]]
=============================================================================
