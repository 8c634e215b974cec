-------------------------- MODULE LifecycleProofs --------------------------
(***************************************************************************)
(* Proofs about Lifecycle, for any number of threads, flushers, addresses  *)
(* and signals.                                                            *)
(***************************************************************************)
EXTENDS Lifecycle, FiniteSetTheorems, TLAPS

USE DEF flusher, signal, process, Goto, Started, Fine

-----------------------------------------------------------------------------
(* Types.                                                                  *)

Errors == {"freed", "double", "junk"}

(* An access leaves errors and status with their types. *)
LEMMA AccessType ==
  ASSUME TypeOK, status = "running", NEW i, Access(i)
  PROVE  errors' \in SUBSET Errors /\ status' \in {"running", "aborted"}
BY ZenonT(60) DEF TypeOK, Access, Wrong, Errors

(* So does a use of junk. *)
LEMMA WrongType ==
  ASSUME TypeOK, status = "running", Wrong("junk") \/ Fine
  PROVE  errors' \in SUBSET Errors /\ status' \in {"running", "aborted"}
BY DEF TypeOK, Wrong, Errors

(* free() also keeps the type of the heap. *)
LEMMA FreeType ==
  ASSUME TypeOK, status = "running", NEW i, Free(i)
  PROVE  /\ errors' \in SUBSET Errors /\ status' \in {"running", "aborted"}
         /\ heap' \in [Infos -> {"unused", "live", "freed"}]
<1>1. heap' \in [Infos -> {"unused", "live", "freed"}]
  BY DEF TypeOK, Free
<1>2. errors' \in SUBSET Errors /\ status' \in {"running", "aborted"}
  BY ZenonT(60) DEF TypeOK, Free, Wrong, Errors
<1> QED BY <1>1, <1>2

(* Every step of a thread inside the tracer keeps the types. *)
LEMMA TypeStep ==
  ASSUME TypeOK, FlusherInv, NEW t \in Threads, Step(t)
  PROVE  TypeOK'
<1> USE LifecycleAssumption DEF TypeOK, Starting, Stopping, Pcs
<1>0. status = "running"
  BY DEF Step
<1>1. CASE Ctor(t)
  <2>1. traced' \in BOOLEAN /\ booted' \in BOOLEAN
    BY <1>1, Zenon DEF Ctor
  <2> QED BY <1>1, <2>1 DEF Ctor
<1>2. CASE Atexit(t)
  BY <1>2 DEF Atexit
<1>3. CASE InitSignal(t)
  <2>1. booted' \in BOOLEAN
    BY <1>3, Zenon DEF InitSignal
  <2>2. disp' \in [Signals -> {"dfl", "ign", "app", "agg"}]
    BY <1>3 DEF InitSignal
  <2> QED BY <1>3, <2>1, <2>2 DEF InitSignal
<1>4. CASE Count(t)
  BY <1>4 DEF Count
<1>5. CASE StartCheck(t)
  BY <1>5 DEF StartCheck
<1>6. CASE Malloc(t)
  BY <1>6 DEF Malloc
<1>7. CASE MallocFail(t)
  BY <1>7 DEF MallocFail
<1>8. CASE Publish(t)
  <2>1. /\ errors' \in SUBSET Errors /\ status' \in {"running", "aborted"}
        /\ heap' \in [Infos -> {"unused", "live", "freed"}]
    BY <1>0, <1>8, FreeType, ZenonT(60) DEF Publish, Errors
  <2>2. flusher_info' \in Infos \cup {NULL}
    BY <1>8 DEF Publish, FlusherInv, Private
  <2>3. /\ loc' \in [Threads -> Infos \cup Flushers \cup {Junk, NULL}]
        /\ pc' \in [Threads -> Pcs]
    BY <1>8 DEF Publish
  <2> QED BY <1>0, <1>8, <2>1, <2>2, <2>3 DEF Publish, Errors
<1>9. CASE SetFields(t)
  <2>1. interrupt' \in [Infos -> {0, 1, Junk}]
    BY <1>9 DEF SetFields
  <2> QED BY <1>0, <1>9, <2>1, AccessType DEF SetFields, Errors
<1>10. CASE CreateFlusher(t)
  <2>1. tid' \in [Infos -> Flushers \cup {Junk}]
    BY <1>10 DEF CreateFlusher
  <2>2. /\ fl' \in [Flushers -> {"none", "sleep", "stuck", "done", "gone"}]
        /\ arg' \in [Flushers -> Infos \cup {NULL}]
    BY <1>10 DEF CreateFlusher
  <2> QED BY <1>0, <1>10, <2>1, <2>2, AccessType DEF CreateFlusher, Errors
<1>11. CASE Fini(t)
  BY <1>11 DEF Fini
<1>12. CASE StopTid(t)
  <2>1. loc' \in [Threads -> Infos \cup Flushers \cup {Junk, NULL}]
    BY <1>12 DEF StopTid, FlusherInv, OneExit
  <2> QED BY <1>0, <1>12, <2>1, AccessType DEF StopTid, Errors
<1>13. CASE StopInterrupt(t)
  <2>1. interrupt' \in [Infos -> {0, 1, Junk}]
    BY <1>13 DEF StopInterrupt
  <2> QED BY <1>0, <1>13, <2>1, AccessType DEF StopInterrupt, Errors
<1>14. CASE StopJoin(t)
  BY <1>0, <1>14, WrongType DEF StopJoin, Errors
<1>15. CASE StopFree(t)
  BY <1>0, <1>15, FreeType DEF StopFree, Errors
<1>16. CASE FiniReturn(t)
  BY <1>0, <1>16 DEF FiniReturn
<1>17. QED
  BY <1>1, <1>2, <1>3, <1>4, <1>5, <1>6, <1>7, <1>8, <1>9, <1>10, <1>11, <1>12,
     <1>13, <1>14, <1>15, <1>16 DEF Step

(* So does whatever the application, the flusher and the kernel do. *)
LEMMA TypeOther ==
  ASSUME TypeOK
  PROVE  /\ \A t \in Threads : Call(t) => TypeOK'
         /\ \A f \in Flushers : FlusherStep(f) => TypeOK'
         /\ \A s \in Signals : status = "running" /\ (Deliver(s) \/ Sigaction(s)) => TypeOK'
<1> USE LifecycleAssumption DEF TypeOK, Starting, Stopping, Pcs
<1>1. ASSUME NEW t \in Threads, Call(t) PROVE TypeOK'
  <2>0. status = "running"
    BY <1>1 DEF Call
  <2>1. ASSUME NEW u \in Threads, PthreadCreate(t, u) PROVE TypeOK'
    BY <2>1 DEF PthreadCreate
  <2>2. CASE PhantomCreate(t)
    BY <2>2 DEF PhantomCreate
  <2>3. CASE PthreadExit(t)
    BY <2>3 DEF PthreadExit
  <2>4. CASE ThreadReturn(t)
    BY <2>4 DEF ThreadReturn
  <2>5. CASE Exit(t)
    BY <2>5 DEF Exit
  <2>6. CASE Fork(t)
    BY <2>6 DEF Fork
  <2> QED BY <1>1, <2>1, <2>2, <2>3, <2>4, <2>5, <2>6 DEF Call
<1>2. ASSUME NEW f \in Flushers, FlusherStep(f) PROVE TypeOK'
  <2>0. status = "running"
    BY <1>2 DEF FlusherStep
  <2>1. CASE FlusherEnds(f)
    <3>1. /\ errors' \in SUBSET Errors /\ status' \in {"running", "aborted"}
          /\ heap' \in [Infos -> {"unused", "live", "freed"}]
      BY <2>0, <2>1, FreeType DEF FlusherEnds
    <3> QED BY <2>0, <2>1, <3>1 DEF FlusherEnds, Errors
  <2>2. CASE FlusherSpins(f)
    BY <2>0, <2>2 DEF FlusherSpins
  <2> QED BY <1>2, <2>1, <2>2 DEF FlusherStep
<1>3. ASSUME NEW s \in Signals, status = "running", Deliver(s) PROVE TypeOK'
  <2>1. status' \in {"running", "killed", "segv"}
    BY <1>3 DEF Deliver
  <2>2. pc' \in [Threads -> Pcs]
    BY <1>3 DEF Deliver
  <2> QED BY <1>3, <2>1, <2>2 DEF Deliver
<1>4. ASSUME NEW s \in Signals, Sigaction(s) PROVE TypeOK'
  BY <1>4 DEF Sigaction
<1> QED BY <1>1, <1>2, <1>3, <1>4

-----------------------------------------------------------------------------
(* The flusher's start and stop.                                           *)

Critical == {"cas", "fields", "create", "fini", "return"} \cup Stopping

(* A step that keeps clear of the thread_infos and moves threads only      *)
(* outside the critical places preserves the invariant.                    *)
LEMMA QuietStep ==
  ASSUME FlusherInv,
         UNCHANGED <<flusher_info, heap, tid, fl, arg, exiting>>,
         \A t \in Threads :
           (pc'[t] = pc[t] /\ loc'[t] = loc[t]) \/ pc'[t] \notin Critical
  PROVE  FlusherInv'
<1> USE DEF Critical, Stopping
<1>1. Private'
  BY DEF FlusherInv, Private
<1>2. OneStarter'
  BY DEF FlusherInv, OneStarter
<1>3. OneFlusher' /\ InfoKept'
  BY DEF FlusherInv, OneFlusher, InfoKept
<1>4. JoinedMeansFreed'
  BY DEF FlusherInv, JoinedMeansFreed
<1>5. OneExit'
  BY DEF FlusherInv, OneExit
<1> QED BY <1>1, <1>2, <1>3, <1>4, <1>5 DEF FlusherInv

(* A fresh thread_info is private to its starter. *)
LEMMA MallocInv ==
  ASSUME TypeOK, FlusherInv, NEW t \in Threads, Malloc(t)
  PROVE  FlusherInv'
<1> USE LifecycleAssumption DEF TypeOK, Stopping
<1>1. Private'
  BY DEF Malloc, FlusherInv, Private, InfoKept
<1>2. OneStarter'
  BY DEF Malloc, FlusherInv, OneStarter
<1>3. OneFlusher'
  BY DEF Malloc, FlusherInv, OneFlusher, OneStarter
<1>4. InfoKept'
  BY DEF Malloc, FlusherInv, InfoKept
<1>5. JoinedMeansFreed'
  BY DEF Malloc, FlusherInv, JoinedMeansFreed
<1>6. OneExit'
  BY DEF Malloc, FlusherInv, OneExit
<1> QED BY <1>1, <1>2, <1>3, <1>4, <1>5, <1>6 DEF FlusherInv

(* The compare-and-swap lets one starter through; the loser frees its own. *)
LEMMA PublishInv ==
  ASSUME TypeOK, FlusherInv, NEW t \in Threads, Publish(t)
  PROVE  FlusherInv'
<1> USE LifecycleAssumption DEF TypeOK, Stopping, Free, Wrong
<1>1. Private'
  BY DEF Publish, FlusherInv, Private
<1>2. OneStarter'
  BY DEF Publish, FlusherInv, OneStarter, Private, OneFlusher
<1>3. OneFlusher'
  BY DEF Publish, FlusherInv, OneFlusher, Private
<1>4. InfoKept'
  BY DEF Publish, FlusherInv, InfoKept, Private, OneFlusher
<1>5. JoinedMeansFreed'
  BY DEF Publish, FlusherInv, JoinedMeansFreed, OneExit, Private, InfoKept, OneFlusher
<1>6. OneExit'
  BY DEF Publish, FlusherInv, OneExit
<1> QED BY <1>1, <1>2, <1>3, <1>4, <1>5, <1>6 DEF FlusherInv

(* Setting the fields changes no owner. *)
LEMMA SetFieldsInv ==
  ASSUME TypeOK, FlusherInv, NEW t \in Threads, SetFields(t)
  PROVE  FlusherInv'
<1> USE LifecycleAssumption DEF TypeOK, Stopping
<1>1. Private'
  BY DEF SetFields, FlusherInv, Private
<1>2. OneStarter'
  BY DEF SetFields, FlusherInv, OneStarter
<1>3. OneFlusher'
  BY DEF SetFields, FlusherInv, OneFlusher
<1>4. InfoKept'
  BY DEF SetFields, FlusherInv, InfoKept
<1>5. JoinedMeansFreed'
  BY DEF SetFields, FlusherInv, JoinedMeansFreed
<1>6. OneExit'
  BY DEF SetFields, FlusherInv, OneExit
<1> QED BY <1>1, <1>2, <1>3, <1>4, <1>5, <1>6 DEF FlusherInv

(* The flusher is the first, and its id is stored where stop will look. *)
LEMMA CreateFlusherInv ==
  ASSUME TypeOK, FlusherInv, NEW t \in Threads, CreateFlusher(t)
  PROVE  FlusherInv'
<1> USE LifecycleAssumption DEF TypeOK, Stopping
<1>1. Private'
  BY DEF CreateFlusher, FlusherInv, Private
<1>2. OneStarter'
  BY DEF CreateFlusher, FlusherInv, OneStarter
<1>3. OneFlusher'
  BY DEF CreateFlusher, FlusherInv, OneFlusher, OneStarter
<1>4. InfoKept'
  BY DEF CreateFlusher, FlusherInv, InfoKept, OneStarter, OneFlusher
<1>5. JoinedMeansFreed'
  BY DEF CreateFlusher, FlusherInv, JoinedMeansFreed, OneStarter
<1>6. OneExit'
  BY DEF CreateFlusher, FlusherInv, OneExit
<1> QED BY <1>1, <1>2, <1>3, <1>4, <1>5, <1>6 DEF FlusherInv

(* The flusher frees the published thread_info. *)
LEMMA FlusherEndsInv ==
  ASSUME TypeOK, FlusherInv, NEW f \in Flushers, FlusherEnds(f)
  PROVE  FlusherInv'
<1> USE LifecycleAssumption DEF TypeOK, Stopping, Free, Wrong
<1>1. Private'
  BY DEF FlusherEnds, FlusherInv, Private, OneFlusher
<1>2. OneStarter'
  BY DEF FlusherEnds, FlusherInv, OneStarter
<1>3. OneFlusher'
  BY DEF FlusherEnds, FlusherInv, OneFlusher
<1>4. InfoKept'
  BY DEF FlusherEnds, FlusherInv, InfoKept, OneFlusher
<1>5. JoinedMeansFreed'
  BY DEF FlusherEnds, FlusherInv, JoinedMeansFreed, OneFlusher
<1>6. OneExit'
  BY DEF FlusherEnds, FlusherInv, OneExit
<1> QED BY <1>1, <1>2, <1>3, <1>4, <1>5, <1>6 DEF FlusherInv

(* A flusher that is stuck still has its thread_info. *)
LEMMA FlusherSpinsInv ==
  ASSUME TypeOK, FlusherInv, NEW f \in Flushers, FlusherSpins(f)
  PROVE  FlusherInv'
<1> USE LifecycleAssumption DEF TypeOK, Stopping
<1>1. Private'
  BY DEF FlusherSpins, FlusherInv, Private
<1>2. OneStarter'
  BY DEF FlusherSpins, FlusherInv, OneStarter
<1>3. OneFlusher'
  BY DEF FlusherSpins, FlusherInv, OneFlusher
<1>4. InfoKept'
  BY DEF FlusherSpins, FlusherInv, InfoKept
<1>5. JoinedMeansFreed'
  BY DEF FlusherSpins, FlusherInv, JoinedMeansFreed
<1>6. OneExit'
  BY DEF FlusherSpins, FlusherInv, OneExit
<1> QED BY <1>1, <1>2, <1>3, <1>4, <1>5, <1>6 DEF FlusherInv

(* The first thread to call exit() is the only one. *)
LEMMA ExitInv ==
  ASSUME TypeOK, FlusherInv, NEW t \in Threads, Exit(t)
  PROVE  FlusherInv'
<1> USE LifecycleAssumption DEF TypeOK, Stopping
<1>1. Private'
  BY DEF Exit, FlusherInv, Private
<1>2. OneStarter'
  BY DEF Exit, FlusherInv, OneStarter
<1>3. OneFlusher'
  BY DEF Exit, FlusherInv, OneFlusher
<1>4. InfoKept'
  BY DEF Exit, FlusherInv, InfoKept
<1>5. JoinedMeansFreed'
  BY DEF Exit, FlusherInv, JoinedMeansFreed
<1>6. OneExit'
  BY DEF Exit, FlusherInv, OneExit
<1> QED BY <1>1, <1>2, <1>3, <1>4, <1>5, <1>6 DEF FlusherInv

(* fini() stops the flusher if one was started. *)
LEMMA FiniInv ==
  ASSUME TypeOK, FlusherInv, NEW t \in Threads, Fini(t)
  PROVE  FlusherInv'
<1> USE LifecycleAssumption DEF TypeOK, Stopping
<1>1. Private'
  BY DEF Fini, FlusherInv, Private
<1>2. OneStarter'
  BY DEF Fini, FlusherInv, OneStarter
<1>3. OneFlusher'
  BY DEF Fini, FlusherInv, OneFlusher
<1>4. InfoKept'
  BY DEF Fini, FlusherInv, InfoKept
<1>5. JoinedMeansFreed'
  BY DEF Fini, FlusherInv, JoinedMeansFreed
<1>6. OneExit'
  BY DEF Fini, FlusherInv, OneExit
<1> QED BY <1>1, <1>2, <1>3, <1>4, <1>5, <1>6 DEF FlusherInv

(* The id that is read is Junk or that of the flusher. *)
LEMMA StopTidInv ==
  ASSUME TypeOK, FlusherInv, NEW t \in Threads, StopTid(t)
  PROVE  FlusherInv'
<1> USE LifecycleAssumption DEF TypeOK, Stopping
<1>1. Private'
  BY DEF StopTid, FlusherInv, Private
<1>2. OneStarter'
  BY DEF StopTid, FlusherInv, OneStarter
<1>3. OneFlusher'
  BY DEF StopTid, FlusherInv, OneFlusher
<1>4. InfoKept'
  BY DEF StopTid, FlusherInv, InfoKept
<1>5. JoinedMeansFreed'
  BY DEF StopTid, FlusherInv, JoinedMeansFreed, InfoKept, OneExit
<1>6. OneExit'
  BY DEF StopTid, FlusherInv, OneExit
<1> QED BY <1>1, <1>2, <1>3, <1>4, <1>5, <1>6 DEF FlusherInv

(* The interrupt changes no owner. *)
LEMMA StopInterruptInv ==
  ASSUME TypeOK, FlusherInv, NEW t \in Threads, StopInterrupt(t)
  PROVE  FlusherInv'
<1> USE LifecycleAssumption DEF TypeOK, Stopping
<1>1. Private'
  BY DEF StopInterrupt, FlusherInv, Private
<1>2. OneStarter'
  BY DEF StopInterrupt, FlusherInv, OneStarter
<1>3. OneFlusher'
  BY DEF StopInterrupt, FlusherInv, OneFlusher
<1>4. InfoKept'
  BY DEF StopInterrupt, FlusherInv, InfoKept
<1>5. JoinedMeansFreed'
  BY DEF StopInterrupt, FlusherInv, JoinedMeansFreed
<1>6. OneExit'
  BY DEF StopInterrupt, FlusherInv, OneExit
<1> QED BY <1>1, <1>2, <1>3, <1>4, <1>5, <1>6 DEF FlusherInv

(* After the join the flusher is done. *)
LEMMA StopJoinInv ==
  ASSUME TypeOK, FlusherInv, NEW t \in Threads, StopJoin(t)
  PROVE  FlusherInv'
<1> USE LifecycleAssumption DEF TypeOK, Stopping
<1>1. Private'
  BY DEF StopJoin, FlusherInv, Private
<1>2. OneStarter'
  BY DEF StopJoin, FlusherInv, OneStarter
<1>3. OneFlusher'
  BY DEF StopJoin, FlusherInv, OneFlusher
<1>4. InfoKept'
  BY DEF StopJoin, FlusherInv, InfoKept
<1>5. JoinedMeansFreed'
  BY DEF StopJoin, FlusherInv, JoinedMeansFreed, InfoKept
<1>6. OneExit'
  BY DEF StopJoin, FlusherInv, OneExit
<1> QED BY <1>1, <1>2, <1>3, <1>4, <1>5, <1>6 DEF FlusherInv

(* The stopper frees while it is the one that exits. *)
LEMMA StopFreeInv ==
  ASSUME TypeOK, FlusherInv, NEW t \in Threads, StopFree(t)
  PROVE  FlusherInv'
<1> USE LifecycleAssumption DEF TypeOK, Stopping, Free, Wrong
<1>1. Private'
  BY DEF StopFree, FlusherInv, Private, OneExit
<1>2. OneStarter'
  BY DEF StopFree, FlusherInv, OneStarter
<1>3. OneFlusher'
  BY DEF StopFree, FlusherInv, OneFlusher
<1>4. InfoKept'
  BY DEF StopFree, FlusherInv, InfoKept, OneExit, OneFlusher
<1>5. JoinedMeansFreed'
  BY DEF StopFree, FlusherInv, JoinedMeansFreed, OneExit
<1>6. OneExit'
  BY DEF StopFree, FlusherInv, OneExit
<1> QED BY <1>1, <1>2, <1>3, <1>4, <1>5, <1>6 DEF FlusherInv

(* fini() may run a second time in the same thread. *)
LEMMA FiniReturnInv ==
  ASSUME TypeOK, FlusherInv, NEW t \in Threads, FiniReturn(t)
  PROVE  FlusherInv'
<1> USE LifecycleAssumption DEF TypeOK, Stopping
<1>1. Private'
  BY DEF FiniReturn, FlusherInv, Private
<1>2. OneStarter'
  BY DEF FiniReturn, FlusherInv, OneStarter
<1>3. OneFlusher'
  BY DEF FiniReturn, FlusherInv, OneFlusher
<1>4. InfoKept'
  BY DEF FiniReturn, FlusherInv, InfoKept
<1>5. JoinedMeansFreed'
  BY DEF FiniReturn, FlusherInv, JoinedMeansFreed
<1>6. OneExit'
  BY DEF FiniReturn, FlusherInv, OneExit
<1> QED BY <1>1, <1>2, <1>3, <1>4, <1>5, <1>6 DEF FlusherInv

(* In a child the flusher of the parent is gone, and so are the starters. *)
LEMMA ForkInv ==
  ASSUME TypeOK, FlusherInv, NEW t \in Threads, Fork(t)
  PROVE  FlusherInv'
<1> USE LifecycleAssumption DEF TypeOK, Stopping
<1>1. Private'
  BY DEF Fork, FlusherInv, Private
<1>2. OneStarter'
  BY DEF Fork, FlusherInv, OneStarter
<1>3. OneFlusher'
  BY DEF Fork, FlusherInv, OneFlusher
<1>4. InfoKept'
  BY DEF Fork, FlusherInv, InfoKept
<1>5. JoinedMeansFreed'
  BY DEF Fork, FlusherInv, JoinedMeansFreed
<1>6. OneExit'
  BY DEF Fork, FlusherInv, OneExit
<1> QED BY <1>1, <1>2, <1>3, <1>4, <1>5, <1>6 DEF FlusherInv

(* Every step keeps the types and the invariant. *)
LEMMA FlusherNext ==
  ASSUME TypeOK, FlusherInv, [Next]_vars
  PROVE  TypeOK' /\ FlusherInv'
<1> USE DEF TypeOK, Critical, Stopping
<1>1. ASSUME NEW t \in Threads, Step(t) PROVE FlusherInv'
  <2>1. CASE Ctor(t)
    BY <2>1, QuietStep DEF Ctor
  <2>2. CASE Atexit(t)
    BY <2>2, QuietStep DEF Atexit
  <2>3. CASE InitSignal(t)
    BY <2>3, QuietStep DEF InitSignal
  <2>4. CASE Count(t)
    BY <2>4, QuietStep DEF Count
  <2>5. CASE StartCheck(t)
    BY <2>5, QuietStep DEF StartCheck
  <2>6. CASE MallocFail(t)
    BY <2>6, QuietStep DEF MallocFail
  <2>7. CASE Malloc(t)
    BY <2>7, MallocInv
  <2>8. CASE Publish(t)
    BY <2>8, PublishInv
  <2>9. CASE SetFields(t)
    BY <2>9, SetFieldsInv
  <2>10. CASE CreateFlusher(t)
    BY <2>10, CreateFlusherInv
  <2>11. CASE Fini(t)
    BY <2>11, FiniInv
  <2>12. CASE StopTid(t)
    BY <2>12, StopTidInv
  <2>13. CASE StopInterrupt(t)
    BY <2>13, StopInterruptInv
  <2>14. CASE StopJoin(t)
    BY <2>14, StopJoinInv
  <2>15. CASE StopFree(t)
    BY <2>15, StopFreeInv
  <2>16. CASE FiniReturn(t)
    BY <2>16, FiniReturnInv
  <2> QED
    BY <1>1, <2>1, <2>2, <2>3, <2>4, <2>5, <2>6, <2>7, <2>8, <2>9, <2>10, <2>11, <2>12, <2>13, <2>14, <2>15, <2>16 DEF Step
<1>2. ASSUME NEW t \in Threads, Call(t) PROVE FlusherInv'
  <2>1. ASSUME NEW u \in Threads, PthreadCreate(t, u) PROVE FlusherInv'
    BY <2>1, QuietStep DEF PthreadCreate
  <2>2. CASE PhantomCreate(t)
    BY <2>2, QuietStep DEF PhantomCreate
  <2>3. CASE PthreadExit(t)
    BY <2>3, QuietStep DEF PthreadExit
  <2>4. CASE ThreadReturn(t)
    BY <2>4, QuietStep DEF ThreadReturn
  <2>5. CASE Exit(t)
    BY <2>5, ExitInv
  <2>6. CASE Fork(t)
    BY <2>6, ForkInv
  <2> QED BY <1>2, <2>1, <2>2, <2>3, <2>4, <2>5, <2>6 DEF Call
<1>3. ASSUME NEW f \in Flushers, FlusherStep(f) PROVE FlusherInv'
  BY <1>3, FlusherEndsInv, FlusherSpinsInv DEF FlusherStep
<1>4. ASSUME NEW s \in Signals, Deliver(s) \/ Sigaction(s) PROVE FlusherInv'
  BY <1>4, QuietStep DEF Deliver, Sigaction
<1>5. CASE UNCHANGED vars
  <2>1. FlusherInv'
    BY <1>5, QuietStep DEF vars
  <2>2. TypeOK'
    BY <1>5 DEF vars
  <2> QED BY <2>1, <2>2
<1> QED
  BY <1>1, <1>2, <1>3, <1>4, <1>5, TypeStep, TypeOther DEF Next, Rest

(* The invariant holds when the constructor begins. *)
LEMMA FlusherInit ==
  ASSUME Init
  PROVE  TypeOK /\ FlusherInv
<1>1. TypeOK
  <2>1. /\ disp \in [Signals -> {"dfl", "ign", "app", "agg"}]
        /\ old \in [Signals -> {"dfl", "ign", "app", "agg"}]
        /\ orig \in [Signals -> {"dfl", "ign", "app"}]
    BY DEF Init
  <2>2. /\ traced \in BOOLEAN /\ booted \in BOOLEAN /\ finis = 0
        /\ errors \subseteq {"freed", "double", "junk"} /\ status = "running" /\ num = 0
        /\ count \in [forks : Nat, signals : Nat, phantoms : Nat]
    BY DEF Init
  <2>3. pc \in [Threads -> Pcs]
    BY DEF Init, Pcs
  <2>4. /\ flusher_info = NULL /\ exiting = NULL
        /\ heap \in [Infos -> {"unused", "live", "freed"}]
        /\ tid \in [Infos -> Flushers \cup {Junk}]
        /\ interrupt \in [Infos -> {0, 1, Junk}]
        /\ fl \in [Flushers -> {"none", "sleep", "stuck", "done", "gone"}]
        /\ arg \in [Flushers -> Infos \cup {NULL}]
        /\ loc \in [Threads -> Infos \cup Flushers \cup {Junk, NULL}]
    BY DEF Init
  <2> QED BY <2>1, <2>2, <2>3, <2>4 DEF TypeOK
<1>2. FlusherInv
  BY LifecycleAssumption DEF Init, FlusherInv, Private, OneStarter, OneFlusher, InfoKept,
     JoinedMeansFreed, OneExit, Stopping
<1> QED BY <1>1, <1>2

(* Every variable of Lifecycle keeps its type; fini() runs twice at most. *)
THEOREM TypeCorrect == Spec => []TypeOK
<1>1. Spec => [](TypeOK /\ FlusherInv)
  BY FlusherInit, FlusherNext, PTL DEF Spec
<1> QED BY <1>1, PTL

(* However many threads start the flusher at once, one at most is created, *)
(* it works on the published thread_info, and the thread that runs exit()  *)
(* joins it or an id nobody stored.                                        *)
THEOREM FlusherCorrect == Spec => []FlusherInv
<1>1. Spec => [](TypeOK /\ FlusherInv)
  BY FlusherInit, FlusherNext, PTL DEF Spec
<1> QED BY <1>1, PTL

-----------------------------------------------------------------------------
(* Memory safety until exit.                                               *)

(* A step that adds an error is taken after exit() was called. *)
LEMMA SafeNext ==
  ASSUME TypeOK, FlusherInv, SafeUntilExit, [Next]_vars
  PROVE  SafeUntilExit'
<1> USE LifecycleAssumption DEF TypeOK, SafeUntilExit
<1>0. exiting # NULL => exiting' # NULL
  <2>1. ASSUME NEW t \in Threads, Step(t) PROVE exiting' = exiting
    BY <2>1 DEF Step, Ctor, Atexit, InitSignal, Count, StartCheck, Malloc, MallocFail, Publish,
       SetFields, CreateFlusher, Fini, StopTid, StopInterrupt, StopJoin, StopFree, FiniReturn
  <2>2. ASSUME NEW t \in Threads, Call(t) PROVE exiting' = exiting \/ exiting' = t
    BY <2>2 DEF Call, PthreadCreate, PhantomCreate, PthreadExit, ThreadReturn, Exit, Fork
  <2>3. ASSUME NEW f \in Flushers, FlusherStep(f) PROVE exiting' = exiting
    BY <2>3 DEF FlusherStep, FlusherEnds, FlusherSpins
  <2>4. ASSUME NEW s \in Signals, Deliver(s) \/ Sigaction(s) PROVE exiting' = exiting
    BY <2>4 DEF Deliver, Sigaction
  <2>5. CASE UNCHANGED vars
    BY <2>5 DEF vars
  <2> QED BY <2>1, <2>2, <2>3, <2>4, <2>5 DEF Next, Rest
<1>1. ASSUME NEW t \in Threads, Step(t), exiting = NULL PROVE errors' = errors
  <2>1. CASE Publish(t)
    BY <2>1 DEF Publish, Free, FlusherInv, Private
  <2>2. CASE SetFields(t)
    BY <1>1, <2>2 DEF SetFields, Access, FlusherInv, OneStarter, InfoKept
  <2>3. CASE CreateFlusher(t)
    BY <1>1, <2>3 DEF CreateFlusher, Access, FlusherInv, OneStarter, InfoKept
  <2>4. CASE StopTid(t) \/ StopInterrupt(t) \/ StopJoin(t) \/ StopFree(t)
    BY <1>1, <2>4 DEF StopTid, StopInterrupt, StopJoin, StopFree, FlusherInv, OneExit, Stopping
  <2>5. CASE \/ Ctor(t) \/ Atexit(t) \/ InitSignal(t) \/ Count(t) \/ StartCheck(t)
             \/ Malloc(t) \/ MallocFail(t) \/ Fini(t) \/ FiniReturn(t)
    BY <2>5 DEF Ctor, Atexit, InitSignal, Count, StartCheck, Malloc, MallocFail, Fini, FiniReturn
  <2> QED BY <1>1, <2>1, <2>2, <2>3, <2>4, <2>5 DEF Step
<1>2. ASSUME NEW t \in Threads, Call(t) PROVE errors' = errors
  BY <1>2 DEF Call, PthreadCreate, PhantomCreate, PthreadExit, ThreadReturn, Exit, Fork
<1>3. ASSUME NEW f \in Flushers, FlusherStep(f), exiting = NULL PROVE errors' = errors
  BY <1>3 DEF FlusherStep, FlusherEnds, FlusherSpins, Free, FlusherInv, OneFlusher, InfoKept
<1>4. ASSUME NEW s \in Signals, Deliver(s) \/ Sigaction(s) PROVE errors' = errors
  BY <1>4 DEF Deliver, Sigaction
<1>5. CASE UNCHANGED vars
  BY <1>5 DEF vars
<1> QED BY <1>0, <1>1, <1>2, <1>3, <1>4, <1>5 DEF Next, Rest

(* No interleaving of starters, failures and forks makes a wrong access to *)
(* a thread_info before a thread calls exit().                             *)
THEOREM SafeBeforeExit == Spec => []SafeUntilExit
<1>1. Init => SafeUntilExit
  BY DEF Init, SafeUntilExit
<1>2. Spec => [](TypeOK /\ FlusherInv)
  BY FlusherInit, FlusherNext, PTL DEF Spec
<1> QED BY <1>1, <1>2, SafeNext, PTL DEF Spec

-----------------------------------------------------------------------------
(* The constructor and the signal handlers.                                *)

(* Each step of a thread leaves the constructor's thread alone until it    *)
(* has finished, and reads the old handlers before it replaces one.        *)
LEMMA SignalStep ==
  ASSUME TypeOK, FlusherInv, BootInv, SignalInv, NEW t \in Threads, Step(t)
  PROVE  BootInv' /\ SignalInv'
<1> USE LifecycleAssumption DEF TypeOK, BootInv, SignalInv, OldHandlers, Starting, Stopping
<1>1. CASE Ctor(t)
  BY <1>1 DEF Ctor
<1>2. CASE Atexit(t)
  BY <1>2 DEF Atexit
<1>3. CASE InitSignal(t)
  <2>1. t = Main /\ pc[Main] = "signal" /\ old = orig /\ ~booted
    BY <1>3 DEF InitSignal
  <2>2. \A s \in Signals : disp'[s] = "agg" => old'[s] = orig'[s]
    BY <1>3, <2>1 DEF InitSignal
  <2>3. CASE pc' = pc /\ booted' = booted
    BY <1>3, <2>1, <2>2, <2>3 DEF InitSignal
  <2>4. CASE Goto(t, "run") /\ booted'
    BY <1>3, <2>1, <2>2, <2>4 DEF InitSignal
  <2> QED BY <1>3, <2>3, <2>4 DEF InitSignal
<1>4. CASE Count(t)
  BY <1>4 DEF Count
<1>5. CASE StartCheck(t)
  BY <1>5 DEF StartCheck
<1>6. CASE Malloc(t)
  BY <1>6 DEF Malloc
<1>7. CASE MallocFail(t)
  BY <1>7 DEF MallocFail
<1>8. CASE Publish(t)
  BY <1>8 DEF Publish
<1>9. CASE SetFields(t)
  BY <1>9 DEF SetFields
<1>10. CASE CreateFlusher(t)
  BY <1>10 DEF CreateFlusher
<1>11. CASE Fini(t)
  BY <1>11 DEF Fini
<1>12. CASE StopTid(t)
  BY <1>12 DEF StopTid
<1>13. CASE StopInterrupt(t)
  BY <1>13 DEF StopInterrupt
<1>14. CASE StopJoin(t)
  BY <1>14 DEF StopJoin
<1>15. CASE StopFree(t)
  BY <1>15 DEF StopFree
<1>16. CASE FiniReturn(t)
  BY <1>16 DEF FiniReturn
<1> QED
  BY <1>1, <1>2, <1>3, <1>4, <1>5, <1>6, <1>7, <1>8, <1>9, <1>10, <1>11, <1>12, <1>13, <1>14, <1>15, <1>16 DEF Step

(* Every other step, too. *)
LEMMA SignalNext ==
  ASSUME TypeOK, FlusherInv, BootInv, SignalInv, [Next]_vars
  PROVE  BootInv' /\ SignalInv'
<1> USE LifecycleAssumption DEF TypeOK, BootInv, SignalInv, OldHandlers, Starting, Stopping
<1>1. ASSUME NEW t \in Threads, Call(t) PROVE BootInv' /\ SignalInv'
  <2>1. ASSUME NEW u \in Threads, PthreadCreate(t, u) PROVE BootInv' /\ SignalInv'
    BY <2>1 DEF PthreadCreate
  <2>2. CASE PhantomCreate(t) \/ PthreadExit(t) \/ ThreadReturn(t) \/ Exit(t) \/ Fork(t)
    BY <2>2 DEF PhantomCreate, PthreadExit, ThreadReturn, Exit, Fork
  <2> QED BY <1>1, <2>1, <2>2 DEF Call
<1>2. ASSUME NEW f \in Flushers, FlusherStep(f) PROVE BootInv' /\ SignalInv'
  BY <1>2 DEF FlusherStep, FlusherEnds, FlusherSpins
<1>3. ASSUME NEW s \in Signals, Deliver(s) \/ Sigaction(s) PROVE BootInv' /\ SignalInv'
  BY <1>3 DEF Deliver, Sigaction
<1>4. CASE UNCHANGED vars
  BY <1>4 DEF vars
<1> QED BY <1>1, <1>2, <1>3, <1>4, SignalStep DEF Next, Rest

(* The constructor begins alone, with no handler replaced. *)
LEMMA SignalInit == Init => BootInv /\ SignalInv
BY LifecycleAssumption DEF Init, BootInv, SignalInv, OldHandlers, Starting

(* aggregate_handler() passes a signal on to the handler that was there    *)
(* before the tracer's, from the first moment it can be called.            *)
THEOREM ChainsToOld == Spec => []OldHandlers
<1>1. Spec => [](TypeOK /\ FlusherInv)
  BY FlusherInit, FlusherNext, PTL DEF Spec
<1>2. Spec => [](BootInv /\ SignalInv)
  BY <1>1, SignalInit, SignalNext, PTL DEF Spec
<1>3. SignalInv => OldHandlers
  BY DEF SignalInv
<1> QED BY <1>2, <1>3, PTL

-----------------------------------------------------------------------------
(* The count of threads.                                                   *)

(* The count is short of the threads it stands for by k at most. *)
Size(n, k) == n >= Cardinality(Counted) - k

(* A step that lets no thread into Counted keeps the count large enough. *)
LEMMA CountShrinks ==
  ASSUME NEW k \in Int, num \in Int, num' = num, Size(num, k), Counted' \subseteq Counted
  PROVE  num' >= Cardinality(Counted') - k
<1>1. IsFiniteSet(Counted)
  BY LifecycleAssumption, FS_Subset DEF Counted
<1>2. /\ Cardinality(Counted') \in Nat /\ Cardinality(Counted) \in Nat
      /\ Cardinality(Counted') <= Cardinality(Counted)
  BY <1>1, FS_Subset, FS_CardinalityType
<1> QED BY <1>2 DEF Size

(* A thread that leaves Counted is taken off the count. *)
LEMMA CountLeaves ==
  ASSUME NEW k \in Int, num \in Int, num' = num - 1, Size(num, k), NEW t \in Counted, Counted' = Counted \ {t}
  PROVE  num' >= Cardinality(Counted') - k
<1>1. IsFiniteSet(Counted)
  BY LifecycleAssumption, FS_Subset DEF Counted
<1>2. Cardinality(Counted) \in Nat /\ Cardinality(Counted') = Cardinality(Counted) - 1
  BY <1>1, FS_RemoveElement, FS_CardinalityType
<1> QED BY <1>2 DEF Size

(* One element more adds at most one. *)
LEMMA AddOne ==
  ASSUME NEW S, NEW x, IsFiniteSet(S)
  PROVE  Cardinality(S \cup {x}) <= Cardinality(S) + 1
<1>1. Cardinality(S) \in Nat
  BY FS_CardinalityType
<1>2. CASE x \in S
  <2>1. S \cup {x} = S
    BY <1>2
  <2> QED BY <1>1, <2>1
<1>3. CASE x \notin S
  <2>1. Cardinality(S \cup {x}) = Cardinality(S) + 1
    BY <1>3, FS_AddElement
  <2> QED BY <1>1, <2>1
<1> QED BY <1>2, <1>3

(* A thread that enters it is added. *)
LEMMA CountEnters ==
  ASSUME NEW k \in Int, num \in Int, num' = num + 1, Size(num, k), NEW t, Counted' \subseteq Counted \cup {t}
  PROVE  num' >= Cardinality(Counted') - k
<1>1. IsFiniteSet(Counted)
  BY LifecycleAssumption, FS_Subset DEF Counted
<1>2. IsFiniteSet(Counted \cup {t}) /\ Cardinality(Counted) \in Nat
  BY <1>1, FS_AddElement, FS_CardinalityType
<1>3. Cardinality(Counted \cup {t}) <= Cardinality(Counted) + 1
  BY <1>1, <1>2, AddOne
<1>4. /\ Cardinality(Counted') <= Cardinality(Counted \cup {t})
      /\ Cardinality(Counted') \in Nat /\ Cardinality(Counted \cup {t}) \in Nat
  BY <1>2, FS_Subset, FS_CardinalityType
<1> QED BY <1>2, <1>3, <1>4 DEF Size

(* pthread_create() trades the creator, who has yet to count, for the new  *)
(* thread.                                                                 *)
LEMMA CountTrades ==
  ASSUME NEW k \in Int, num \in Int, num' = num, Size(num, k), NEW t \in Counted, NEW u,
         Counted' = (Counted \ {t}) \cup {u}
  PROVE  num' >= Cardinality(Counted') - k
<1>1. IsFiniteSet(Counted)
  BY LifecycleAssumption, FS_Subset DEF Counted
<1>2. /\ IsFiniteSet(Counted \ {t}) /\ Cardinality(Counted) \in Nat
      /\ Cardinality(Counted \ {t}) = Cardinality(Counted) - 1
  BY <1>1, FS_RemoveElement, FS_CardinalityType
<1>3. Cardinality(Counted') <= Cardinality(Counted \ {t}) + 1
  BY <1>2, AddOne
<1>4. Cardinality(Counted') \in Nat
  BY <1>2, FS_AddElement, FS_CardinalityType
<1> QED BY <1>2, <1>3, <1>4 DEF Size

(* A thread that is counted and goes on lets nobody else in. *)
LEMMA Moves ==
  ASSUME TypeOK, NEW t \in Counted, NEW l, Goto(t, l)
  PROVE  Counted' \subseteq Counted
BY DEF TypeOK, Counted

(* No step makes num_active_threads fall further behind, until fini() has  *)
(* returned once.                                                          *)
LEMMA CountNext ==
  ASSUME TypeOK, FlusherInv, BootInv, CountKept, [Next]_vars
  PROVE  CountKept'
<1> SUFFICES ASSUME finis' = 0 PROVE num' >= Cardinality(Counted') - (IF traced' THEN 0 ELSE 1)
  BY DEF CountKept
<1> USE LifecycleAssumption DEF TypeOK, Starting, Stopping, Counted
<1>k. PICK k \in Int : k = IF traced THEN 0 ELSE 1
  OBVIOUS
<1> DEFINE Kept == traced' = traced /\ num' >= Cardinality(Counted') - k
<1>0. finis = 0 => Size(num, k)
  BY <1>k DEF CountKept, Size
<1>c. ASSUME NEW t \in Threads, Ctor(t)
      PROVE  num' >= Cardinality(Counted') - (IF traced' THEN 0 ELSE 1)
  <2>1. t = Main /\ ~traced /\ num = 0 /\ num' = 0
    BY <1>c DEF Ctor, BootInv
  <2>2. \A u \in Threads : u # t => pc[u] = "none"
    BY <1>c, <2>1 DEF Ctor, BootInv
  <2>3. CASE traced' = TRUE /\ Goto(t, "count")
    <3>1. Counted' = {}
      BY <2>2, <2>3 DEF Goto
    <3> HIDE DEF Counted
    <3> QED BY <2>1, <2>3, <3>1, FS_EmptySet
  <2>4. CASE Goto(t, "run") /\ traced' = traced
    <3>1. Counted' = {t}
      BY <2>2, <2>4 DEF Goto
    <3> HIDE DEF Counted
    <3>2. Cardinality(Counted') = 1
      BY <3>1, FS_Singleton
    <3> QED BY <2>1, <2>4, <3>2
  <2> QED BY <1>c, <2>3, <2>4 DEF Ctor
<1>1. ASSUME NEW t \in Threads, Step(t), ~Ctor(t) PROVE Kept
  <2>2. CASE Count(t)
    <3>1. Counted' \subseteq Counted \cup {t} /\ num' = num + 1 /\ Size(num, k) /\ traced' = traced
      BY <2>2, <1>0 DEF Count
    <3> QED BY <3>1, CountEnters
  <2>3. CASE Fini(t)
    <3>1. t \in Counted /\ Counted' = Counted \ {t} /\ num' = num - 1 /\ Size(num, k) /\ traced' = traced
      BY <2>3, <1>0 DEF Fini
    <3> QED BY <3>1, CountLeaves
  <2>4. CASE FiniReturn(t)
    BY <2>4 DEF FiniReturn
  <2>5. ASSUME Counted' \subseteq Counted, num' = num, traced' = traced, finis' = finis
        PROVE  Kept
    BY <2>5, <1>0, CountShrinks
  <2>6. CASE Atexit(t)
    <3>1. Counted' \subseteq Counted /\ num' = num /\ traced' = traced /\ finis' = finis
      BY <2>6, ZenonT(60) DEF Atexit
    <3> HIDE DEF Counted
    <3> QED BY <2>5, <3>1
  <2>7. CASE InitSignal(t)
    <3>1. t \in Counted /\ num' = num /\ traced' = traced /\ finis' = finis
      BY <2>7 DEF InitSignal
    <3>2. (\E l : Goto(t, l)) \/ pc' = pc
      BY <2>7 DEF InitSignal
    <3>3. Counted' \subseteq Counted
      BY <3>1, <3>2, Moves
    <3> HIDE DEF Counted
    <3> QED BY <2>5, <3>1, <3>3
  <2>8. CASE StartCheck(t)
    <3>1. t \in Counted /\ num' = num /\ traced' = traced /\ finis' = finis
      BY <2>8 DEF StartCheck
    <3>2. (\E l : Goto(t, l)) \/ pc' = pc
      BY <2>8 DEF StartCheck
    <3>3. Counted' \subseteq Counted
      BY <3>1, <3>2, Moves
    <3> HIDE DEF Counted
    <3> QED BY <2>5, <3>1, <3>3
  <2>9. CASE Malloc(t)
    <3>1. t \in Counted /\ num' = num /\ traced' = traced /\ finis' = finis
      BY <2>9 DEF Malloc
    <3>2. (\E l : Goto(t, l)) \/ pc' = pc
      BY <2>9 DEF Malloc
    <3>3. Counted' \subseteq Counted
      BY <3>1, <3>2, Moves
    <3> HIDE DEF Counted
    <3> QED BY <2>5, <3>1, <3>3
  <2>10. CASE MallocFail(t)
    <3>1. t \in Counted /\ num' = num /\ traced' = traced /\ finis' = finis
      BY <2>10 DEF MallocFail
    <3>2. (\E l : Goto(t, l)) \/ pc' = pc
      BY <2>10 DEF MallocFail
    <3>3. Counted' \subseteq Counted
      BY <3>1, <3>2, Moves
    <3> HIDE DEF Counted
    <3> QED BY <2>5, <3>1, <3>3
  <2>11. CASE Publish(t)
    <3>1. t \in Counted /\ num' = num /\ traced' = traced /\ finis' = finis
      BY <2>11 DEF Publish
    <3>2. (\E l : Goto(t, l)) \/ pc' = pc
      BY <2>11 DEF Publish
    <3>3. Counted' \subseteq Counted
      BY <3>1, <3>2, Moves
    <3> HIDE DEF Counted
    <3> QED BY <2>5, <3>1, <3>3
  <2>12. CASE SetFields(t)
    <3>1. t \in Counted /\ num' = num /\ traced' = traced /\ finis' = finis
      BY <2>12 DEF SetFields
    <3>2. (\E l : Goto(t, l)) \/ pc' = pc
      BY <2>12 DEF SetFields
    <3>3. Counted' \subseteq Counted
      BY <3>1, <3>2, Moves
    <3> HIDE DEF Counted
    <3> QED BY <2>5, <3>1, <3>3
  <2>13. CASE CreateFlusher(t)
    <3>1. t \in Counted /\ num' = num /\ traced' = traced /\ finis' = finis
      BY <2>13 DEF CreateFlusher
    <3>2. (\E l : Goto(t, l)) \/ pc' = pc
      BY <2>13 DEF CreateFlusher
    <3>3. Counted' \subseteq Counted
      BY <3>1, <3>2, Moves
    <3> HIDE DEF Counted
    <3> QED BY <2>5, <3>1, <3>3
  <2>14. CASE StopTid(t)
    <3>1. Counted' \subseteq Counted /\ num' = num /\ traced' = traced /\ finis' = finis
      BY <2>14, ZenonT(60) DEF StopTid
    <3> HIDE DEF Counted
    <3> QED BY <2>5, <3>1
  <2>15. CASE StopInterrupt(t)
    <3>1. Counted' \subseteq Counted /\ num' = num /\ traced' = traced /\ finis' = finis
      BY <2>15, ZenonT(60) DEF StopInterrupt
    <3> HIDE DEF Counted
    <3> QED BY <2>5, <3>1
  <2>16. CASE StopJoin(t)
    <3>0. Goto(t, "free") /\ num' = num /\ traced' = traced /\ finis' = finis
      BY <2>16 DEF StopJoin
    <3>2. \A u \in Threads : pc'[u] = IF u = t THEN "free" ELSE pc[u]
      BY <3>0
    <3>3. Counted' \subseteq Counted
      BY <3>2
    <3>1. Counted' \subseteq Counted /\ num' = num /\ traced' = traced /\ finis' = finis
      BY <3>0, <3>3
    <3> HIDE DEF Counted
    <3> QED BY <2>5, <3>1
  <2>17. CASE StopFree(t)
    <3>1. Counted' \subseteq Counted /\ num' = num /\ traced' = traced /\ finis' = finis
      BY <2>17, ZenonT(60) DEF StopFree
    <3> HIDE DEF Counted
    <3> QED BY <2>5, <3>1
  <2> QED
    BY <1>1, <2>2, <2>3, <2>4, <2>6, <2>7, <2>8, <2>9, <2>10, <2>11, <2>12, <2>13, <2>14, <2>15, <2>16, <2>17 DEF Step
<1>2. ASSUME NEW t \in Threads, Call(t) PROVE Kept
  <2>1. ASSUME NEW u \in Threads, PthreadCreate(t, u) PROVE Kept
    <3>1. t \in Counted /\ Counted' = (Counted \ {t}) \cup {u} /\ num' = num /\ Size(num, k) /\ traced' = traced
      BY <2>1, <1>0 DEF PthreadCreate
    <3> QED BY <3>1, CountTrades
  <2>2. CASE PthreadExit(t)
    <3>1. t \in Counted /\ Counted' = Counted \ {t} /\ num' = num - 1 /\ Size(num, k) /\ traced' = traced
      BY <2>2, <1>0 DEF PthreadExit
    <3> QED BY <3>1, CountLeaves
  <2>3. ASSUME Counted' \subseteq Counted, num' = num, traced' = traced, finis' = finis
        PROVE  Kept
    BY <2>3, <1>0, CountShrinks
  <2>4. CASE PhantomCreate(t)
    <3>1. t \in Counted /\ num' = num /\ traced' = traced /\ finis' = finis
      BY <2>4 DEF PhantomCreate
    <3>2. Goto(t, "count")
      BY <2>4 DEF PhantomCreate
    <3>3. Counted' \subseteq Counted
      BY <3>1, <3>2, Moves
    <3> HIDE DEF Counted
    <3> QED BY <2>3, <3>1, <3>3
  <2>5. CASE ThreadReturn(t)
    <3>1. Counted' \subseteq Counted /\ num' = num /\ traced' = traced /\ finis' = finis
      BY <2>5, ZenonT(60) DEF ThreadReturn
    <3> HIDE DEF Counted
    <3> QED BY <2>3, <3>1
  <2>6. CASE Exit(t)
    <3>1. t \in Counted /\ num' = num /\ traced' = traced /\ finis' = finis
      BY <2>6 DEF Exit
    <3>2. (\E l : Goto(t, l)) \/ pc' = pc
      BY <2>6 DEF Exit
    <3>3. Counted' \subseteq Counted
      BY <3>1, <3>2, Moves
    <3> HIDE DEF Counted
    <3> QED BY <2>3, <3>1, <3>3
  <2>7. CASE Fork(t)
    <3>1. num' = num /\ traced' = traced /\ finis' = finis
      BY <2>7 DEF Fork
    <3>2. t \in Counted
      BY <2>7 DEF Fork
    <3>3. Counted' \subseteq {t}
      BY <2>7 DEF Fork
    <3> HIDE DEF Counted
    <3> QED BY <2>3, <3>1, <3>2, <3>3, ZenonT(60)
  <2> QED BY <1>2, <2>1, <2>2, <2>4, <2>5, <2>6, <2>7 DEF Call
<1>3. ASSUME \/ \E f \in Flushers : FlusherStep(f)
             \/ \E s \in Signals : Deliver(s) \/ Sigaction(s)
             \/ UNCHANGED vars
      PROVE  Kept
  <2>0. \A t \in Threads : pc'[t] \in {pc[t], "stuck"}
    BY <1>3 DEF FlusherStep, FlusherEnds, FlusherSpins, Deliver, Sigaction, vars
  <2>1. Counted' \subseteq Counted /\ num' = num /\ Size(num, k) /\ traced' = traced
    BY <1>3, <1>0, <2>0 DEF FlusherStep, FlusherEnds, FlusherSpins, Deliver, Sigaction, vars
  <2> QED BY <2>1, CountShrinks
<1>4. ASSUME Kept PROVE num' >= Cardinality(Counted') - (IF traced' THEN 0 ELSE 1)
  <2>1. traced' = traced /\ num' >= Cardinality(Counted') - k
    BY <1>4
  <2> HIDE DEF Counted
  <2> QED BY <1>k, <2>1
<1> HIDE DEF Kept, Counted
<1> QED BY <1>c, <1>1, <1>2, <1>3, <1>4 DEF Next, Rest

(* Although a thread may exit before its creator has counted it,           *)
(* num_active_threads does not wrap in a traced process before fini() has  *)
(* returned once; in a process that init() skips it is one short at most,  *)
(* for the main thread, and may wrap at once.                              *)
THEOREM CountIsKept == Spec => []CountKept
<1>1. ASSUME Init PROVE CountKept
  <2>1. Counted = {} /\ num = 0 /\ traced = FALSE
    BY <1>1 DEF Init, Counted, Starting
  <2> QED BY <2>1, FS_EmptySet DEF CountKept
<1>2. Spec => [](TypeOK /\ FlusherInv)
  BY FlusherInit, FlusherNext, PTL DEF Spec
<1>3. Spec => [](BootInv /\ SignalInv)
  BY <1>2, SignalInit, SignalNext, PTL DEF Spec
<1> QED BY <1>1, <1>2, <1>3, CountNext, PTL DEF Spec

=============================================================================
