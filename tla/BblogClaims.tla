---------------------------- MODULE BblogClaims ----------------------------
(***************************************************************************)
(* What comments in bblog.c say of the trace buffer and the code does not  *)
(* keep.  Each is checked by a run of its own, in which TLC shows how it   *)
(* fails.                                                                  *)
(***************************************************************************)
EXTENDS Bblog

(* bblog.c:371, bblog_exit(1): "flush buffered messages".  After exit, the *)
(* published buffer holds no record.                                       *)
FlushedAtExit ==
  status = "exited" /\ procPibr # NULL => segs[procPibr] = {}

(* bblog.c:169, flush_buffer(): "no other thread (except this) must be     *)
(* holding refcnt on buffer".  Nobody uses a buffer that was freed.        *)
NoUseAfterFree == status # "freed"
=============================================================================
