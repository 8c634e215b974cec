---------------------------- MODULE BatchClaims ----------------------------
(***************************************************************************)
(* What a comment in the hooks says of the batches and the code does not   *)
(* keep: a run shows how it fails.                                         *)
(***************************************************************************)
EXTENDS Batch

(* read.c:115: "different file, dispatch batched read notifications".  The *)
(* batch is dispatched under the path of the file it was made for.         *)
DispatchedUnderItsPath ==
  \A t \in Threads, o \in Ops : \A i \in 1 .. Len(out[t][o]) :
    \A j \in 1 .. Len(out[t][o][i].accs) :
      out[t][o][i].accs[j].file = out[t][o][i].path
=============================================================================
