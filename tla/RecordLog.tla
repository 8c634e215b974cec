----------------------------- MODULE RecordLog -----------------------------
(***************************************************************************)
(* What the trace buffer promises its callers: a record that was accepted  *)
(* stays in memory until it is written to the log as part of one message,  *)
(* and it is written at most once.  Only a record that is exposed, because *)
(* it lies in a buffer where a reservation succeeded above a failed one,   *)
(* may be overwritten by a later one, or be cut off when its buffer is     *)
(* written.                                                                *)
(***************************************************************************)
EXTENDS Naturals, Sequences

CONSTANT Records

VARIABLES
  pending,   \* records accepted and not yet written
  exposed,   \* those of them that may be lost
  out        \* messages written, each the set of its records

rvars == <<pending, exposed, out>>

Written == UNION {out[i] : i \in 1 .. Len(out)}

RInit == pending = {} /\ exposed = {} /\ out = <<>>

Accept(r) ==
  /\ r \notin pending \cup Written
  /\ pending' = pending \cup {r}
  /\ UNCHANGED <<exposed, out>>

(* The records S are exposed from now on. *)
Expose(S) ==
  /\ exposed' = exposed \cup S
  /\ UNCHANGED <<pending, out>>

(* Record r is accepted into a torn buffer, over the records L of it. *)
AcceptExposed(r, L) ==
  /\ r \notin pending \cup Written
  /\ pending' = (pending \ L) \cup {r}
  /\ exposed' = (exposed \ L) \cup {r}
  /\ UNCHANGED out

Emit(S) ==
  /\ S # {}
  /\ pending' = pending \ S
  /\ out' = Append(out, S)
  /\ UNCHANGED exposed

(* A torn buffer is written: the records S whole, the records L not. *)
EmitExposed(S, L) ==
  /\ S \cap L = {}
  /\ pending' = pending \ (S \cup L)
  /\ exposed' = exposed \ (S \cup L)
  /\ out' = Append(out, S)

RNext ==
  \/ \E r \in Records : Accept(r) \/ \E L \in SUBSET exposed : AcceptExposed(r, L)
  \/ \E S \in SUBSET pending : Expose(S)
  \/ \E S \in SUBSET (pending \ exposed) : Emit(S)
  \/ \E S, L \in SUBSET exposed : EmitExposed(S, L)

RSpec == RInit /\ [][RNext]_rvars
=============================================================================
