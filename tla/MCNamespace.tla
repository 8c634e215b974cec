---------------------------- MODULE MCNamespace ----------------------------
(* Small instances of Namespace for TLC: a traced working directory d1, a   *)
(* directory d2 that is not traced, and one that may not be searched.       *)
EXTENDS Namespace, TLC

CONSTANTS d1, d2, d3, na, nb

At(d, n) == [dir |-> d, name |-> n]
TargetPlace == At(d1, nb)

(* Anything may be at d1/a, a file at d1/b and at d2/a. *)
SomeFiles ==
  {f \in [Places -> Kinds \cup {"absent"}] :
     \A l \in Places : CASE l = At(d1, na) -> TRUE
                        [] l \in {At(d1, nb), At(d2, na)} -> f[l] \in {"absent", "file"}
                        [] OTHER -> f[l] = "absent"}

Create(h, x, p) == [op |-> "create", how |-> h, base |-> x, path |-> p, tobase |-> AT_FDCWD, to |-> None]
Fopen(h, p) == [op |-> "fopen", how |-> h, base |-> AT_FDCWD, path |-> p, tobase |-> AT_FDCWD, to |-> None]
Unlink(h, x, p) == [op |-> "unlink", how |-> h, base |-> x, path |-> p, tobase |-> AT_FDCWD, to |-> None]
Rename(x, p, y, q) == [op |-> "rename", how |-> "move", base |-> x, path |-> p, tobase |-> y, to |-> q]

ThreadSymmetry == Permutations(Threads)

(* One call of each form the code tells apart. *)
Forms ==
  {Create("creat", AT_FDCWD, At(d1, na)), Create("excl", AT_FDCWD, At(d1, na)),
   Create("none", AT_FDCWD, At(d1, na)), Create("creat", AT_FDCWD, At(Rel, na)),
   Create("creat", AT_FDCWD, At(d3, na)),
   Create("creat", d1, At(Rel, nb)), Create("creat", d1, At(d1, na)), Create("creat", Bad, At(d1, na)),
   Fopen("plus", At(d1, na)), Fopen("plain", At(d1, na)),
   Unlink("file", AT_FDCWD, At(d1, na)), Unlink("rmdir", AT_FDCWD, At(d1, na)),
   Unlink("file", AT_FDCWD, At(Rel, nb)), Unlink("file", AT_FDCWD, At(d3, na)),
   Unlink("file", d2, At(Rel, na)),
   Unlink("file", d1, At(Rel, nb)), Unlink("file", d1, At(d2, na)), Unlink("file", Bad, At(Rel, na)),
   Rename(AT_FDCWD, At(d1, na), AT_FDCWD, At(d1, nb)), Rename(AT_FDCWD, At(d1, na), AT_FDCWD, At(d2, na)),
   Rename(AT_FDCWD, At(d2, na), AT_FDCWD, At(d1, na)), Rename(AT_FDCWD, At(d1, na), AT_FDCWD, At(Rel, na)),
   Rename(AT_FDCWD, At(d1, na), d1, At(Rel, nb)),
   Rename(d1, At(Rel, na), AT_FDCWD, At(d1, nb)), Rename(d1, At(Rel, na), d1, At(Rel, nb)),
   Rename(d1, At(Rel, na), Bad, At(d1, nb)), Rename(d1, At(d1, na), d1, At(d1, nb)),
   Rename(Bad, At(Rel, na), AT_FDCWD, At(d1, nb))}
=============================================================================
