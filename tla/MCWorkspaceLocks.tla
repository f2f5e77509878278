--------------------------- MODULE MCWorkspaceLocks ---------------------------
(* WorkspaceLocks with two machines for TLC. *)
EXTENDS WorkspaceLocks, TLC

CONSTANTS a, b, s1, s2, p1, p2

Symmetry == Permutations({s1, s2}) \cup Permutations({p1, p2})

\* What has happened excuses neither property yet; it is never forgotten, so that
\* no later state could break one.
Unexcused == excused \subseteq {"quit"} \/ excused \subseteq {"warned", "raced", "retried"}
=============================================================================
