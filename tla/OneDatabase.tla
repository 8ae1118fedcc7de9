----------------------------- MODULE OneDatabase -----------------------------
(***************************************************************************)
(* What a workspace may expect of its database, wherever it is kept: there *)
(* is one, an acknowledged write is in it, and it changes by writes only.  *)
(* Moving it to another server is invisible.                               *)
(***************************************************************************)
CONSTANT Writer           \* each writes one row

VARIABLES rows,           \* what the workspace's database holds
          written         \* the writes that were acknowledged

Init == rows = {} /\ written = {}

(* A row is written, and its writer is told. *)
Write(w) ==
    /\ w \notin rows
    /\ rows' = rows \cup {w}
    /\ written' = written \cup {w}

Next == \E w \in Writer : Write(w)

Spec == Init /\ [][Next]_<<rows, written>>

=============================================================================
