------------------------------ MODULE KVCache ------------------------------
(***************************************************************************)
(* What the resident K/V cache promises to whoever drives it: a log of     *)
(* rows that grows at its end, can be cut back, and of which the windowed  *)
(* layers always see exactly the last Reach rows.                          *)
(***************************************************************************)
EXTENDS Integers, Sequences

CONSTANTS
  Row,    \* contents of a position
  Reach   \* positions a windowed layer attends besides the one being stepped

VARIABLES
  log,   \* the context, as the full-cache layers hold it
  view   \* the part of it the windowed layers can read

cacheVars == <<log, view>>

LastRows(l) == SubSeq(l, IF Len(l) > Reach THEN Len(l) - Reach + 1 ELSE 1, Len(l))

Becomes(l) == log' = l /\ view' = LastRows(l)

Init == log = <<>> /\ view = <<>>

Extend(r)     == Becomes(Append(log, r))
Rewrite(i, r) == Becomes([log EXCEPT ![i] = r])
Cut(n)        == Becomes(SubSeq(log, 1, n))
Fill          == log = <<>> /\ log' \in Seq(Row) /\ view' = LastRows(log')

Next ==
  \/ \E r \in Row : Extend(r)
  \/ \E i \in DOMAIN log, r \in Row : Rewrite(i, r)
  \/ \E n \in 0 .. Len(log) - 1 : Cut(n)
  \/ Fill

Spec == Init /\ [][Next]_cacheVars
=============================================================================
