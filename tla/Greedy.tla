-------------------------------- MODULE Greedy ---------------------------------
(***************************************************************************)
(* What speculative decoding promises: the target's own greedy             *)
(* continuation of the prompt, token by token (spec_validate.rs:250-258).  *)
(***************************************************************************)
EXTENDS Naturals, Sequences

VARIABLES best, out

Init == out = <<>>

Emit == Len(out) < Len(best) /\ out' = Append(out, best[Len(out) + 1])

Next == Emit /\ UNCHANGED best

Spec == Init /\ [][Next]_<<best, out>>
=============================================================================
