------------------------------ MODULE MCPrograms ------------------------------
(* The instances: two tokens for the sessions; events whose frames share the *)
(* contract alone, or more than it; a daemon with the reconciler, one with   *)
(* all its models, and the qwen36 lane with a backend that expects a         *)
(* session.  One operator: that commands do not cross is a premise of        *)
(* Locatable, which is proved for any number of them.                        *)
EXTENDS Programs
CONSTANTS a, b
MCToken == {a, b}
MCFrame == {<<"c", "x", "end">>, <<"c", "x", "y", "end">>, <<"c", "y", "x", "end">>}
Setup(q, d, mm, opts) == [qwen36 |-> q, draft |-> d, memo |-> mm, options |-> opts]
MCConfig ==
  {Setup(FALSE, FALSE, FALSE, {"reconciler"}),
   Setup(FALSE, TRUE, TRUE, {"kv_cache"}),
   Setup(TRUE, FALSE, FALSE, {"forward_backend"})}
===============================================================================
