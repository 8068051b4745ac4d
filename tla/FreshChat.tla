----------------------------- MODULE FreshChat ------------------------------
(***************************************************************************)
(* A chat daemon without a resident cache: each request is answered from a *)
(* context computed for it alone.                                          *)
(***************************************************************************)
EXTENDS Integers, Sequences

CONSTANTS Prompt, Token, AugHead, AugLast, Episode, Kind

VARIABLES
  request,  \* <<prompt, kind>> being served, or <<>>
  context   \* rows its answer attends to, <<>> before the answer starts

freshVars == <<request, context>>

Body(p) == SubSeq(p, 1, Len(p) - 1)
End(p)  == <<p[Len(p)]>>

\* What the answer may start from: the prompt, with the rows the request asks
\* for, or a memory delivered as text or as rows.
Contexts(p, kind) ==
  CASE kind = "replay" -> {Body(p) \o Episode \o End(p)}
    [] kind = "frames" -> {Body(p) \o Episode \o End(p),
                           Body(p) \o Episode \o Episode \o End(p),
                           Append(AugHead, AugLast)}
    [] OTHER           -> {p, Body(p) \o Episode \o End(p), Append(AugHead, AugLast)}

Init == request = <<>> /\ context = <<>>

Ask(p, kind) ==
  request = <<>> /\ request' = <<p, kind>> /\ UNCHANGED context

Answer ==
  /\ request # <<>> /\ context = <<>>
  /\ context' \in Contexts(request[1], request[2])
  /\ UNCHANGED request

Emit(t) ==
  /\ context # <<>>
  /\ context' = Append(context, t)
  /\ UNCHANGED request

Close == request # <<>> /\ request' = <<>> /\ context' = <<>>

Next ==
  \/ \E p \in Prompt, kind \in Kind : Ask(p, kind)
  \/ Answer
  \/ \E t \in Token : Emit(t)
  \/ Close

Spec == Init /\ [][Next]_freshVars
=============================================================================
