----------------------------- MODULE MCDaemonChats -----------------------------
(* Two chats and a dialogue in each lane. *)
EXTENDS DaemonChats, TLC
CONSTANTS c1, c2
MCChats == {c1, c2}
MCSymmetry == Permutations(MCChats)
===============================================================================
