------------------------------ MODULE MCDialogue ------------------------------
(* Two dialogues, a daemon and one other process (a replay tool), two files. *)
EXTENDS Dialogue, TLC

CONSTANTS d1, d2, srv, tool

MCDialogues == {d1, d2}
MCHandles == {srv, tool}

\* Two receipts of another device, of equal rank and different key.
Peer(k) == [rank |-> 1, key |-> k, of |-> "peer", turn |-> 1, input |-> <<>>, output |-> <<>>]
MCReceipts == {Peer(1)}

\* Each file holds the two receipts, in the order its device received them.
MCExisting == [p \in Paths |-> IF p = "pa" THEN <<Peer(1), Peer(2)>> ELSE <<Peer(2), Peer(1)>>]

\* hash_buf: an injection of the turn and the tokens into the numbers.
MCKeyOf(turn, input) ==
    10 * turn + (IF input = <<>> THEN 0 ELSE 1)

MCSymmetry == Permutations(MCDialogues)
===============================================================================
