--------------------------- MODULE ReplicaStores ---------------------------
(***************************************************************************)
(* Stores that replicate objects: a node that lacks one copies, at a       *)
(* single stroke, a text of a peer's that it accepts, and keeps it.        *)
(***************************************************************************)
CONSTANTS
  Node, Addr,
  NoText,           \* no object at an address
  Pulls(_),         \* nodes a node may copy from
  Accepts(_, _, _)  \* a node accepts a text at an address

VARIABLE store  \* what each node holds at each address

Copy(n, p, a) ==
  /\ store[n][a] = NoText
  /\ Accepts(n, a, store[p][a])
  /\ store' = [store EXCEPT ![n][a] = store[p][a]]

Next == \E n \in Node, a \in Addr : \E p \in Pulls(n) : Copy(n, p, a)

Stable == [][Next]_store
=============================================================================
