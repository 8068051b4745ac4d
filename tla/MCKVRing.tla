------------------------------ MODULE MCKVRing ------------------------------
(* Small instances of KVRing: two distinguishable rows and a zeroed one.   *)
EXTENDS KVRing
CONSTANTS a, b
MCValue == {a, b}
=============================================================================
