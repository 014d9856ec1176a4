------------------------ MODULE MC_MemoryStateStore ------------------------
(* Two handler goroutines, one op_state and one saved value suffice for   *)
(* two calls to meet inside the read-locked section.                      *)
EXTENDS MemoryStateStore

CONSTANTS p1, p2, k1, v1

MCProcs == {p1, p2}
MCKeys == {k1}
MCValues == {v1}
=============================================================================
