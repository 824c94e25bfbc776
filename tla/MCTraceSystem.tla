--------------------------- MODULE MCTraceSystem ---------------------------
(***************************************************************************)
(* An instance of TraceSystem for TLC: readers on processors of their own. *)
(***************************************************************************)
EXTENDS TraceSystem

CONSTANTS r1, r2

Away == [r \in Readers |-> IF r = r1 THEN 1 ELSE 2]
=============================================================================
