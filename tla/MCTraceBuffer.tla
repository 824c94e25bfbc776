--------------------------- MODULE MCTraceBuffer ---------------------------
(***************************************************************************)
(* Values for TLC.  Two tasks on processors of their own, both away from   *)
(* the interrupt, or one of them on the interrupt's processor.             *)
(***************************************************************************)
EXTENDS TraceBuffer

CONSTANTS r1, r2

Away   == [r \in Readers |-> IF r = r1 THEN 1 ELSE 2]
Shared == [r \in Readers |-> IF r = r1 THEN 0 ELSE 1]
=============================================================================
