--------------------------- MODULE MCTraceModule ---------------------------
(***************************************************************************)
(* Names of tasks for TLC.  They are interchangeable, but the instance is  *)
(* so small that no symmetry is needed.                                    *)
(***************************************************************************)
EXTENDS TraceModule

CONSTANTS t1, t2
=============================================================================
