----------------------------- MODULE EventScore -----------------------------
(***************************************************************************)
(* What the event counting library pmu_utils.h promises a program that     *)
(* calls reset, pmu_begin, pmu_end and pmu_get_score: a measurement of one *)
(* event type starts with a pmu_begin and lasts until the next one, and    *)
(* each pmu_end scores a point if the event has occurred since.            *)
(***************************************************************************)
EXTENDS Naturals

CONSTANTS
  Events,   \* event types that can be measured
  INVALID   \* no event type has been appointed

VARIABLES
  type,   \* the event type being measured, or INVALID
  seen,   \* the event has occurred in this measurement
  score,  \* points since reset
  ends,   \* calls of pmu_end since reset
  ret     \* what pmu_get_score returned last

vars == <<type, seen, score, ends, ret>>

Init ==
  type = INVALID /\ seen = FALSE /\ score = 0 /\ ends = 0 /\ ret = 0

Reset ==
  type' = INVALID /\ seen' = FALSE /\ score' = 0 /\ ends' = 0 /\ ret' = 0

(* A measurement starts; INVALID is accepted and ends the measurement. *)
Begin ==
  /\ type' \in Events \union {INVALID}
  /\ seen' = FALSE
  /\ UNCHANGED <<score, ends, ret>>

Event ==
  /\ type \in Events
  /\ seen' = TRUE
  /\ UNCHANGED <<type, score, ends, ret>>

End ==
  /\ type \in Events
  /\ ends' = ends + 1
  /\ score' = IF seen THEN score + 1 ELSE score
  /\ UNCHANGED <<type, seen, ret>>

GetScore ==
  /\ ret' = IF type = INVALID THEN 0 ELSE score
  /\ UNCHANGED <<type, seen, score, ends>>

Next == Reset \/ Begin \/ Event \/ End \/ GetScore

Spec == Init /\ [][Next]_vars
=============================================================================
