SPECIFICATION Spec
CONSTANTS
  CPUs = {1, 2}
  Traced = 1
  Arguments = {16}
  Width = 2
  MaxEnds = 2
INVARIANT PeriodKept
