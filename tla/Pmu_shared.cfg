SPECIFICATION Spec
CONSTANTS
  CPUs = {1, 2}
  Traced = 1
  Arguments = {16, 36, 60}
  Width = 3
  MaxEnds = 2
INVARIANTS TypeOK AccessRevoked AccessGranted ExportedAlone
PROPERTY ImplementsScore
