SPECIFICATION Spec
CONSTANTS
  t1 = t1
  t2 = t2
  Tasks = {t1}
  Modules = {"demo"}
  MayFail = {}
INVARIANT EmptyIsSeen
