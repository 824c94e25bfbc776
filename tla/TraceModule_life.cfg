SPECIFICATION Spec
CONSTANTS
  t1 = t1
  t2 = t2
  Tasks = {t1, t2}
  Modules = {"demo", "mount_cs_device"}
  MayFail = {"region", "cdev", "class", "device", "irq"}
INVARIANTS TypeOK NoUseAfterFree DumpHasBuffer NothingRegistered NoLeak
