------------------------- MODULE TraceModuleProofs -------------------------
(***************************************************************************)
(* Proofs about TraceModule, for any number of tasks, either set of        *)
(* modules and any choice of the kernel calls that may fail.  The          *)
(* inductive invariant says what the module whose init or exit function    *)
(* runs has at each step, what its reference count stands for, and which   *)
(* of this survives force_rmmod.ko: what is registered and what is         *)
(* allocated does, what the reference count protects does not.             *)
(***************************************************************************)
EXTENDS TraceModule, FiniteSetTheorems, TLAPS

InitPc == {"region", "cdev", "class", "device", "buffer", "point",
           "read_point", "map", "enable"}
ExitPc == {"disable", "unmap", "kfree", "device_destroy", "class_destroy",
           "cdev_del", "unregister"}

(* Steps at which the registers are not mapped and at which trace_exit has *)
(* given back the parameter block.                                         *)
Freed == ExitPc \ {"disable", "unmap"}
Unmapped == (InitPc \ {"enable"}) \union Freed

At(m, steps) == cur = m /\ pc \in steps

(* TypeOK without the bound on the reference counts, which CountedInv      *)
(* gives.                                                                  *)
TypeInv ==
  /\ mod \in [Modules -> Module]
  /\ pc \in InitPc \union ExitPc \union {"none"}
  /\ cur \in Modules
  /\ cparam \in {"null", "allocated", "freed"} /\ mapped \in BOOLEAN
  /\ fds \subseteq Tasks \X Modules
  /\ handler \in BOOLEAN /\ irq \in BOOLEAN /\ stale \in BOOLEAN
  /\ forced \subseteq Modules

(* Only demo.ko has registers, and only mount_cs_device.ko a read_point;   *)
(* the function that runs is that of a module that is there.               *)
PcInv ==
  /\ pc \in {"map", "enable", "disable", "unmap"} => cur = "demo"
  /\ pc = "read_point" => cur # "demo"
  /\ pc # "none" => mod[cur].state # "gone"
  /\ irq => handler

(* What is registered: nothing before the step that registers it and after *)
(* the step that takes it back, even if the module is forced meanwhile.    *)
RegisteredInv ==
  \A m \in Modules :
    LET gone == mod[m].state = "gone" \/ At(m, {"region"}) IN
    /\ gone => ~mod[m].region
    /\ gone \/ At(m, {"cdev", "unregister"}) => ~mod[m].cdev
    /\ gone \/ At(m, {"cdev", "class", "device", "class_destroy", "cdev_del",
                      "unregister"}) => ~mod[m].node
    /\ gone \/ At(m, {"cdev", "class", "cdev_del", "unregister"}) =>
         mod[m].dev_class # "made"

(* What is allocated and mapped.                                           *)
MemoryInv ==
  \A m \in Modules :
    /\ mod[m].state = "gone" => mod[m].paddr # "buffer"
    /\ At(m, {"region", "cdev"}) => mod[m].paddr = "null"
    /\ At(m, Freed \ {"kfree"}) => mod[m].paddr = "freed"
    /\ m = "demo" =>
         /\ mod[m].state = "gone" \/ At(m, Unmapped) => ~mapped
         /\ (mod[m].state = "gone" /\ mod[m].paddr = "freed") \/ At(m, Freed) =>
              cparam # "allocated"

(* Tasks that have m's device open, if f are the open devices. *)
OpenBy(f, m) == {t \in Tasks : <<t, m>> \in f}

Holds(m) == IF m = "demo" /\ handler THEN 1 ELSE 0

(* A module that is never forced: its count is that of its users, and it   *)
(* has none while one of its functions takes something away.               *)
CountedInv ==
  \A m \in Modules \ forced :
    /\ mod[m].refs = Cardinality(OpenBy(fds, m)) + Holds(m)
    /\ mod[m].state = "coming" <=> At(m, InitPc)
    /\ At(m, ExitPc) => mod[m].state = "going"
    /\ OpenBy(fds, m) # {} => mod[m].state \in {"coming", "live"} /\ mod[m].node
    /\ mod[m].state \in {"coming", "live"} => mod[m].paddr # "freed"

(* What trace_init sets up in this order is there as long as demo.ko is    *)
(* live, and when trace_exit starts.                                       *)
DemoInv ==
  "demo" \notin forced =>
    /\ handler => demo.state = "live"
    /\ demo.state \in {"coming", "live"} \/ pc = "disable" =>
         cparam = "allocated"
    /\ demo.state = "live" \/ At("demo", {"point", "map", "enable", "disable"})
         => demo.paddr = "buffer"
    /\ demo.state = "live" \/ At("demo", {"map", "enable", "disable"})
         => demo.write_point # "null"
    /\ demo.state = "live" \/ At("demo", {"enable", "disable"}) => mapped

IInv ==
  /\ TypeInv
  /\ PcInv
  /\ RegisteredInv
  /\ MemoryInv
  /\ CountedInv
  /\ DemoInv
-----------------------------------------------------------------------------
(* The steps of Next, by name. *)
LEMMA NextCases ==
  ASSUME Next
  PROVE  \/ AllocRegion \/ AllocRegionFails \/ AddCdev \/ AddCdevFails
         \/ CreateClass \/ CreateDevice \/ AllocBuffer \/ SetWritePoint
         \/ SetReadPoint \/ MapRegisters \/ EnableTrace
         \/ DisableTrace \/ UnmapRegisters \/ FreeBuffer \/ DestroyDevice
         \/ DestroyClass \/ DeleteCdev \/ Unregister
         \/ \E m \in Modules : Insmod(m) \/ Rmmod(m) \/ ForceCleanup(m)
         \/ \E t \in Tasks :
              Read(t) \/ \E m \in Modules : Open(t, m) \/ Close(t, m)
         \/ InsmodHandler \/ RmmodHandler \/ Pmi
  BY DEF Next, InitStep, ExitStep

(* A field that is given a value of its type leaves a module a module. *)
LEMMA FieldType ==
  ASSUME NEW r \in Module
  PROVE  /\ \A v \in {"gone", "coming", "live", "going"} :
              [r EXCEPT !.state = v] \in Module
         /\ \A v \in Int : [r EXCEPT !.refs = v] \in Module
         /\ \A v \in BOOLEAN : [r EXCEPT !.region = v] \in Module
         /\ \A v \in BOOLEAN : [r EXCEPT !.cdev = v] \in Module
         /\ \A v \in BOOLEAN : [r EXCEPT !.node = v] \in Module
         /\ \A v \in {"none", "made", "error"} :
              [r EXCEPT !.dev_class = v] \in Module
         /\ \A v \in {"null", "buffer", "freed"} :
              [r EXCEPT !.paddr = v] \in Module
         /\ \A v \in {"null", "start", "filled"} :
              [r EXCEPT !.write_point = v] \in Module
  BY DEF Module

LEMMA ModType ==
  ASSUME TypeInv, NEW m \in Modules, NEW r \in Module
  PROVE  [mod EXCEPT ![m] = r] \in [Modules -> Module]
  BY DEF TypeInv

LEMMA ModuleType ==
  ASSUME TypeInv, NEW m \in Modules
  PROVE  mod[m] \in Module
  BY DEF TypeInv

LEMMA TypeStep ==
  ASSUME TypeInv, [Next]_vars
  PROVE  TypeInv'
<1> USE DEF TypeInv, InitPc, ExitPc, path, pmi, Others
<1>1. CASE UNCHANGED vars
  BY <1>1, LifeAssumption DEF vars
<1>2. CASE AllocRegion
  <2>1. mod' = [mod EXCEPT ![cur] = [mod[cur] EXCEPT !.region = TRUE]]
    BY <1>2 DEF AllocRegion, Assign
  <2>2. mod' \in [Modules -> Module]
    BY <2>1, ModuleType, FieldType, ModType
  <2> QED
    BY <1>2, <2>2 DEF AllocRegion, Step
<1>3. CASE AllocRegionFails
  BY <1>3, LifeAssumption DEF AllocRegionFails, InitFails, Step, Assign, Module
<1>4. CASE AddCdev
  <2>1. mod' = [mod EXCEPT ![cur] = [mod[cur] EXCEPT !.cdev = TRUE]]
    BY <1>4 DEF AddCdev, Assign
  <2>2. mod' \in [Modules -> Module]
    BY <2>1, ModuleType, FieldType, ModType
  <2> QED
    BY <1>4, <2>2 DEF AddCdev, Step
<1>5. CASE AddCdevFails
  <2>1. mod' = [mod EXCEPT ![cur] = [[mod[cur] EXCEPT !.state = "gone"]
                                           EXCEPT !.region = FALSE]]
    BY <1>5, ModuleType DEF AddCdevFails
  <2>2. mod' \in [Modules -> Module]
    BY <2>1, ModuleType, FieldType, ModType
  <2> QED
    BY <1>5, <2>2 DEF AddCdevFails, InitFails, Step
<1>6. CASE CreateClass
  BY <1>6, LifeAssumption DEF CreateClass, Step, Assign, Module
<1>7. CASE CreateDevice
  <2>1. PICK v \in BOOLEAN :
          mod' = [mod EXCEPT ![cur] = [mod[cur] EXCEPT !.node = v]]
    BY <1>7 DEF CreateDevice, Assign
  <2>2. mod' \in [Modules -> Module]
    BY <2>1, ModuleType, FieldType, ModType
  <2> QED
    BY <1>7, <2>2 DEF CreateDevice, Step
<1>8. CASE AllocBuffer
  BY <1>8, LifeAssumption DEF AllocBuffer, Step, Assign, Module
<1>9. CASE SetWritePoint
  BY <1>9, LifeAssumption DEF SetWritePoint, Step, Assign, Module
<1>10. CASE SetReadPoint
  BY <1>10, LifeAssumption DEF SetReadPoint, Step, Assign, Module
<1>11. CASE MapRegisters
  BY <1>11, LifeAssumption DEF MapRegisters, Step, Module
<1>12. CASE EnableTrace
  BY <1>12, LifeAssumption DEF EnableTrace, Step, Assign, Module
<1>13. CASE DisableTrace
  BY <1>13, LifeAssumption DEF DisableTrace, Step, Assign, Module
<1>14. CASE UnmapRegisters
  BY <1>14, LifeAssumption DEF UnmapRegisters, Step, Module
<1>15. CASE FreeBuffer
  BY <1>15, LifeAssumption DEF FreeBuffer, Step, Assign, Module
<1>16. CASE DestroyDevice
  <2>1. \/ mod' = mod
        \/ mod' = [mod EXCEPT ![cur] = [mod[cur] EXCEPT !.node = FALSE]]
    BY <1>16 DEF DestroyDevice, Assign
  <2>2. mod' \in [Modules -> Module]
    <3>1. [mod[cur] EXCEPT !.node = FALSE] \in Module
      BY ModuleType, FieldType
    <3> QED
      BY <2>1, <3>1, ModType
  <2> QED
    BY <1>16, <2>2 DEF DestroyDevice, Step
<1>17. CASE DestroyClass
  BY <1>17, LifeAssumption DEF DestroyClass, Step, Assign, Module
<1>18. CASE DeleteCdev
  <2>1. mod' = [mod EXCEPT ![cur] = [mod[cur] EXCEPT !.cdev = FALSE]]
    BY <1>18 DEF DeleteCdev, Assign
  <2>2. mod' \in [Modules -> Module]
    BY <2>1, ModuleType, FieldType, ModType
  <2> QED
    BY <1>18, <2>2 DEF DeleteCdev, Step
<1>19. CASE Unregister
  <2>1. mod' = [mod EXCEPT ![cur] = [[mod[cur] EXCEPT !.region = FALSE]
                                           EXCEPT !.state = "gone"]]
    BY <1>19, ModuleType DEF Unregister
  <2>2. mod' \in [Modules -> Module]
    BY <2>1, ModuleType, FieldType, ModType
  <2> QED
    BY <1>19, <2>2 DEF Unregister, Step
<1>20. ASSUME NEW m \in Modules, Insmod(m) PROVE TypeInv'
  <2> DEFINE r1 == [mod[m] EXCEPT !.state = "coming"]
             r2 == [r1 EXCEPT !.refs = 0]
             r3 == [r2 EXCEPT !.paddr = "null"]
             r4 == [r3 EXCEPT !.write_point = "null"]
             r5 == [r4 EXCEPT !.dev_class = "none"]
  <2>0. r1 \in Module
    BY ModuleType, FieldType
  <2>1. r2 \in Module
    <3> HIDE DEF r1
    <3>1. \A v \in Int : [r1 EXCEPT !.refs = v] \in Module
      BY <2>0, FieldType
    <3> QED
      BY <3>1
  <2>2. r3 \in Module /\ r4 \in Module
    <3> HIDE DEF r2
    <3> QED
      BY <2>1, FieldType
  <2>3. r5 \in Module
    <3> HIDE DEF r4
    <3> QED
      BY <2>2, FieldType
  <2>4. mod' = [mod EXCEPT ![m] = r5]
    BY <1>20 DEF Insmod
  <2>5. mod' \in [Modules -> Module]
    <3> HIDE DEF r5
    <3> QED
      BY <2>3, <2>4, ModType
  <2> QED
    BY <1>20, <2>5 DEF Insmod, Step
<1>21. ASSUME NEW m \in Modules, Rmmod(m) PROVE TypeInv'
  BY <1>21, LifeAssumption DEF Rmmod, Step, Module
<1>22. ASSUME NEW m \in Modules, ForceCleanup(m) PROVE TypeInv'
  <2>1. [mod[m] EXCEPT !.state = "live"] \in Module
    BY ModuleType, FieldType
  <2>2. [[mod[m] EXCEPT !.state = "live"] EXCEPT !.refs = 0] \in Module
    <3> DEFINE r == [mod[m] EXCEPT !.state = "live"]
    <3>1. r \in Module
      BY <2>1
    <3> HIDE DEF r
    <3>2. \A v \in Int : [r EXCEPT !.refs = v] \in Module
      BY <3>1, FieldType
    <3>3. [r EXCEPT !.refs = 0] \in Module
      BY <3>2
    <3> QED
      BY <3>3 DEF r
  <2>3. mod' \in [Modules -> Module]
    BY <1>22, <2>2, ModType, ModuleType DEF ForceCleanup
  <2> QED
    BY <1>22, <2>3 DEF ForceCleanup
<1>23. ASSUME NEW t \in Tasks, Read(t) PROVE TypeInv'
  BY <1>23, LifeAssumption DEF Read, demo, Module
<1>24. ASSUME NEW t \in Tasks, NEW m \in Modules, Open(t, m) PROVE TypeInv'
  BY <1>24, LifeAssumption DEF Open, CanOpen, Module
<1>25. ASSUME NEW t \in Tasks, NEW m \in Modules, Close(t, m) PROVE TypeInv'
  BY <1>25, LifeAssumption DEF Close, Module
<1>26. CASE InsmodHandler
  <2>1. /\ mod["demo"].refs + 1 \in Int
        /\ mod' = [mod EXCEPT !["demo"] = [mod["demo"] EXCEPT
                                             !.refs = mod["demo"].refs + 1]]
    BY <1>26, ModuleType, LifeAssumption DEF InsmodHandler, Module
  <2>2. mod' \in [Modules -> Module]
    BY <2>1, ModuleType, FieldType, ModType, LifeAssumption
  <2> QED
    BY <1>26, <2>2 DEF InsmodHandler, RegisterIrq
<1>27. CASE RmmodHandler
  <2>1. /\ mod["demo"].refs - 1 \in Int
        /\ mod' = [mod EXCEPT !["demo"] = [mod["demo"] EXCEPT
                                             !.refs = mod["demo"].refs - 1]]
    BY <1>27, ModuleType, LifeAssumption DEF RmmodHandler, Module
  <2>2. mod' \in [Modules -> Module]
    BY <2>1, ModuleType, FieldType, ModType, LifeAssumption
  <2> QED
    BY <1>27, <2>2 DEF RmmodHandler, RegisterIrq
<1>28. CASE Pmi
  BY <1>28, LifeAssumption DEF Pmi, Module
<1> QED
  BY <1>1, <1>2, <1>3, <1>4, <1>5, <1>6, <1>7, <1>8, <1>9, <1>10, <1>11,
     <1>12, <1>13, <1>14, <1>15, <1>16, <1>17, <1>18, <1>19, <1>20, <1>21,
     <1>22, <1>23, <1>24, <1>25, <1>26, <1>27, <1>28, NextCases

LEMMA PcStep ==
  ASSUME IInv, [Next]_vars
  PROVE  PcInv'
<1> USE DEF IInv, TypeInv, Module, PcInv, InitPc, ExitPc, path, pmi, Others
<1>1. CASE UNCHANGED vars
  BY <1>1, LifeAssumption DEF vars
<1>2. CASE AllocRegion
  BY <1>2, LifeAssumption DEF AllocRegion, Step, Assign
<1>3. CASE AllocRegionFails
  BY <1>3, LifeAssumption DEF AllocRegionFails, InitFails, Step, Assign
<1>4. CASE AddCdev
  BY <1>4, LifeAssumption DEF AddCdev, Step, Assign
<1>5. CASE AddCdevFails
  BY <1>5, LifeAssumption DEF AddCdevFails, InitFails, Step
<1>6. CASE CreateClass
  BY <1>6, LifeAssumption DEF CreateClass, Step, Assign
<1>7. CASE CreateDevice
  BY <1>7, LifeAssumption DEF CreateDevice, Step, Assign
<1>8. CASE AllocBuffer
  BY <1>8, LifeAssumption DEF AllocBuffer, Step, Assign
<1>9. CASE SetWritePoint
  BY <1>9, LifeAssumption DEF SetWritePoint, Step, Assign
<1>10. CASE SetReadPoint
  BY <1>10, LifeAssumption DEF SetReadPoint, Step, Assign
<1>11. CASE MapRegisters
  BY <1>11, LifeAssumption DEF MapRegisters, Step
<1>12. CASE EnableTrace
  BY <1>12, LifeAssumption DEF EnableTrace, Step, Assign
<1>13. CASE DisableTrace
  BY <1>13, LifeAssumption DEF DisableTrace, Step, Assign
<1>14. CASE UnmapRegisters
  BY <1>14, LifeAssumption DEF UnmapRegisters, Step
<1>15. CASE FreeBuffer
  BY <1>15, LifeAssumption DEF FreeBuffer, Step, Assign
<1>16. CASE DestroyDevice
  BY <1>16, LifeAssumption DEF DestroyDevice, Step, Assign
<1>17. CASE DestroyClass
  BY <1>17, LifeAssumption DEF DestroyClass, Step, Assign
<1>18. CASE DeleteCdev
  BY <1>18, LifeAssumption DEF DeleteCdev, Step, Assign
<1>19. CASE Unregister
  BY <1>19, LifeAssumption DEF Unregister, Step
<1>20. ASSUME NEW m \in Modules, Insmod(m) PROVE PcInv'
  BY <1>20, LifeAssumption DEF Insmod, Step
<1>21. ASSUME NEW m \in Modules, Rmmod(m) PROVE PcInv'
  BY <1>21, LifeAssumption DEF Rmmod, Step
<1>22. ASSUME NEW m \in Modules, ForceCleanup(m) PROVE PcInv'
  BY <1>22, LifeAssumption DEF ForceCleanup
<1>23. ASSUME NEW t \in Tasks, Read(t) PROVE PcInv'
  BY <1>23, LifeAssumption DEF Read, demo
<1>24. ASSUME NEW t \in Tasks, NEW m \in Modules, Open(t, m) PROVE PcInv'
  BY <1>24, LifeAssumption DEF Open, CanOpen
<1>25. ASSUME NEW t \in Tasks, NEW m \in Modules, Close(t, m) PROVE PcInv'
  BY <1>25, LifeAssumption DEF Close
<1>26. CASE InsmodHandler
  BY <1>26, LifeAssumption DEF InsmodHandler, RegisterIrq, demo
<1>27. CASE RmmodHandler
  BY <1>27, LifeAssumption DEF RmmodHandler, demo
<1>28. CASE Pmi
  BY <1>28, LifeAssumption DEF Pmi
<1> QED
  BY <1>1, <1>2, <1>3, <1>4, <1>5, <1>6, <1>7, <1>8, <1>9, <1>10, <1>11,
     <1>12, <1>13, <1>14, <1>15, <1>16, <1>17, <1>18, <1>19, <1>20, <1>21,
     <1>22, <1>23, <1>24, <1>25, <1>26, <1>27, <1>28, NextCases

LEMMA RegisteredStep ==
  ASSUME IInv, [Next]_vars
  PROVE  RegisteredInv'
<1> USE DEF IInv, TypeInv, Module, PcInv, RegisteredInv, MemoryInv, At, path,
            pmi, Others
<1>1. CASE UNCHANGED vars
  BY <1>1 DEF vars
<1>2. CASE AllocRegion
  BY <1>2 DEF AllocRegion, Step, Assign
<1>3. CASE AllocRegionFails
  BY <1>3 DEF AllocRegionFails, InitFails, Step, Assign
<1>4. CASE AddCdev
  BY <1>4 DEF AddCdev, Step, Assign
<1>5. CASE AddCdevFails
  BY <1>5 DEF AddCdevFails, InitFails, Step
<1>6. CASE CreateClass
  BY <1>6 DEF CreateClass, Step, Assign
<1>7. CASE CreateDevice
  BY <1>7 DEF CreateDevice, Step, Assign
<1>8. CASE AllocBuffer
  BY <1>8 DEF AllocBuffer, Step, Assign
<1>9. CASE SetWritePoint
  BY <1>9 DEF SetWritePoint, Step, Assign
<1>10. CASE SetReadPoint
  BY <1>10 DEF SetReadPoint, Step, Assign
<1>11. CASE MapRegisters
  BY <1>11 DEF MapRegisters, Step
<1>12. CASE EnableTrace
  BY <1>12 DEF EnableTrace, Step, Assign
<1>13. CASE DisableTrace
  BY <1>13 DEF DisableTrace, Step, Assign
<1>14. CASE UnmapRegisters
  BY <1>14 DEF UnmapRegisters, Step
<1>15. CASE FreeBuffer
  BY <1>15 DEF FreeBuffer, Step, Assign
<1>16. CASE DestroyDevice
  BY <1>16 DEF DestroyDevice, Step, Assign
<1>17. CASE DestroyClass
  BY <1>17 DEF DestroyClass, Step, Assign
<1>18. CASE DeleteCdev
  BY <1>18 DEF DeleteCdev, Step, Assign
<1>19. CASE Unregister
  BY <1>19 DEF Unregister, Step
<1>20. ASSUME NEW m \in Modules, Insmod(m) PROVE RegisteredInv'
  BY <1>20 DEF Insmod, Step
<1>21. ASSUME NEW m \in Modules, Rmmod(m) PROVE RegisteredInv'
  BY <1>21 DEF Rmmod, Step
<1>22. ASSUME NEW m \in Modules, ForceCleanup(m) PROVE RegisteredInv'
  BY <1>22 DEF ForceCleanup
<1>23. ASSUME NEW t \in Tasks, Read(t) PROVE RegisteredInv'
  BY <1>23 DEF Read, demo
<1>24. ASSUME NEW t \in Tasks, NEW m \in Modules, Open(t, m) PROVE RegisteredInv'
  BY <1>24 DEF Open, CanOpen
<1>25. ASSUME NEW t \in Tasks, NEW m \in Modules, Close(t, m) PROVE RegisteredInv'
  BY <1>25 DEF Close
<1>26. CASE InsmodHandler
  BY <1>26 DEF InsmodHandler, RegisterIrq, demo
<1>27. CASE RmmodHandler
  BY <1>27 DEF RmmodHandler, demo
<1>28. CASE Pmi
  BY <1>28 DEF Pmi
<1> QED
  BY <1>1, <1>2, <1>3, <1>4, <1>5, <1>6, <1>7, <1>8, <1>9, <1>10, <1>11,
     <1>12, <1>13, <1>14, <1>15, <1>16, <1>17, <1>18, <1>19, <1>20, <1>21,
     <1>22, <1>23, <1>24, <1>25, <1>26, <1>27, <1>28, NextCases

LEMMA MemoryStep ==
  ASSUME IInv, [Next]_vars
  PROVE  MemoryInv'
<1> USE DEF IInv, TypeInv, Module, PcInv, MemoryInv, At, InitPc, ExitPc,
            Freed, Unmapped, path, pmi, Others
<1>1. CASE UNCHANGED vars
  BY <1>1, LifeAssumption DEF vars
<1>2. CASE AllocRegion
  BY <1>2, LifeAssumption DEF AllocRegion, Step, Assign
<1>3. CASE AllocRegionFails
  BY <1>3, LifeAssumption DEF AllocRegionFails, InitFails, Step, Assign
<1>4. CASE AddCdev
  BY <1>4, LifeAssumption DEF AddCdev, Step, Assign
<1>5. CASE AddCdevFails
  BY <1>5, LifeAssumption DEF AddCdevFails, InitFails, Step
<1>6. CASE CreateClass
  BY <1>6, LifeAssumption DEF CreateClass, Step, Assign
<1>7. CASE CreateDevice
  BY <1>7, LifeAssumption DEF CreateDevice, Step, Assign
<1>8. CASE AllocBuffer
  BY <1>8, LifeAssumption DEF AllocBuffer, Step, Assign
<1>9. CASE SetWritePoint
  BY <1>9, LifeAssumption DEF SetWritePoint, Step, Assign
<1>10. CASE SetReadPoint
  BY <1>10, LifeAssumption DEF SetReadPoint, Step, Assign
<1>11. CASE MapRegisters
  BY <1>11, LifeAssumption DEF MapRegisters, Step
<1>12. CASE EnableTrace
  BY <1>12, LifeAssumption DEF EnableTrace, Step, Assign
<1>13. CASE DisableTrace
  BY <1>13, LifeAssumption DEF DisableTrace, Step, Assign
<1>14. CASE UnmapRegisters
  BY <1>14, LifeAssumption DEF UnmapRegisters, Step
<1>15. CASE FreeBuffer
  BY <1>15, LifeAssumption DEF FreeBuffer, Step, Assign
<1>16. CASE DestroyDevice
  BY <1>16, LifeAssumption DEF DestroyDevice, Step, Assign
<1>17. CASE DestroyClass
  BY <1>17, LifeAssumption DEF DestroyClass, Step, Assign
<1>18. CASE DeleteCdev
  BY <1>18, LifeAssumption DEF DeleteCdev, Step, Assign
<1>19. CASE Unregister
  BY <1>19, LifeAssumption DEF Unregister, Step
<1>20. ASSUME NEW m \in Modules, Insmod(m) PROVE MemoryInv'
  <2>1. /\ mod'[m].state = "coming" /\ mod'[m].paddr = "null"
        /\ pc' = "region" /\ cur' = m /\ UNCHANGED mapped
        /\ \A n \in Modules \ {m} : mod'[n] = mod[n]
        /\ m # "demo" => UNCHANGED cparam
    BY <1>20 DEF Insmod, Step
  <2>2. pc = "none" /\ mod[m].state = "gone"
    BY <1>20 DEF Insmod, Step
  <2> QED
    BY <2>1, <2>2
<1>21. ASSUME NEW m \in Modules, Rmmod(m) PROVE MemoryInv'
  BY <1>21, LifeAssumption DEF Rmmod, Step
<1>22. ASSUME NEW m \in Modules, ForceCleanup(m) PROVE MemoryInv'
  BY <1>22, LifeAssumption DEF ForceCleanup
<1>23. ASSUME NEW t \in Tasks, Read(t) PROVE MemoryInv'
  BY <1>23, LifeAssumption DEF Read, demo
<1>24. ASSUME NEW t \in Tasks, NEW m \in Modules, Open(t, m) PROVE MemoryInv'
  BY <1>24, LifeAssumption DEF Open, CanOpen
<1>25. ASSUME NEW t \in Tasks, NEW m \in Modules, Close(t, m) PROVE MemoryInv'
  BY <1>25, LifeAssumption DEF Close
<1>26. CASE InsmodHandler
  BY <1>26, LifeAssumption DEF InsmodHandler, RegisterIrq, demo
<1>27. CASE RmmodHandler
  BY <1>27, LifeAssumption DEF RmmodHandler, demo
<1>28. CASE Pmi
  BY <1>28, LifeAssumption DEF Pmi
<1> QED
  BY <1>1, <1>2, <1>3, <1>4, <1>5, <1>6, <1>7, <1>8, <1>9, <1>10, <1>11,
     <1>12, <1>13, <1>14, <1>15, <1>16, <1>17, <1>18, <1>19, <1>20, <1>21,
     <1>22, <1>23, <1>24, <1>25, <1>26, <1>27, <1>28, NextCases

LEMMA DemoStep ==
  ASSUME IInv, [Next]_vars
  PROVE  DemoInv'
<1> USE DEF IInv, TypeInv, Module, PcInv, CountedInv, DemoInv, At, InitPc,
            ExitPc, path, pmi, Others, demo
<1>1. CASE UNCHANGED vars
  BY <1>1, LifeAssumption DEF vars
<1>2. CASE AllocRegion
  BY <1>2, LifeAssumption DEF AllocRegion, Step, Assign
<1>3. CASE AllocRegionFails
  BY <1>3, LifeAssumption DEF AllocRegionFails, InitFails, Step, Assign
<1>4. CASE AddCdev
  BY <1>4, LifeAssumption DEF AddCdev, Step, Assign
<1>5. CASE AddCdevFails
  BY <1>5, LifeAssumption DEF AddCdevFails, InitFails, Step
<1>6. CASE CreateClass
  BY <1>6, LifeAssumption DEF CreateClass, Step, Assign
<1>7. CASE CreateDevice
  BY <1>7, LifeAssumption DEF CreateDevice, Step, Assign
<1>8. CASE AllocBuffer
  BY <1>8, LifeAssumption DEF AllocBuffer, Step, Assign
<1>9. CASE SetWritePoint
  BY <1>9, LifeAssumption DEF SetWritePoint, Step, Assign
<1>10. CASE SetReadPoint
  BY <1>10, LifeAssumption DEF SetReadPoint, Step, Assign
<1>11. CASE MapRegisters
  BY <1>11, LifeAssumption DEF MapRegisters, Step
<1>12. CASE EnableTrace
  BY <1>12, LifeAssumption DEF EnableTrace, Step, Assign
<1>13. CASE DisableTrace
  BY <1>13, LifeAssumption DEF DisableTrace, Step, Assign
<1>14. CASE UnmapRegisters
  BY <1>14, LifeAssumption DEF UnmapRegisters, Step
<1>15. CASE FreeBuffer
  BY <1>15, LifeAssumption DEF FreeBuffer, Step, Assign
<1>16. CASE DestroyDevice
  BY <1>16, LifeAssumption DEF DestroyDevice, Step, Assign
<1>17. CASE DestroyClass
  BY <1>17, LifeAssumption DEF DestroyClass, Step, Assign
<1>18. CASE DeleteCdev
  BY <1>18, LifeAssumption DEF DeleteCdev, Step, Assign
<1>19. CASE Unregister
  BY <1>19, LifeAssumption DEF Unregister, Step
<1>20. ASSUME NEW m \in Modules, Insmod(m) PROVE DemoInv'
  BY <1>20, LifeAssumption DEF Insmod, Step
<1>21. ASSUME NEW m \in Modules, Rmmod(m) PROVE DemoInv'
  BY <1>21, LifeAssumption DEF Rmmod, Step
<1>22. ASSUME NEW m \in Modules, ForceCleanup(m) PROVE DemoInv'
  BY <1>22, LifeAssumption DEF ForceCleanup
<1>23. ASSUME NEW t \in Tasks, Read(t) PROVE DemoInv'
  BY <1>23, LifeAssumption DEF Read, demo
<1>24. ASSUME NEW t \in Tasks, NEW m \in Modules, Open(t, m) PROVE DemoInv'
  BY <1>24, LifeAssumption DEF Open, CanOpen
<1>25. ASSUME NEW t \in Tasks, NEW m \in Modules, Close(t, m) PROVE DemoInv'
  BY <1>25, LifeAssumption DEF Close
<1>26. CASE InsmodHandler
  BY <1>26, LifeAssumption DEF InsmodHandler, RegisterIrq, demo
<1>27. CASE RmmodHandler
  BY <1>27, LifeAssumption DEF RmmodHandler, demo
<1>28. CASE Pmi
  BY <1>28, LifeAssumption DEF Pmi
<1> QED
  BY <1>1, <1>2, <1>3, <1>4, <1>5, <1>6, <1>7, <1>8, <1>9, <1>10, <1>11,
     <1>12, <1>13, <1>14, <1>15, <1>16, <1>17, <1>18, <1>19, <1>20, <1>21,
     <1>22, <1>23, <1>24, <1>25, <1>26, <1>27, <1>28, NextCases

(* How opening and closing change the number of a module's users. *)
LEMMA OpenByFacts ==
  ASSUME NEW f, NEW m
  PROVE  /\ IsFiniteSet(OpenBy(f, m))
         /\ Cardinality(OpenBy(f, m)) \in 0 .. Cardinality(Tasks)
         /\ Cardinality(OpenBy(f, m)) = 0 <=> OpenBy(f, m) = {}
<1>1. OpenBy(f, m) \subseteq Tasks
  BY DEF OpenBy
<1>2. IsFiniteSet(Tasks) /\ Cardinality(Tasks) \in Nat
  BY LifeAssumption, FS_CardinalityType
<1>3. /\ IsFiniteSet(OpenBy(f, m))
      /\ Cardinality(OpenBy(f, m)) <= Cardinality(Tasks)
  BY <1>1, <1>2, FS_Subset
<1>4. Cardinality(OpenBy(f, m)) \in Nat
  BY <1>3, FS_CardinalityType
<1> QED
  BY <1>2, <1>3, <1>4, FS_EmptySet

LEMMA OpenCounts ==
  ASSUME NEW f, NEW t \in Tasks, NEW m, <<t, m>> \notin f
  PROVE  /\ Cardinality(OpenBy(f \union {<<t, m>>}, m))
              = Cardinality(OpenBy(f, m)) + 1
         /\ \A n : n # m => OpenBy(f \union {<<t, m>>}, n) = OpenBy(f, n)
<1>1. /\ OpenBy(f \union {<<t, m>>}, m) = OpenBy(f, m) \union {t}
      /\ t \notin OpenBy(f, m)
  BY DEF OpenBy
<1>2. Cardinality(OpenBy(f, m) \union {t}) = Cardinality(OpenBy(f, m)) + 1
  BY <1>1, OpenByFacts, FS_AddElement
<1> QED
  BY <1>1, <1>2 DEF OpenBy

LEMMA CloseCounts ==
  ASSUME NEW f, NEW t \in Tasks, NEW m, <<t, m>> \in f
  PROVE  /\ Cardinality(OpenBy(f \ {<<t, m>>}, m))
              = Cardinality(OpenBy(f, m)) - 1
         /\ OpenBy(f, m) # {}
         /\ \A n : n # m => OpenBy(f \ {<<t, m>>}, n) = OpenBy(f, n)
<1>1. /\ OpenBy(f \ {<<t, m>>}, m) = OpenBy(f, m) \ {t}
      /\ t \in OpenBy(f, m)
  BY DEF OpenBy
<1>2. Cardinality(OpenBy(f, m) \ {t}) = Cardinality(OpenBy(f, m)) - 1
  BY <1>1, OpenByFacts, FS_RemoveElement
<1> QED
  BY <1>1, <1>2 DEF OpenBy

LEMMA CountedStep ==
  ASSUME IInv, [Next]_vars
  PROVE  CountedInv'
<1> USE DEF IInv, TypeInv, Module, PcInv, RegisteredInv, CountedInv, DemoInv,
            Holds, At, InitPc, ExitPc, path, pmi, Others
<1>0. \A f, m : /\ Cardinality(OpenBy(f, m)) \in Nat
                /\ Cardinality(OpenBy(f, m)) = 0 <=> OpenBy(f, m) = {}
  BY OpenByFacts
<1>1. CASE UNCHANGED vars
  BY <1>1, <1>0 DEF vars
<1>2. CASE AllocRegion
  BY <1>2, <1>0 DEF AllocRegion, Step, Assign
<1>3. CASE AllocRegionFails
  BY <1>3, <1>0 DEF AllocRegionFails, InitFails, Step, Assign
<1>4. CASE AddCdev
  BY <1>4, <1>0 DEF AddCdev, Step, Assign
<1>5. CASE AddCdevFails
  BY <1>5, <1>0 DEF AddCdevFails, InitFails, Step
<1>6. CASE CreateClass
  BY <1>6, <1>0 DEF CreateClass, Step, Assign
<1>7. CASE CreateDevice
  BY <1>7, <1>0 DEF CreateDevice, Step, Assign
<1>8. CASE AllocBuffer
  BY <1>8, <1>0 DEF AllocBuffer, Step, Assign
<1>9. CASE SetWritePoint
  BY <1>9, <1>0 DEF SetWritePoint, Step, Assign
<1>10. CASE SetReadPoint
  BY <1>10, <1>0 DEF SetReadPoint, Step, Assign
<1>11. CASE MapRegisters
  BY <1>11, <1>0 DEF MapRegisters, Step
<1>12. CASE EnableTrace
  BY <1>12, <1>0 DEF EnableTrace, Step, Assign
<1>13. CASE DisableTrace
  BY <1>13, <1>0 DEF DisableTrace, Step, Assign
<1>14. CASE UnmapRegisters
  BY <1>14, <1>0 DEF UnmapRegisters, Step
<1>15. CASE FreeBuffer
  BY <1>15, <1>0 DEF FreeBuffer, Step, Assign
<1>16. CASE DestroyDevice
  BY <1>16, <1>0 DEF DestroyDevice, Step, Assign
<1>17. CASE DestroyClass
  BY <1>17, <1>0 DEF DestroyClass, Step, Assign
<1>18. CASE DeleteCdev
  BY <1>18, <1>0 DEF DeleteCdev, Step, Assign
<1>19. CASE Unregister
  BY <1>19, <1>0 DEF Unregister, Step
<1>20. ASSUME NEW m \in Modules, Insmod(m) PROVE CountedInv'
  <2>1. /\ mod'[m].state = "coming" /\ mod'[m].refs = 0
        /\ mod'[m].paddr = "null"
        /\ \A n \in Modules \ {m} : mod'[n] = mod[n]
        /\ pc = "none" /\ pc' = "region" /\ cur' = m
        /\ UNCHANGED <<fds, forced, handler>>
    BY <1>20 DEF Insmod, Step
  <2>2. m \notin forced => OpenBy(fds, m) = {} /\ Holds(m) = 0
    BY <1>20 DEF Insmod, demo
  <2> QED
    BY <2>1, <2>2, <1>0
<1>21. ASSUME NEW m \in Modules, Rmmod(m) PROVE CountedInv'
  BY <1>21, <1>0 DEF Rmmod, Step
<1>22. ASSUME NEW m \in Modules, ForceCleanup(m) PROVE CountedInv'
  BY <1>22, <1>0 DEF ForceCleanup
<1>23. ASSUME NEW t \in Tasks, Read(t) PROVE CountedInv'
  BY <1>23, <1>0 DEF Read, demo
<1>24. ASSUME NEW t \in Tasks, NEW m \in Modules, Open(t, m) PROVE CountedInv'
  <2>1. /\ mod'[m].refs = mod[m].refs + 1
        /\ mod'[m].state = mod[m].state /\ mod'[m].state \in {"coming", "live"}
        /\ mod'[m].node /\ mod'[m].paddr = mod[m].paddr
        /\ \A n \in Modules \ {m} : mod'[n] = mod[n]
        /\ UNCHANGED <<pc, cur, forced, handler>>
    BY <1>24 DEF Open, CanOpen
  <2>2. /\ Cardinality(OpenBy(fds', m)) = Cardinality(OpenBy(fds, m)) + 1
        /\ \A n \in Modules \ {m} : OpenBy(fds', n) = OpenBy(fds, n)
    BY <1>24, OpenCounts DEF Open
  <2> QED
    BY <2>1, <2>2, <1>0
<1>25. ASSUME NEW t \in Tasks, NEW m \in Modules, Close(t, m) PROVE CountedInv'
  <2>1. /\ mod'[m].refs = mod[m].refs - 1
        /\ mod'[m].state = mod[m].state /\ mod'[m].node = mod[m].node
        /\ mod'[m].paddr = mod[m].paddr
        /\ \A n \in Modules \ {m} : mod'[n] = mod[n]
        /\ UNCHANGED <<pc, cur, forced, handler>>
    BY <1>25 DEF Close
  <2>2. /\ Cardinality(OpenBy(fds', m)) = Cardinality(OpenBy(fds, m)) - 1
        /\ OpenBy(fds, m) # {}
        /\ \A n \in Modules \ {m} : OpenBy(fds', n) = OpenBy(fds, n)
    BY <1>25, CloseCounts DEF Close
  <2> QED
    BY <2>1, <2>2, <1>0
<1>26. CASE InsmodHandler
  BY <1>26, <1>0 DEF InsmodHandler, RegisterIrq, demo
<1>27. CASE RmmodHandler
  BY <1>27, <1>0 DEF RmmodHandler, demo
<1>28. CASE Pmi
  BY <1>28, <1>0 DEF Pmi
<1> QED
  BY <1>1, <1>2, <1>3, <1>4, <1>5, <1>6, <1>7, <1>8, <1>9, <1>10, <1>11,
     <1>12, <1>13, <1>14, <1>15, <1>16, <1>17, <1>18, <1>19, <1>20, <1>21,
     <1>22, <1>23, <1>24, <1>25, <1>26, <1>27, <1>28, NextCases

LEMMA IInvInit == Init => IInv
<1> SUFFICES ASSUME Init PROVE IInv
  OBVIOUS
<1> USE DEF Init, Unloaded, At, InitPc, ExitPc, Freed, Unmapped
<1>1. TypeInv
  <2>1. Unloaded \in Module
    BY DEF Module
  <2>2. mod \in [Modules -> Module]
    <3> HIDE DEF Unloaded
    <3> QED
      BY <2>1
  <2> QED
    BY <2>2, LifeAssumption DEF TypeInv
<1>2. PcInv /\ RegisteredInv /\ MemoryInv
  BY LifeAssumption DEF PcInv, RegisteredInv, MemoryInv
<1>3. \A m : OpenBy(fds, m) = {} /\ Cardinality(OpenBy(fds, m)) = 0
  BY FS_EmptySet DEF OpenBy
<1>4. CountedInv
  BY <1>3 DEF CountedInv, Holds
<1>5. DemoInv
  BY LifeAssumption DEF DemoInv, demo
<1> QED
  BY <1>1, <1>2, <1>4, <1>5 DEF IInv

LEMMA IInvStep ==
  ASSUME IInv, [Next]_vars
  PROVE  IInv'
<1>1. TypeInv
  BY DEF IInv
<1> QED
  BY <1>1, TypeStep, PcStep, RegisteredStep, MemoryStep, CountedStep, DemoStep
  DEF IInv

LEMMA IInvAlways == Spec => []IInv
<1>1. IInv /\ [Next]_vars => IInv'
  BY IInvStep
<1> QED
  BY <1>1, IInvInit, PTL DEF Spec

(* Types, and the reference count of a module that was never forced out is *)
(* at most one for each task and one for pmi_handler.ko.                   *)
THEOREM TypeCorrect == Spec => []TypeOK
<1>1. IInv => TypeOK
  <2> SUFFICES ASSUME IInv PROVE TypeOK
    OBVIOUS
  <2>1. ASSUME NEW m \in Modules \ forced
        PROVE  mod[m].refs \in 0 .. Cardinality(Tasks) + 1
    <3>1. mod[m].refs = Cardinality(OpenBy(fds, m)) + Holds(m)
      BY DEF IInv, CountedInv
    <3>2. Cardinality(Tasks) \in Nat
      BY LifeAssumption, FS_CardinalityType
    <3> QED
      BY <3>1, <3>2, OpenByFacts DEF Holds
  <2> QED
    BY <2>1 DEF IInv, TypeInv, TypeOK, InitPc, ExitPc
<1> QED
  BY <1>1, IInvAlways, PTL

(* NoUseAfterFree of TraceModule: the exit functions free the buffer       *)
(* before they remove the device, and no task has it open by then.         *)
THEOREM BufferOutlivesUsers == Spec => []NoUseAfterFree
<1>1. IInv => NoUseAfterFree
  <2> SUFFICES ASSUME IInv, NEW t \in Tasks, NEW m \in Modules \ forced,
                      <<t, m>> \in fds
               PROVE  /\ mod[m].state \in {"coming", "live"}
                      /\ mod[m].paddr # "freed"
    BY DEF NoUseAfterFree
  <2>1. OpenBy(fds, m) # {}
    BY DEF OpenBy
  <2> QED
    BY <2>1 DEF IInv, CountedInv
<1> QED
  BY <1>1, IInvAlways, PTL

(* DumpHasBuffer of TraceModule: the PMI and trace_exit find demo.ko, its  *)
(* mapped registers and its buffer.                                        *)
THEOREM DumpFindsBuffer == Spec => []DumpHasBuffer
<1>1. IInv => DumpHasBuffer
  BY DEF IInv, PcInv, DemoInv, DumpHasBuffer, At, demo
<1> QED
  BY <1>1, IInvAlways, PTL

(* NothingRegistered of TraceModule, with force_rmmod.ko at any moment.    *)
THEOREM GoneIsUnregistered == Spec => []NothingRegistered
<1>1. IInv => NothingRegistered
  BY DEF IInv, RegisteredInv, MemoryInv, NothingRegistered
<1> QED
  BY <1>1, IInvAlways, PTL

(* NoLeak of TraceModule, with force_rmmod.ko at any moment.               *)
THEOREM GoneIsFreed == Spec => []NoLeak
<1>1. IInv => NoLeak
  BY DEF IInv, MemoryInv, NoLeak
<1> QED
  BY <1>1, IInvAlways, PTL
=============================================================================
