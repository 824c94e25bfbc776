---------------------------- MODULE TraceModule ----------------------------
(***************************************************************************)
(* The life cycles of demo.ko, mount_cs_device.ko and pmi_handler.ko: init *)
(* and exit functions step by step (trace.c, mount_cs_device.c), tasks     *)
(* that open, read and close the devices while they run, registration of   *)
(* the PMI (pmi_handler.c), and force_rmmod.ko, which overrides the        *)
(* reference count.  What a read and a dump do in detail is in TraceBuffer *)
(* and CsDevice, what enable and disable do to the hardware in TracePath;  *)
(* here they are one step each.                                            *)
(*                                                                         *)
(* The kernel's part is external: a module with references or with modules *)
(* that use its symbols is not removed, opening a device takes a reference *)
(* (fops.owner) unless the module is going, class_create and device_create *)
(* report errors by a pointer that is not NULL, a class name can be used   *)
(* once, and device_destroy follows the class pointer it is given.  insmod *)
(* and rmmod run one after the other, as from a shell.                     *)
(***************************************************************************)
EXTENDS Integers, FiniteSets

CONSTANTS
  Tasks,    \* user tasks
  Modules,  \* modules with a device: "demo", "mount_cs_device"
  MayFail   \* kernel calls of the init functions that may fail

ASSUME LifeAssumption ==
  /\ IsFiniteSet(Tasks)
  /\ "demo" \in Modules /\ Modules \subseteq {"demo", "mount_cs_device"}
  /\ MayFail \subseteq {"region", "cdev", "class", "device", "irq"}

VARIABLES
  mod,      \* mod[m]: module m and its variables
  pc,       \* the next step of the init or exit function that runs
  cur,      \* the module whose function it is
  cparam,   \* demo.ko's parameter block
  mapped,   \* its registers are mapped
  fds,      \* pairs of a task and the module whose device it has open
  handler,  \* pmi_handler.ko is loaded
  irq,      \* its interrupt handler is registered
  stale,    \* a handler is registered whose module is gone
  forced    \* modules that force_rmmod.ko has been used on

demo   == mod["demo"]
path   == <<cparam, mapped>>
pmi    == <<handler, irq, stale>>
Others == <<fds, pmi, forced>>
vars == <<mod, pc, cur, path, Others>>

(* A module that is not there; its variables start out zero. *)
Unloaded ==
  [state |-> "gone", refs |-> 0,
   region |-> FALSE,        \* a device number is registered
   cdev |-> FALSE,          \* cs_cdev is added to the system
   dev_class |-> "none",    \* result of class_create
   node |-> FALSE,          \* the device exists in /dev
   paddr |-> "null",        \* the buffer
   write_point |-> "null"]  \* "start": paddr; "filled": behind stored words

Init ==
  /\ mod = [m \in Modules |-> Unloaded]
  /\ pc = "none" /\ cur = "demo"
  /\ cparam = "null" /\ mapped = FALSE
  /\ fds = {} /\ handler = FALSE /\ irq = FALSE /\ stale = FALSE
  /\ forced = {}

Step(from, to) == pc = from /\ pc' = to

(* The function that runs sets field f of its module. *)
Assign(f, values) ==
  \E v \in values : mod' = [mod EXCEPT ![cur][f] = v]

-----------------------------------------------------------------------------
(* trace_init and mount_cs_device_init                                     *)

Insmod(m) ==
  /\ mod[m].state = "gone"
  /\ Step("none", "region")
  /\ cur' = m
  /\ mod' = [mod EXCEPT
               ![m] = [@ EXCEPT !.state = "coming", !.refs = 0,
                                !.paddr = "null", !.write_point = "null",
                                !.dev_class = "none"]]
  /\ cparam' = IF m = "demo" THEN "allocated" ELSE cparam
  /\ UNCHANGED <<mapped, Others>>

(* alloc_chrdev_region *)
AllocRegion ==
  /\ Step("region", "cdev")
  /\ Assign("region", {TRUE})
  /\ UNCHANGED <<cur, path, Others>>

(* The init function returns an error: the module is gone again. *)
InitFails(call) == call \in MayFail /\ Step(call, "none")

AllocRegionFails ==
  /\ InitFails("region")
  /\ Assign("state", {"gone"})
  /\ UNCHANGED <<cur, path, Others>>

(* cdev_init and cdev_add *)
AddCdev ==
  /\ Step("cdev", "class")
  /\ Assign("cdev", {TRUE})
  /\ UNCHANGED <<cur, path, Others>>

(* Mutant of AddCdevFails: the device number stays registered. *)
AddCdevFailsKeep ==
  /\ InitFails("cdev")
  /\ Assign("state", {"gone"})
  /\ UNCHANGED <<cur, path, Others>>

(* goto r_class: the device number is given back. *)
AddCdevFails ==
  /\ InitFails("cdev")
  /\ mod' = [mod EXCEPT ![cur].state = "gone", ![cur].region = FALSE]
  /\ UNCHANGED <<cur, path, Others>>

(* class_create; an error is not NULL and passes for success.  Both        *)
(* modules name their class cs_class.                                      *)
CreateClass ==
  /\ Step("class", "device")
  /\ Assign("dev_class",
            IF \E m \in Modules : mod[m].dev_class = "made" THEN {"error"}
            ELSE {"made"} \union {"error" : f \in {"class"} \intersect MayFail})
  /\ UNCHANGED <<cur, path, Others>>

(* device_create, likewise; it fails in a class that is an error. *)
CreateDevice ==
  /\ Step("device", "buffer")
  /\ Assign("node",
            IF mod[cur].dev_class # "made" THEN {FALSE}
            ELSE {TRUE} \union {FALSE : f \in {"device"} \intersect MayFail})
  /\ UNCHANGED <<cur, path, Others>>

(* paddr = kmalloc, memset *)
AllocBuffer ==
  /\ Step("buffer", "point")
  /\ Assign("paddr", {"buffer"})
  /\ UNCHANGED <<cur, path, Others>>

(* write_point = paddr *)
SetWritePoint ==
  /\ Step("point", IF cur = "demo" THEN "map" ELSE "read_point")
  /\ Assign("write_point", {"start"})
  /\ UNCHANGED <<cur, path, Others>>

(* read_point = paddr, return 0 *)
SetReadPoint ==
  /\ Step("read_point", "none")
  /\ Assign("state", {"live"})
  /\ UNCHANGED <<cur, path, Others>>

(* ioremap of the units' registers *)
MapRegisters ==
  /\ Step("map", "enable")
  /\ mapped' = TRUE
  /\ UNCHANGED <<mod, cur, cparam, Others>>

(* enable_junor2_trace, return 0 *)
EnableTrace ==
  /\ Step("enable", "none")
  /\ Assign("state", {"live"})
  /\ UNCHANGED <<cur, path, Others>>

-----------------------------------------------------------------------------
(* trace_exit and mount_cs_device_exit                                     *)

Rmmod(m) ==
  /\ mod[m].state = "live" /\ mod[m].refs = 0
  /\ m = "demo" => ~handler
  /\ Step("none", IF m = "demo" THEN "disable" ELSE "kfree")
  /\ cur' = m
  /\ mod' = [mod EXCEPT ![m].state = "going"]
  /\ UNCHANGED <<path, Others>>

(* disable_junor2_trace dumps the ETF, its closing word at least. *)
DisableTrace ==
  /\ Step("disable", "unmap")
  /\ Assign("write_point", {"filled"})
  /\ UNCHANGED <<cur, path, Others>>

(* Mutant of UnmapRegisters: the parameter block is forgotten. *)
UnmapRegistersOnly ==
  /\ Step("unmap", "kfree")
  /\ mapped' = FALSE
  /\ UNCHANGED <<mod, cur, cparam, Others>>

(* iounmap of the registers, kfree(cparam) *)
UnmapRegisters ==
  /\ Step("unmap", "kfree")
  /\ mapped' = FALSE
  /\ cparam' = "freed"
  /\ UNCHANGED <<mod, cur, Others>>

(* kfree(paddr) *)
FreeBuffer ==
  /\ Step("kfree", "device_destroy")
  /\ Assign("paddr", {"freed"})
  /\ UNCHANGED <<cur, path, Others>>

(* device_destroy(dev_class, dev); a class that is an error makes the      *)
(* kernel follow a wild pointer, and rmmod dies with the module going.     *)
DestroyDevice ==
  /\ IF mod[cur].dev_class = "error"
     THEN Step("device_destroy", "none") /\ UNCHANGED mod
     ELSE Step("device_destroy", "class_destroy") /\ Assign("node", {FALSE})
  /\ UNCHANGED <<cur, path, Others>>

DestroyClass ==
  /\ Step("class_destroy", "cdev_del")
  /\ Assign("dev_class", {"none"})
  /\ UNCHANGED <<cur, path, Others>>

DeleteCdev ==
  /\ Step("cdev_del", "unregister")
  /\ Assign("cdev", {FALSE})
  /\ UNCHANGED <<cur, path, Others>>

(* unregister_chrdev_region; the module is gone. *)
Unregister ==
  /\ Step("unregister", "none")
  /\ mod' = [mod EXCEPT ![cur].region = FALSE, ![cur].state = "gone"]
  /\ UNCHANGED <<cur, path, Others>>

-----------------------------------------------------------------------------
(* User tasks                                                              *)

CanOpen(m) ==
  mod[m].node /\ mod[m].cdev /\ mod[m].state \in {"coming", "live"}

(* Mutant of Open: fops without owner, no reference is taken. *)
OpenUnowned(t, m) ==
  /\ <<t, m>> \notin fds /\ CanOpen(m)
  /\ fds' = fds \union {<<t, m>>}
  /\ UNCHANGED <<mod, pc, cur, path, pmi, forced>>

Open(t, m) ==
  /\ <<t, m>> \notin fds /\ CanOpen(m)
  /\ fds' = fds \union {<<t, m>>}
  /\ mod' = [mod EXCEPT ![m].refs = @ + 1]
  /\ UNCHANGED <<pc, cur, path, pmi, forced>>

(* cs_read of demo.ko on a filled buffer; its other reads leave everything *)
(* as it is.                                                               *)
Read(t) ==
  /\ <<t, "demo">> \in fds
  /\ demo.paddr = "buffer" /\ demo.write_point = "filled"
  /\ mod' = [mod EXCEPT !["demo"].write_point = "start"]
  /\ UNCHANGED <<pc, cur, path, Others>>

Close(t, m) ==
  /\ <<t, m>> \in fds
  /\ fds' = fds \ {<<t, m>>}
  /\ mod' = [mod EXCEPT ![m].refs = @ - 1]
  /\ UNCHANGED <<pc, cur, path, pmi, forced>>

-----------------------------------------------------------------------------
(* pmi_handler.ko                                                          *)

(* init: register_inst_count_handler reports success even if request_irq   *)
(* fails.  The module uses cs_trace_pause and cs_trace_continue, which the *)
(* kernel resolves only in a live module, and takes a reference to it.     *)
RegisterIrq == irq' \in {TRUE} \union {FALSE : f \in {"irq"} \intersect MayFail}

(* Mutant of InsmodHandler: demo.ko need not be live, as if the functions  *)
(* were looked up in the symbol table.                                     *)
InsmodHandlerLoose ==
  /\ ~handler /\ demo.state # "gone"
  /\ handler' = TRUE
  /\ RegisterIrq
  /\ mod' = [mod EXCEPT !["demo"].refs = @ + 1]
  /\ UNCHANGED <<pc, cur, path, fds, stale, forced>>

InsmodHandler ==
  /\ ~handler /\ demo.state = "live"
  /\ handler' = TRUE
  /\ RegisterIrq
  /\ mod' = [mod EXCEPT !["demo"].refs = @ + 1]
  /\ UNCHANGED <<pc, cur, path, fds, stale, forced>>

(* fini frees nothing: the interrupt stays registered. *)
RmmodHandler ==
  /\ handler
  /\ handler' = FALSE
  /\ stale' = (stale \/ irq)
  /\ irq' = FALSE
  /\ mod' = [mod EXCEPT !["demo"].refs = @ - 1]
  /\ UNCHANGED <<pc, cur, path, fds, forced>>

(* pmu_irq_handler: cs_trace_pause dumps the ETF into the buffer. *)
Pmi ==
  /\ irq
  /\ mod' = [mod EXCEPT !["demo"].write_point = "filled"]
  /\ UNCHANGED <<pc, cur, path, Others>>

-----------------------------------------------------------------------------
(* force_cleanup_module(m): whoever depends on the module is reported,     *)
(* then the state is set to live and the references are forgotten.         *)
ForceCleanup(m) ==
  /\ mod[m].state # "gone"
  /\ mod' = [mod EXCEPT ![m].state = "live", ![m].refs = 0]
  /\ forced' = forced \union {m}
  /\ UNCHANGED <<pc, cur, path, fds, pmi>>

-----------------------------------------------------------------------------
InitStep ==
  \/ AllocRegion \/ AllocRegionFails \/ AddCdev \/ AddCdevFails
  \/ CreateClass \/ CreateDevice \/ AllocBuffer \/ SetWritePoint
  \/ SetReadPoint \/ MapRegisters \/ EnableTrace

ExitStep ==
  \/ DisableTrace \/ UnmapRegisters \/ FreeBuffer \/ DestroyDevice
  \/ DestroyClass \/ DeleteCdev \/ Unregister

Next ==
  \/ InitStep \/ ExitStep
  \/ \E m \in Modules : Insmod(m) \/ Rmmod(m) \/ ForceCleanup(m)
  \/ \E t \in Tasks : Read(t) \/ \E m \in Modules : Open(t, m) \/ Close(t, m)
  \/ InsmodHandler \/ RmmodHandler \/ Pmi

Spec == Init /\ [][Next]_vars

-----------------------------------------------------------------------------
Module ==
  [state : {"gone", "coming", "live", "going"}, refs : Int,
   region : BOOLEAN, cdev : BOOLEAN, dev_class : {"none", "made", "error"},
   node : BOOLEAN, paddr : {"null", "buffer", "freed"},
   write_point : {"null", "start", "filled"}]

(* Types, and references that no open device and no module accounts for.   *)
TypeOK ==
  /\ mod \in [Modules -> Module]
  /\ \A m \in Modules \ forced : mod[m].refs \in 0 .. Cardinality(Tasks) + 1
  /\ pc \in {"none", "region", "cdev", "class", "device", "buffer", "point",
             "read_point", "map", "enable", "disable", "unmap", "kfree",
             "device_destroy", "class_destroy", "cdev_del", "unregister"}
  /\ cur \in Modules
  /\ cparam \in {"null", "allocated", "freed"} /\ mapped \in BOOLEAN
  /\ fds \subseteq Tasks \X Modules
  /\ handler \in BOOLEAN /\ irq \in BOOLEAN /\ stale \in BOOLEAN
  /\ forced \subseteq Modules

(* The exit functions free the buffer before they remove the device, so a  *)
(* read must be impossible by then: unless references were cleared by      *)
(* force, a module is not being removed and its buffer is not freed while  *)
(* a task has its device open.                                             *)
NoUseAfterFree ==
  \A t \in Tasks, m \in Modules \ forced :
    <<t, m>> \in fds =>
      mod[m].state \in {"coming", "live"} /\ mod[m].paddr # "freed"

(* Whenever the PMI can come, its handler, the module it calls, the        *)
(* registers and the buffer are all there, and when trace_exit disables    *)
(* the path the buffer that takes its last dump is.  This needs demo.ko    *)
(* not to be forced and pmi_handler.ko, as README.md:70 asks, not to have  *)
(* been removed.                                                           *)
DumpHasBuffer ==
  "demo" \notin forced /\ ~stale =>
    /\ irq => handler /\ demo.state = "live"
    /\ irq \/ pc = "disable" =>
         /\ mapped /\ cparam = "allocated"
         /\ demo.paddr = "buffer" /\ demo.write_point # "null"

(* Once a module is gone, removed, forced out or never successfully        *)
(* loaded, the kernel holds nothing that refers to it.                     *)
NothingRegistered ==
  \A m \in Modules :
    mod[m].state = "gone" =>
      /\ ~mod[m].region /\ ~mod[m].cdev /\ ~mod[m].node
      /\ mod[m].dev_class # "made"
      /\ m = "demo" => ~mapped

(* After a complete life, from an init that returned 0 to the end of the   *)
(* exit function, no memory is left allocated either.                      *)
NoLeak ==
  \A m \in Modules :
    mod[m].state = "gone" =>
      /\ mod[m].paddr # "buffer"
      /\ m = "demo" /\ mod[m].paddr = "freed" => cparam # "allocated"

(* trace.c:48 calls write_point = paddr the empty buffer: a read that      *)
(* comes before the first word finds the buffer empty and returns 0.       *)
EmptyIsSeen ==
  (\E t \in Tasks : <<t, "demo">> \in fds) /\ demo.write_point = "null"
    => demo.paddr = "null"
=============================================================================
