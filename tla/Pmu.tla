-------------------------------- MODULE Pmu --------------------------------
(***************************************************************************)
(* The performance monitors of every processor and everything in the       *)
(* repository that programs them: the modules that open them to user       *)
(* programs (enable_arm_pmu.c, pmu_kernel.c), the library a measured       *)
(* program counts with (pmu_utils.h), demo.ko, which exports events to the *)
(* trace unit (pmu.c), and pmi_handler.ko, which sets the cycle counter so *)
(* that it overflows soon (pmi_handler.c).  Nobody owns the registers:     *)
(* what one part writes is what the others find.                           *)
(*                                                                         *)
(* External: register semantics, on_each_cpu, processors that go offline   *)
(* and come back.  Programs measure while an access module is in the       *)
(* kernel (pre-exec/spectre-v4/run.sh); the modules come and go in any     *)
(* order that the kernel permits.                                          *)
(***************************************************************************)
EXTENDS Integers, FiniteSets, Functions

CONSTANTS
  CPUs,      \* processors
  Traced,    \* the processor that is traced, and that the program is pinned to
  Arguments, \* event types the program passes to pmu_begin
  Width,     \* the event counter counts modulo Width (2^32)
  MaxEnds    \* bound: calls of pmu_end between two resets

INVALID == 61

ASSUME PmuAssumption ==
  /\ IsFiniteSet(CPUs) /\ Traced \in CPUs
  /\ Arguments \subseteq 0 .. INVALID
  /\ Width \in Nat /\ Width > 1
  /\ MaxEnds \in Nat

VARIABLES
  online,    \* processors that run
  pmcr,      \* pmcr[c]: bits of PMCR_EL0 that are set
  cnten,     \* cnten[c]: counters enabled in PMCNTENSET_EL0
  userenr,   \* userenr[c]: PMUSERENR_EL0 lets user programs in
  evtyper,   \* PMEVTYPER0_EL0 of Traced: what counter 0 counts
  evcntr,    \* PMEVCNTR0_EL0 of Traced
  ccntr,     \* PMCCNTR_EL0 of Traced: "near" or "far" from overflow
  access,    \* the access module that is in the kernel, or "none"
  call,      \* function on_each_cpu is running, or "none"
  todo,      \* processors it has yet to run on
  demo,      \* demo.ko is loaded
  handler,   \* pmi_handler.ko is loaded
  pc,        \* where the program is in the library
  evType, evtCnt, cntBegin, cntEnd,  \* the library's variables
  score,     \* what pmu_get_score returned last
  events,    \* history: events of type evType since cntBegin was read
  ends       \* history: calls of pmu_end since reset

registers == <<pmcr, cnten, userenr, evtyper, evcntr, ccntr>>
modules   == <<online, access, call, todo, demo, handler>>
library   == <<evType, evtCnt, cntBegin, cntEnd, score, events, ends>>
vars == <<registers, modules, pc, library>>

Kinds == {"enable_arm_pmu", "pmu_kernel"}

(* The types pmu_get_score sums up. *)
Counted == Arguments \intersect 0 .. 60

Init ==
  /\ online = CPUs
  /\ pmcr = [c \in CPUs |-> {}]
  /\ cnten = [c \in CPUs |-> {}]
  /\ userenr = [c \in CPUs |-> FALSE]
  /\ evtyper = 0 /\ evcntr = 0 /\ ccntr = "far"
  /\ access = "none" /\ call = "none" /\ todo = {}
  /\ demo = FALSE /\ handler = FALSE
  /\ pc = "exited"
  /\ evType = INVALID /\ evtCnt = [t \in Counted |-> 0]
  /\ cntBegin = 0 /\ cntEnd = 0 /\ score = 0 /\ events = 0
  /\ ends = 0

-----------------------------------------------------------------------------
(* Registers.  P and C reset the event counters and the cycle counter;     *)
(* they read as zero.                                                      *)

WritePmcr(c, bits) ==
  /\ pmcr' = [pmcr EXCEPT ![c] = bits \ {"P", "C"}]
  /\ evcntr' = IF c = Traced /\ "P" \in bits THEN 0 ELSE evcntr
  /\ ccntr' = IF c = Traced /\ "C" \in bits THEN "far" ELSE ccntr

Counting(c, counter) == "E" \in pmcr[c] /\ counter \in cnten[c]

-----------------------------------------------------------------------------
(* The access modules.  README.md:65-71 loads one before demo.ko; nothing  *)
(* keeps it from being loaded, or loaded again, while demo.ko traces.      *)

OnEachCpu(fn) ==
  /\ call = "none"
  /\ call' = fn
  /\ todo' = online

(* The function has run everywhere: init or fini comes to its end. *)
CallDone ==
  /\ call # "none" /\ todo = {}
  /\ call' = "none"
  /\ access' = IF call = "disable_cpu_counters" THEN "none" ELSE access
  /\ handler' = (handler \/ call = "init_pmccntr")
  /\ UNCHANGED <<registers, online, todo, demo, pc, library>>

InsmodAccess ==
  /\ access = "none"
  /\ access' \in Kinds
  /\ OnEachCpu("enable_cpu_counters")
  /\ UNCHANGED <<registers, online, demo, handler, pc, library>>

(* Mutant of RmmodAccess: runs the function on one processor only. *)
RmmodAccessHere ==
  /\ access # "none" /\ pc = "exited" /\ call = "none"
  /\ call' = "disable_cpu_counters"
  /\ todo' = {Traced}
  /\ UNCHANGED <<registers, online, access, demo, handler, pc, library>>

RmmodAccess ==
  /\ access # "none" /\ pc = "exited"
  /\ OnEachCpu("disable_cpu_counters")
  /\ UNCHANGED <<registers, online, access, demo, handler, pc, library>>

(* enable_arm_pmu writes P | C, then E; pmu_kernel writes E, as its LC is  *)
(* outside the mask of armv8pmu_pmcr_write.  Neither looks at what was in  *)
(* the register before.  PMINTENSET and PMCNTENSET ignore zero bits.       *)
enable_cpu_counters(c) ==
  /\ call = "enable_cpu_counters" /\ c \in todo
  /\ todo' = todo \ {c}
  /\ userenr' = [userenr EXCEPT ![c] = TRUE]
  /\ WritePmcr(c, IF access = "enable_arm_pmu" THEN {"P", "C", "E"} ELSE {"E"})
  /\ cnten' = [cnten EXCEPT ![c] = @ \union {"cycles"}]
  /\ UNCHANGED <<evtyper, online, access, call, demo, handler, pc, library>>

(* Mutant of disable_cpu_counters: clears all of the register. *)
disable_cpu_counters_zero(c) ==
  /\ call = "disable_cpu_counters" /\ c \in todo
  /\ todo' = todo \ {c}
  /\ WritePmcr(c, {})
  /\ userenr' = [userenr EXCEPT ![c] = FALSE]
  /\ UNCHANGED <<cnten, evtyper, online, access, call, demo, handler, pc,
                 library>>

(* The register is or'ed with ~E: E keeps its value and every other bit is *)
(* set.  The zero written to PMCNTENSET has no effect.                     *)
disable_cpu_counters(c) ==
  /\ call = "disable_cpu_counters" /\ c \in todo
  /\ todo' = todo \ {c}
  /\ WritePmcr(c, pmcr[c] \union {"P", "C", "D", "X", "DP"})
  /\ userenr' = [userenr EXCEPT ![c] = FALSE]
  /\ UNCHANGED <<cnten, evtyper, online, access, call, demo, handler, pc,
                 library>>

-----------------------------------------------------------------------------
(* demo.ko and pmi_handler.ko, which needs demo.ko and is never removed    *)
(* (README.md:70).                                                         *)

(* Mutant of InsmodDemo: set_pmu_export writes PMCR_X without the bits it  *)
(* has read.                                                               *)
InsmodDemoOnlyX ==
  /\ ~demo /\ call = "none"
  /\ demo' = TRUE
  /\ WritePmcr(Traced, {"X"})
  /\ UNCHANGED <<cnten, userenr, evtyper, online, access, call, todo, handler,
                 pc, library>>

(* set_pmu_export, with trace_init around it *)
InsmodDemo ==
  /\ ~demo /\ call = "none"
  /\ demo' = TRUE
  /\ WritePmcr(Traced, pmcr[Traced] \union {"X"})
  /\ UNCHANGED <<cnten, userenr, evtyper, online, access, call, todo, handler,
                 pc, library>>

(* trace_exit leaves the PMU as it is. *)
RmmodDemo ==
  /\ demo /\ ~handler /\ call = "none"
  /\ demo' = FALSE
  /\ UNCHANGED <<registers, online, access, call, todo, handler, pc, library>>

InsmodHandler ==
  /\ demo /\ ~handler
  /\ OnEachCpu("init_pmccntr")
  /\ UNCHANGED <<registers, online, access, demo, handler, pc, library>>

init_pmccntr(c) ==
  /\ call = "init_pmccntr" /\ c \in todo
  /\ todo' = todo \ {c}
  /\ ccntr' = IF c = Traced THEN "near" ELSE ccntr
  /\ UNCHANGED <<pmcr, cnten, userenr, evtyper, evcntr, online, access, call,
                 demo, handler, pc, library>>

(* The cycle counter overflows and pmu_irq_handler sets it again; the      *)
(* pause and continue around it are in TracePath and TraceBuffer.          *)
pmu_irq_handler ==
  /\ handler /\ Counting(Traced, "cycles")
  /\ ccntr' = "near"
  /\ UNCHANGED <<pmcr, cnten, userenr, evtyper, evcntr, modules, pc, library>>

-----------------------------------------------------------------------------
(* Processors.  One that comes back starts with its registers reset and    *)
(* user access off.  on_each_cpu holds off a processor that wants to leave.*)

Offline(c) ==
  /\ c \in online \ {Traced} /\ todo = {}
  /\ online' = online \ {c}
  /\ UNCHANGED <<registers, access, call, todo, demo, handler, pc, library>>

Online(c) ==
  /\ c \in CPUs \ online
  /\ online' = online \union {c}
  /\ pmcr' = [pmcr EXCEPT ![c] = {}]
  /\ cnten' = [cnten EXCEPT ![c] = {}]
  /\ userenr' = [userenr EXCEPT ![c] = FALSE]
  /\ UNCHANGED <<evtyper, evcntr, ccntr, access, call, todo, demo, handler, pc,
                 library>>

(* A measurement lasts from the read of cntBegin to the next pmu_begin. *)
Measuring == evType \in Counted /\ pc \in {"idle", "end"}

(* An event of type t happens on Traced.  Bound: a measurement sees less   *)
(* than a full turn of the counter, or its end may equal its beginning.    *)
Event(t) ==
  /\ Measuring /\ evType = t => events < Width - 1
  /\ evcntr' = IF Counting(Traced, "event0") /\ evtyper = t
               THEN (evcntr + 1) % Width ELSE evcntr
  /\ events' = IF Measuring /\ evType = t THEN events + 1 ELSE events
  /\ UNCHANGED <<pmcr, cnten, userenr, evtyper, ccntr, modules, pc, evType,
                 evtCnt, cntBegin, cntEnd, score, ends>>

-----------------------------------------------------------------------------
(* The program and the library.  It calls reset before anything else: the  *)
(* variables start out zero, and zero is an event type.                    *)

(* reset() *)
reset ==
  /\ evType' = INVALID /\ evtCnt' = [t \in Counted |-> 0]
  /\ cntBegin' = 0 /\ cntEnd' = 0 /\ score' = 0 /\ events' = 0
  /\ ends' = 0

Start ==
  /\ pc = "exited" /\ access # "none" /\ call = "none"
  /\ pc' = "idle"
  /\ reset
  /\ UNCHANGED <<registers, modules>>

(* The program ends, wherever it is, and its memory is gone. *)
Exit ==
  /\ pc # "exited"
  /\ pc' = "exited"
  /\ reset
  /\ UNCHANGED <<registers, modules>>

Goto(from, to) == pc = from /\ pc' = to
(* Mutant of isValidType: the last number of the second gap is let in. *)
isValidType_36(t) == t # 30 /\ t \notin 33 .. 35 \union 41 .. 51 \union 54 .. 56

isValidType(t) == t # 30 /\ t \notin 33 .. 36 \union 41 .. 51 \union 54 .. 56

(* pmu_begin, up to the first register.  An invalid type leaves everything *)
(* as it is.                                                               *)
pmu_begin(t) ==
  /\ isValidType(t)
  /\ Goto("idle", "select")
  /\ evType' = t
  /\ events' = 0
  /\ UNCHANGED <<registers, modules, evtCnt, cntBegin, cntEnd,
                 score, ends>>

enable_pmu_select ==
  /\ Goto("select", "enable")
  /\ evtyper' = evType
  /\ UNCHANGED <<pmcr, cnten, userenr, evcntr, ccntr, modules, library>>

enable_pmu_count ==
  /\ Goto("enable", "begin")
  /\ cnten' = [cnten EXCEPT ![Traced] = @ \union {"event0"}]
  /\ UNCHANGED <<pmcr, userenr, evtyper, evcntr, ccntr, modules, library>>

(* cntBegin = read_pmu(): the measurement begins. *)
ReadBegin ==
  /\ Goto("begin", "idle")
  /\ cntBegin' = evcntr
  /\ UNCHANGED <<registers, modules, evType, evtCnt, cntEnd, score, events,
                 ends>>

(* The sum over all types. *)
Total == FoldFunction(LAMBDA x, y : x + y, 0, evtCnt)

(* pmu_end: cntEnd = read_pmu() *)
pmu_end ==
  /\ evType # INVALID /\ ends < MaxEnds
  /\ Goto("idle", "end")
  /\ cntEnd' = evcntr
  /\ ends' = ends + 1
  /\ UNCHANGED <<registers, modules, evType, evtCnt, cntBegin, score, events>>

(* Mutant of Scored: the counter is taken to have no limit. *)
ScoredAbove == cntEnd > cntBegin

(* 0 < cntEnd - cntBegin, in unsigned arithmetic *)
Scored == (cntEnd - cntBegin) % Width # 0

(* disable_pmu writes r && 0xfffffffe, which is 1: bit 0, and in a         *)
(* register that only sets.                                                *)
pmu_end_score ==
  /\ Goto("end", "idle")
  /\ cnten' = [cnten EXCEPT ![Traced] = @ \union {"event0"}]
  /\ evtCnt' = [evtCnt EXCEPT ![evType] = IF Scored THEN @ + 1 ELSE @]
  /\ UNCHANGED <<pmcr, userenr, evtyper, evcntr, ccntr, modules, evType,
                 cntBegin, cntEnd, score, events, ends>>

pmu_get_score ==
  /\ Goto("idle", "idle")
  /\ score' = IF evType = INVALID THEN 0 ELSE Total
  /\ UNCHANGED <<registers, modules, evType, evtCnt, cntBegin, cntEnd, events,
                 ends>>

-----------------------------------------------------------------------------
Library ==
  \/ Start \/ Exit \/ \E t \in Arguments : pmu_begin(t)
  \/ enable_pmu_select \/ enable_pmu_count \/ ReadBegin
  \/ pmu_end \/ pmu_end_score \/ pmu_get_score

Kernel ==
  \/ InsmodAccess \/ RmmodAccess \/ InsmodDemo \/ RmmodDemo \/ InsmodHandler
  \/ \E c \in CPUs : \/ enable_cpu_counters(c) \/ disable_cpu_counters(c)
                     \/ init_pmccntr(c) \/ Offline(c) \/ Online(c)
  \/ CallDone \/ pmu_irq_handler

Next == Library \/ Kernel \/ \E t \in Counted : Event(t)

Spec == Init /\ [][Next]_vars

-----------------------------------------------------------------------------
(* The enumerators that name an event; NOP1 to NOP19 fill the gaps. *)
Named == 0 .. 29 \union {31, 32} \union 37 .. 40 \union {52, 53} \union 57 .. 60

(* Types of all variables; evType is an event or INVALID, never a gap. *)
TypeOK ==
  /\ online \subseteq CPUs /\ Traced \in online
  /\ pmcr \in [CPUs -> SUBSET {"E", "X", "D", "DP"}]
  /\ cnten \in [CPUs -> SUBSET {"event0", "cycles"}]
  /\ userenr \in [CPUs -> BOOLEAN]
  /\ evtyper \in 0 .. INVALID /\ evcntr \in 0 .. Width - 1
  /\ ccntr \in {"near", "far"}
  /\ access \in Kinds \union {"none"}
  /\ call \in {"none", "enable_cpu_counters", "disable_cpu_counters",
               "init_pmccntr"}
  /\ todo \subseteq online
  /\ demo \in BOOLEAN /\ handler \in BOOLEAN
  /\ pc \in {"exited", "idle", "select", "enable", "begin", "end"}
  /\ evType \in Named \union {INVALID}
  /\ evtCnt \in [Counted -> Nat] /\ score \in Nat
  /\ cntBegin \in 0 .. Width - 1 /\ cntEnd \in 0 .. Width - 1
  /\ events \in 0 .. Width - 1 /\ ends \in 0 .. MaxEnds

(* Without an access module no processor that runs lets user programs at   *)
(* its PMU, whichever were offline when the module came or went.           *)
AccessRevoked == access = "none" => \A c \in online : ~userenr[c]

(* While a program uses the library its processor lets it, and has its     *)
(* counters running: neither demo.ko nor the handler takes that away.      *)
AccessGranted ==
  pc # "exited" =>
    userenr[Traced] /\ Counting(Traced, "cycles") /\ "D" \notin pmcr[Traced]

(* README.md:20: the trace unit sees PMU events only with PMCR_X set, which *)
(* trace_init does on Juno (connect.c:16).  An access module that is       *)
(* loaded later clears the bit; its removal sets it again, by or'ing ~E.   *)
(* So the events are exported whenever demo.ko is loaded and no access     *)
(* module is, whatever has come and gone before.                           *)
ExportedAlone == demo /\ access = "none" => "X" \in pmcr[Traced]

(* README.md:25 says that the initial value of PMCCNTR controls how often  *)
(* the interrupt comes: the counter counts every cycle and not, with D,    *)
(* every 64th.                                                             *)
PeriodKept == handler /\ call = "none" => "D" \notin pmcr[Traced]

-----------------------------------------------------------------------------
(* The library implements EventScore.  A point is scored from the read of  *)
(* cntEnd on.                                                              *)
Pending == IF pc = "end" /\ Scored THEN 1 ELSE 0

Score == INSTANCE EventScore WITH
  Events <- Named, type <- evType, seen <- events > 0,
  score <- Total + Pending, ret <- score

(* Every step of the program, the modules and the processors is one step   *)
(* of the abstract library or none: a point for each pmu_end whose event   *)
(* has occurred since pmu_begin, with a counter that wraps and is shared   *)
(* with whatever the modules do to it.                                     *)
ImplementsScore == Score!Spec
=============================================================================
