------------------------- MODULE TraceSystemProofs -------------------------
(***************************************************************************)
(* Proofs about TraceSystem, for any number of readers, interrupts and     *)
(* words, and any capacity of trace unit, sink and buffer.  The system's   *)
(* steps are steps of its two components, so that the inductive invariants *)
(* of TracePathProofs and TraceBufferProofs hold here too; the invariant   *)
(* of the system joins them to where a call is in its dump, and counts the *)
(* words on their way.                                                     *)
(***************************************************************************)
EXTENDS TraceSystem, TLAPS

PP == INSTANCE TracePathProofs WITH
  Platforms <- {"JUNOR2"}, platform <- "JUNOR2", LockGates <- TRUE

BP == INSTANCE TraceBufferProofs WITH EtfWords <- RamWords

(* The components' assumptions on their constants. *)
LEMMA PathConstants == PP!PathAssumption
  BY SystemAssumption DEF PP!PathAssumption, P!PathAssumption

LEMMA BufferConstants == BP!ConstantsAssumption
  BY SystemAssumption DEF BP!ConstantsAssumption, B!ConstantsAssumption

-----------------------------------------------------------------------------
(* The instances whose theorems are used are those TraceSystem is made of. *)
LEMMA BufferInit == B!Init <=> BP!Init
  BY DEF B!Init, BP!Init

LEMMA BufferReader ==
  ASSUME NEW r \in Readers
  PROVE  B!ReaderStep(r) <=> BP!ReaderStep(r)
<1>1. B!ReadEmpty(r) <=> BP!ReadEmpty(r)
  BY DEF B!ReadEmpty, BP!ReadEmpty, B!Goto, BP!Goto, B!Runs, BP!Runs,
         B!Unsleepy, BP!Unsleepy, B!handlerVars, BP!handlerVars
<1>2. B!ReadStart(r) <=> BP!ReadStart(r)
  BY DEF B!ReadStart, BP!ReadStart, B!Goto, BP!Goto, B!Runs, BP!Runs,
         B!Unsleepy, BP!Unsleepy, B!handlerVars, BP!handlerVars
<1>3. B!ReadLock(r) <=> BP!ReadLock(r)
  BY DEF B!ReadLock, BP!ReadLock, B!Goto, BP!Goto, B!Runs, BP!Runs,
         B!Unsleepy, BP!Unsleepy, B!handlerVars, BP!handlerVars
<1>4. B!ReadSleep(r) <=> BP!ReadSleep(r)
  BY DEF B!ReadSleep, BP!ReadSleep, B!Goto, BP!Goto, B!Runs, BP!Runs,
         B!Unsleepy, BP!Unsleepy, B!handlerVars, BP!handlerVars
<1>5. B!ReadCopy(r) <=> BP!ReadCopy(r)
  BY DEF B!ReadCopy, BP!ReadCopy, B!Goto, BP!Goto, B!Runs, BP!Runs,
         B!Unsleepy, BP!Unsleepy, B!handlerVars, BP!handlerVars, B!WordAt,
         BP!WordAt, B!BytesPerWord, BP!BytesPerWord
<1>6. B!ReadFault(r) <=> BP!ReadFault(r)
  BY DEF B!ReadFault, BP!ReadFault, B!Goto, BP!Goto, B!Runs, BP!Runs,
         B!Unsleepy, BP!Unsleepy, B!handlerVars, BP!handlerVars, B!EFAULT,
         BP!EFAULT
<1>7. B!ReadLeave(r) <=> BP!ReadLeave(r)
  BY DEF B!ReadLeave, BP!ReadLeave, B!Goto, BP!Goto, B!Runs, BP!Runs,
         B!Unsleepy, BP!Unsleepy, B!handlerVars, BP!handlerVars
<1>8. B!ReadReset(r) <=> BP!ReadReset(r)
  BY DEF B!ReadReset, BP!ReadReset, B!Goto, BP!Goto, B!Runs, BP!Runs,
         B!Unsleepy, BP!Unsleepy, B!handlerVars, BP!handlerVars
<1>9. B!ReadClear(r) <=> BP!ReadClear(r)
  BY DEF B!ReadClear, BP!ReadClear, B!Goto, BP!Goto, B!Runs, BP!Runs,
         B!Unsleepy, BP!Unsleepy, B!handlerVars, BP!handlerVars
<1>10. B!ReadReturn(r) <=> BP!ReadReturn(r)
  BY DEF B!ReadReturn, BP!ReadReturn, B!Goto, BP!Goto, B!Runs, BP!Runs,
         B!Unsleepy, BP!Unsleepy, B!handlerVars, BP!handlerVars
<1> QED
  BY <1>1, <1>2, <1>3, <1>4, <1>5, <1>6, <1>7, <1>8, <1>9, <1>10
  DEF B!ReaderStep, BP!ReaderStep, B!InCall, BP!InCall

LEMMA BufferHandler ==
  /\ B!PmiEnter <=> BP!PmiEnter
  /\ B!DumpFirst <=> BP!DumpFirst
  /\ B!DumpLock <=> BP!DumpLock
  /\ B!DumpWord <=> BP!DumpWord
  /\ B!DumpEnd <=> BP!DumpEnd
  /\ B!DumpUnlock <=> BP!DumpUnlock
  /\ B!PmiReturn <=> BP!PmiReturn
<1>1. B!PmiEnter <=> BP!PmiEnter
  BY DEF B!PmiEnter, BP!PmiEnter, B!HandlerGoto, BP!HandlerGoto, B!readerVars,
         BP!readerVars
<1>2. B!DumpFirst <=> BP!DumpFirst
  BY DEF B!DumpFirst, BP!DumpFirst, B!HandlerGoto, BP!HandlerGoto,
         B!readerVars, BP!readerVars, B!ReadRrd, BP!ReadRrd
<1>3. B!DumpLock <=> BP!DumpLock
  BY DEF B!DumpLock, BP!DumpLock, B!HandlerGoto, BP!HandlerGoto, B!readerVars,
         BP!readerVars
<1>4. B!DumpWord <=> BP!DumpWord
  BY DEF B!DumpWord, BP!DumpWord, B!HandlerGoto, BP!HandlerGoto, B!readerVars,
         BP!readerVars, B!ReadRrd, BP!ReadRrd, B!StoreResult, BP!StoreResult
<1>5. B!DumpEnd <=> BP!DumpEnd
  BY DEF B!DumpEnd, BP!DumpEnd, B!HandlerGoto, BP!HandlerGoto, B!readerVars,
         BP!readerVars, B!StoreResult, BP!StoreResult
<1>6. B!DumpUnlock <=> BP!DumpUnlock
  BY DEF B!DumpUnlock, BP!DumpUnlock, B!HandlerGoto, BP!HandlerGoto,
         B!readerVars, BP!readerVars
<1>7. B!PmiReturn <=> BP!PmiReturn
  BY DEF B!PmiReturn, BP!PmiReturn, B!HandlerGoto, BP!HandlerGoto,
         B!readerVars, BP!readerVars
<1> QED
  BY <1>1, <1>2, <1>3, <1>4, <1>5, <1>6, <1>7

LEMMA PathSets ==
  /\ P!Chain = PP!Chain /\ P!Etm = PP!Etm /\ P!Sink = PP!Sink
  /\ P!Links = PP!Links /\ P!Tmcs = PP!Tmcs /\ P!Stores = PP!Stores
  /\ P!Funnels = PP!Funnels /\ P!Units = PP!Units
<1>1. P!Chain = PP!Chain
  BY DEF P!Chain, PP!Chain
<1>2. P!Etm = PP!Etm /\ P!Sink = PP!Sink
  BY <1>1 DEF P!Etm, PP!Etm, P!Sink, PP!Sink
<1>3. P!Links = PP!Links
  BY <1>1 DEF P!Links, PP!Links
<1>4. P!Tmcs = PP!Tmcs
  BY <1>2, <1>3 DEF P!Tmcs, PP!Tmcs
<1>5. P!Stores = PP!Stores
  BY <1>2, <1>4 DEF P!Stores, PP!Stores
<1>6. P!Funnels = PP!Funnels
  BY <1>1, <1>5 DEF P!Funnels, PP!Funnels
<1> QED
  BY <1>1, <1>2, <1>3, <1>4, <1>5, <1>6 DEF P!Units, PP!Units

LEMMA PathInit == P!Init <=> PP!Init
  BY PathSets DEF P!Init, PP!Init, P!PowerOn, PP!PowerOn

LEMMA PathFunctions ==
  /\ P!enable_junor2_trace = PP!enable_junor2_trace
  /\ P!disable_junor2_trace = PP!disable_junor2_trace
  /\ P!pause_junor2_trace = PP!pause_junor2_trace
  /\ P!continue_junor2_trace = PP!continue_junor2_trace
<1>1. \A u, ops : P!On(u, ops) = PP!On(u, ops)
  BY DEF P!On, PP!On
<1>2. P!tmc_flush_and_stop = PP!tmc_flush_and_stop
  BY DEF P!tmc_flush_and_stop, PP!tmc_flush_and_stop, P!tmc_wait_for_tmcready,
         PP!tmc_wait_for_tmcready
<1>3. P!tmc_enable_etf_sink("etf0") = PP!tmc_enable_etf_sink("etf0")
  BY <1>1 DEF P!tmc_enable_etf_sink, PP!tmc_enable_etf_sink,
              P!tmc_wait_for_tmcready, PP!tmc_wait_for_tmcready
<1>4. P!tmc_disable_etf_sink("etf0") = PP!tmc_disable_etf_sink("etf0")
  BY <1>1, <1>2 DEF P!tmc_disable_etf_sink, PP!tmc_disable_etf_sink
<1>5. \A u : /\ P!funnel_enable(u) = PP!funnel_enable(u)
             /\ P!funnel_disable(u) = PP!funnel_disable(u)
             /\ P!set_pmu_export(u) = PP!set_pmu_export(u)
  BY <1>1 DEF P!funnel_enable, PP!funnel_enable, P!funnel_disable,
              PP!funnel_disable, P!set_pmu_export, PP!set_pmu_export
<1>6. /\ P!etm_enable_trace_program_flow("etm")
           = PP!etm_enable_trace_program_flow("etm")
      /\ P!etm_disable("etm") = PP!etm_disable("etm")
      /\ P!etm_continue("etm") = PP!etm_continue("etm")
  BY <1>1 DEF P!etm_enable_trace_program_flow,
              PP!etm_enable_trace_program_flow, P!etm_disable, PP!etm_disable,
              P!etm_continue, PP!etm_continue
<1>7. P!enable_junor2_trace = PP!enable_junor2_trace
  BY <1>3, <1>5, <1>6 DEF P!enable_junor2_trace, PP!enable_junor2_trace
<1>8. P!disable_junor2_trace = PP!disable_junor2_trace
  BY <1>4, <1>5, <1>6 DEF P!disable_junor2_trace, PP!disable_junor2_trace
<1>9. P!pause_junor2_trace = PP!pause_junor2_trace
  BY <1>4, <1>5, <1>6 DEF P!pause_junor2_trace, PP!pause_junor2_trace
<1>10. P!continue_junor2_trace = PP!continue_junor2_trace
  BY <1>3, <1>5, <1>6 DEF P!continue_junor2_trace, PP!continue_junor2_trace
<1> QED
  BY <1>7, <1>8, <1>9, <1>10

LEMMA PathCalls ==
  /\ P!trace_init <=> PP!trace_init
  /\ P!trace_exit <=> PP!trace_exit
  /\ P!pmu_irq_handler <=> PP!pmu_irq_handler
<1>1. P!trace_init <=> PP!trace_init
  BY PathFunctions DEF P!trace_init, PP!trace_init, P!Idle, PP!Idle
<1>2. P!trace_exit <=> PP!trace_exit
  BY PathFunctions DEF P!trace_exit, PP!trace_exit, P!Idle, PP!Idle
<1>3. P!pmu_irq_handler <=> PP!pmu_irq_handler
  BY PathFunctions DEF P!pmu_irq_handler, PP!pmu_irq_handler, P!Idle, PP!Idle
<1> QED
  BY <1>1, <1>2, <1>3

LEMMA PathAccesses ==
  /\ P!WaitReady <=> PP!WaitReady
  /\ P!WaitFlush <=> PP!WaitFlush
  /\ P!Dump <=> PP!Dump
  /\ P!Write <=> PP!Write
<1>1. \A u, op, s : P!Effect(u, op, s) = PP!Effect(u, op, s)
  BY PathSets DEF P!Effect, PP!Effect, P!Config, PP!Config
<1>2. P!WaitReady <=> PP!WaitReady
  BY DEF P!WaitReady, PP!WaitReady, P!Idle, PP!Idle
<1>3. P!WaitFlush <=> PP!WaitFlush
  BY DEF P!WaitFlush, PP!WaitFlush, P!Idle, PP!Idle
<1>4. P!Dump <=> PP!Dump
  BY DEF P!Dump, PP!Dump, P!Idle, PP!Idle
<1>5. P!Write <=> PP!Write
  BY <1>1 DEF P!Write, PP!Write, P!Idle, PP!Idle
<1> QED
  BY <1>2, <1>3, <1>4, <1>5

LEMMA PathHardware ==
  /\ P!Emit <=> PP!Emit
  /\ P!Move(1, 4) <=> PP!Move(1, 4)
  /\ P!FlushDone(4) <=> PP!FlushDone(4)
  /\ P!Stopped(4) <=> PP!Stopped(4)
<1>1. P!Emit <=> PP!Emit
  BY PathSets DEF P!Emit, PP!Emit, P!Tracing, PP!Tracing
<1>2. \A i, j : P!Connected(i, j) <=> PP!Connected(i, j)
  BY PathSets DEF P!Connected, PP!Connected, P!Passes, PP!Passes
<1>3. P!Move(1, 4) <=> PP!Move(1, 4)
  BY <1>2, PathSets DEF P!Move, PP!Move
<1>4. P!FlushDone(4) <=> PP!FlushDone(4)
  BY <1>2, PathSets DEF P!FlushDone, PP!FlushDone
<1>5. P!Stopped(4) <=> PP!Stopped(4)
  BY PathSets DEF P!Stopped, PP!Stopped
<1> QED
  BY <1>1, <1>3, <1>4, <1>5

-----------------------------------------------------------------------------
(* Every step of the system is a step of the path, or leaves it alone...   *)
LEMMA PathStep == [Next]_vars => [PP!Next]_(PP!vars)
<1> SUFFICES ASSUME [Next]_vars PROVE PP!Next \/ UNCHANGED PP!vars
  OBVIOUS
<1>1. ASSUME UNCHANGED pathVars PROVE UNCHANGED PP!vars
  BY <1>1 DEF pathVars, PP!vars
<1>2. CASE UNCHANGED vars
  BY <1>1, <1>2 DEF vars
<1>3. CASE Insmod \/ Rmmod \/ Interrupt
  BY <1>3, PathCalls DEF Insmod, Rmmod, Interrupt, PP!Next
<1>4. CASE InsmodHandler \/ DumpBegin \/ DumpLock \/ DumpStep \/ Return
  BY <1>1, <1>4 DEF InsmodHandler, DumpBegin, DumpLock, DumpStep, Return
<1>5. CASE Access
  BY <1>5, PathAccesses DEF Access, P!Driver, PP!Driver, PP!Next
<1>6. CASE DumpReturn
  BY <1>6, PathAccesses DEF DumpReturn, PP!Driver, PP!Next
<1>7. CASE Emit \/ Move \/ Settle
  <2>1. PP!Emit \/ PP!Move(1, 4) \/ PP!FlushDone(4) \/ PP!Stopped(4)
    BY <1>7, PathHardware DEF Emit, Move, Settle
  <2>2. 1 \in PP!Places /\ 4 \in PP!Places
    BY DEF PP!Places
  <2> QED
    BY <2>1, <2>2 DEF PP!Hardware, PP!Next
<1>8. ASSUME NEW r \in Readers, Read(r) PROVE UNCHANGED PP!vars
  BY <1>1, <1>8 DEF Read, CanRead
<1> QED
  BY <1>2, <1>3, <1>4, <1>5, <1>6, <1>7, <1>8 DEF Next

(* ... and a step of the buffer, or leaves it alone, but for insmod, which *)
(* comes with a buffer of its own.                                         *)
LEMMA BufferStep == [Next]_vars => Insmod \/ [BP!Next]_(BP!vars)
<1> SUFFICES ASSUME [Next]_vars, ~Insmod
             PROVE  BP!Next \/ UNCHANGED BP!vars
  OBVIOUS
<1>1. ASSUME UNCHANGED bufferVars PROVE UNCHANGED BP!vars
  BY <1>1 DEF bufferVars, BP!vars, BP!readerVars, BP!handlerVars
<1>2. CASE UNCHANGED vars
  BY <1>1, <1>2 DEF vars
<1>3. CASE Rmmod \/ InsmodHandler \/ Interrupt \/ Access \/ Emit \/ Move
           \/ Settle
  BY <1>1, <1>3 DEF Rmmod, InsmodHandler, Interrupt, Access, Emit, Move, Settle
<1>4. CASE DumpBegin
  BY <1>4, BufferHandler DEF DumpBegin, BP!Next
<1>5. CASE DumpLock
  BY <1>5, BufferHandler DEF DumpLock, BP!Next
<1>6. CASE DumpStep \/ DumpReturn
  BY <1>6, BufferHandler DEF DumpStep, DumpReturn, BP!Next, BP!InHandler
<1>7. CASE Return
  BY <1>1, <1>7, BufferHandler DEF Return, BP!Next, BP!InHandler
<1>8. ASSUME NEW r \in Readers, Read(r) PROVE BP!Next
  BY <1>8, BufferReader DEF Read, BP!Next
<1> QED
  BY <1>2, <1>3, <1>4, <1>5, <1>6, <1>7, <1>8 DEF Next

(* Composition adds nothing to what the path does on its own: the dump     *)
(* that takes steps of its own, the readers and the handler's module leave *)
(* the path's behaviours those of TracePath, so that whatever is proved of *)
(* them (TracePathProofs) holds in the system.                             *)
THEOREM SystemDrivesPath == Spec => P!Spec
<1>1. Init => P!Init
  BY DEF Init
<1>2. [Next]_vars => [P!Next]_(P!vars)
  <2> SUFFICES ASSUME [Next]_vars PROVE P!Next \/ UNCHANGED P!vars
    OBVIOUS
  <2>1. ASSUME UNCHANGED pathVars PROVE UNCHANGED P!vars
    BY <2>1 DEF pathVars, P!vars
  <2>2. CASE UNCHANGED vars
    BY <2>1, <2>2 DEF vars
  <2>3. CASE Insmod \/ Rmmod \/ Interrupt
    BY <2>3 DEF Insmod, Rmmod, Interrupt, P!Next
  <2>4. CASE InsmodHandler \/ DumpBegin \/ DumpLock \/ DumpStep \/ Return
    BY <2>1, <2>4 DEF InsmodHandler, DumpBegin, DumpLock, DumpStep, Return
  <2>5. CASE Access \/ DumpReturn
    BY <2>5 DEF Access, DumpReturn, P!Driver, P!Next
  <2>6. CASE Emit \/ Move \/ Settle
    <3>1. P!Emit \/ P!Move(1, 4) \/ P!FlushDone(4) \/ P!Stopped(4)
      BY <2>6 DEF Emit, Move, Settle
    <3>2. 1 \in P!Places /\ 4 \in P!Places
      BY DEF P!Places
    <3> QED
      BY <3>1, <3>2 DEF P!Hardware, P!Next
  <2>7. ASSUME NEW r \in Readers, Read(r) PROVE UNCHANGED P!vars
    BY <2>1, <2>7 DEF Read, CanRead
  <2> QED
    BY <2>2, <2>3, <2>4, <2>5, <2>6, <2>7 DEF Next
<1> QED
  BY <1>1, <1>2, PTL DEF Spec, P!Spec

-----------------------------------------------------------------------------
(* The inductive invariant: the components', and what the system adds.     *)

StopsUnit(x) == x.unit = "etm" /\ x.op = "disable"

(* After its dump a call neither dumps again nor stops the trace unit.     *)
DumpsLast(s) ==
  \A i, j \in DOMAIN s :
    i < j /\ s[i].op = "dump" => s[j].op # "dump" /\ ~StopsUnit(s[j])

(* The register accesses to be made and the steps of the dump belong to    *)
(* one call, which dumps when it comes to the dump and is over when there  *)
(* is nothing left of it; trace_init does not dump.                        *)
CallInv ==
  /\ todo \in Seq(PP!Access) /\ DumpsLast(todo)
  /\ call = "none" => todo = << >> /\ hpc = "idle"
  /\ call = "init" =>
       hpc = "idle" /\ \A i \in DOMAIN todo : todo[i].op # "dump"
  /\ Dumping => AtDump
  /\ hpc = "resume" => \A i \in DOMAIN todo : ~StopsUnit(todo[i])

(* The dump leaves its loop only when it has read all of the sink.         *)
EtfInv ==
  /\ hpc \in {"spin", "store"} /\ result = End => etf = 0
  /\ hpc = "unlock" => etf = 0

(* From the end of the dump until the trace unit is on, the path is empty. *)
StaysDrained ==
  hpc = "resume" /\ ~hw["etm"].on =>
    hw["etm"].held = 0 /\ hw["etf0"].held = 0

(* Nobody reads a device that is not there. *)
ReadersGone == ~loaded => \A r \in Readers : pc[r] = "idle"

CountInv ==
  /\ handler \in BOOLEAN
  /\ call \in {"none", "init", "exit", "pmi"}
  /\ emitted \in 0 .. MaxWords /\ lost \in Nat
  /\ hw["etf0"].held <= RamWords

IInv ==
  /\ PP!IInv /\ BP!IInv
  /\ CallInv /\ EtfInv /\ StaysDrained /\ ReadersGone
  /\ CountInv /\ EachWordOnce

-----------------------------------------------------------------------------
(* What is known of the path. *)
LEMMA PathNames ==
  /\ P!Etm = "etm" /\ P!Sink = "etf0" /\ P!Stores = {"etm", "etf0"}
  /\ P!Chain = <<"etm", "cluster0_funnel", "main_funnel", "etf0">>
  /\ P!Tmcs = {"etf0"}
  /\ PP!Units = {"etm", "cluster0_funnel", "main_funnel", "etf0", "pmu"}
  BY PathSets, PathConstants, PP!JunoUnits

LEMMA HwTypes ==
  ASSUME PP!IInv
  PROVE  /\ hw \in [PP!Units -> PP!UnitState]
         /\ \A u \in {"etm", "etf0"} :
              hw[u].held \in Nat /\ hw[u].on \in BOOLEAN
<1>1. hw \in [PP!Units -> PP!UnitState]
  BY DEF PP!IInv, PP!HwInv
<1>2. \A u \in {"etm", "etf0"} : hw[u] \in PP!UnitState
  BY <1>1, PathNames
<1>3. (IF FifoWords > RamWords THEN FifoWords ELSE RamWords) \in Nat
  BY PathConstants DEF PP!PathAssumption
<1> QED
  BY <1>1, <1>2, <1>3 DEF PP!UnitState

(* When a call comes to its dump, the trace unit is off and empty, and the *)
(* sink is enabled and has stopped.                                        *)
LEMMA DumpFinds ==
  ASSUME PP!IInv, AtDump
  PROVE  /\ Head(todo).unit = "etf0"
         /\ ~hw["etm"].on /\ hw["etm"].held = 0
         /\ hw["etf0"].on /\ hw["etf0"].tmc = "ready"
<1>1. PP!JunoInv /\ ~PP!Idle
  BY DEF PP!IInv, PP!Idle, AtDump, P!Idle
<1>2. PP!JunoAccess(Head(todo))
  BY <1>1, PP!JunoNext, PathConstants
<1>3. Head(todo).unit = "etf0" /\ PP!JunoStop(12)
  BY <1>2 DEF PP!JunoAccess, AtDump
<1>4. PP!Done(12, 0, 5) = 5 /\ PP!Done(12, 7, 8) = 5
  BY DEF PP!Done
<1> QED
  BY <1>3, <1>4
  DEF PP!JunoStop, PP!EtmOff, PP!SinkOff, PP!TmcOff, PP!Flushed

(* An access that is not the dump moves no words, and only disabling the   *)
(* trace unit turns it off.                                                *)
LEMMA AccessKeeps ==
  ASSUME PP!IInv, Access
  PROVE  /\ todo # << >> /\ todo' = Tail(todo)
         /\ \A u \in {"etm", "etf0"} : hw'[u].held = hw[u].held
         /\ hw["etm"].on /\ ~hw'["etm"].on => StopsUnit(Head(todo))
<1> DEFINE x == Head(todo)
<1>1. PP!Driver /\ x.op # "dump" /\ todo # << >>
  BY PathAccesses
  DEF Access, AtDump, P!Driver, PP!Driver, P!Idle, P!WaitReady, P!WaitFlush,
      P!Dump, P!Write
<1>2. PP!JunoInv /\ PP!HwInv /\ ~PP!Idle
  BY <1>1 DEF PP!IInv, PP!Idle
<1>3. x \in PP!Access /\ x.unit \in PP!Units
  BY <1>2, PP!JunoNext, PathConstants DEF PP!JunoAccess
<1>4. /\ todo' = Tail(todo)
      /\ PP!Makes(x.unit, x.op, hw[x.unit], hw'[x.unit])
      /\ \A w \in PP!Units \ {x.unit} : hw'[w] = hw[w]
  BY <1>1, <1>2, <1>3, PP!DriverMakes, PathConstants
<1> HIDE DEF x
<1>5. PP!Changes(x.unit, x.op, hw[x.unit], hw'[x.unit])
  <2>1. /\ hw[x.unit] \in PP!UnitState /\ x.op \in PP!Ops
        /\ x.unit \in PP!Names
    BY <1>3, HwTypes DEF PP!Access
  <2> QED
    BY <1>4, <2>1, PP!AccessFacts, PathConstants
<1>6. /\ hw'[x.unit].held = hw[x.unit].held
      /\ hw[x.unit].on /\ ~hw'[x.unit].on => x.op \in {"enable", "disable"}
  BY <1>1, <1>5 DEF PP!Changes, x
<1>7. x.unit = "etm" /\ hw["etm"].on /\ ~hw'["etm"].on => x.op = "disable"
  BY <1>5, <1>6 DEF PP!Changes
<1>8. "etm" \in PP!Units /\ "etf0" \in PP!Units
  BY PathNames
<1>9. \A u \in {"etm", "etf0"} : hw'[u].held = hw[u].held
  BY <1>4, <1>6, <1>8
<1>10. hw["etm"].on /\ ~hw'["etm"].on => x.unit = "etm"
  BY <1>4, <1>8
<1> QED
  BY <1>1, <1>4, <1>7, <1>9, <1>10 DEF StopsUnit, x

LEMMA DumpEmpties ==
  ASSUME PP!IInv, DumpReturn
  PROVE  /\ AtDump /\ todo' = Tail(todo)
         /\ hw'["etf0"].held = 0 /\ hw'["etm"] = hw["etm"]
<1>1. AtDump /\ todo' = Tail(todo)
  BY DEF DumpReturn, AtDump, P!Dump
<1>2. hw' = [hw EXCEPT !["etf0"].held = 0]
  BY <1>1, DumpFinds DEF DumpReturn, P!Dump
<1>3. "etf0" \in DOMAIN hw /\ "etm" \in DOMAIN hw
  BY HwTypes, PathNames
<1>4. "held" \in DOMAIN hw["etf0"]
  BY HwTypes, PathNames DEF PP!UnitState
<1> QED
  BY <1>1, <1>2, <1>3, <1>4

(* The steps of the hardware. *)
LEMMA EmitAdds ==
  ASSUME PP!IInv, Emit
  PROVE  /\ hw["etm"].on /\ hw'["etm"].on /\ hw'["etf0"] = hw["etf0"]
         /\ hw'["etm"].held = hw["etm"].held + 1
         /\ UNCHANGED <<todo, loaded>>
<1>1. /\ hw' = [hw EXCEPT !["etm"].held = hw["etm"].held + 1]
      /\ hw["etm"].on /\ UNCHANGED <<todo, loaded>>
  BY PathNames DEF Emit, P!Emit, P!Tracing
<1>2. "etf0" \in DOMAIN hw /\ "etm" \in DOMAIN hw
  BY HwTypes, PathNames
<1>3. "held" \in DOMAIN hw["etm"] /\ "on" \in DOMAIN hw["etm"]
  BY HwTypes, PathNames DEF PP!UnitState
<1> QED
  BY <1>1, <1>2, <1>3

LEMMA MoveHandsOn ==
  ASSUME PP!IInv, Move
  PROVE  /\ hw["etf0"].tmc \in {"capturing", "flushing"}
         /\ hw["etm"].held > 0 /\ hw'["etm"].held = hw["etm"].held - 1
         /\ hw'["etf0"].held = IF hw["etf0"].held < RamWords
                               THEN hw["etf0"].held + 1 ELSE hw["etf0"].held
         /\ (hw'["etm"].on <=> hw["etm"].on)
         /\ UNCHANGED <<todo, loaded>>
<1>1. P!Chain[1] = "etm" /\ P!Chain[4] = "etf0"
  BY PathNames
<1>2. /\ hw["etf0"].tmc \in {"capturing", "flushing"}
      /\ hw["etm"].held > 0 /\ UNCHANGED <<todo, loaded>>
      /\ hw' = [[hw EXCEPT !["etm"].held = hw["etm"].held - 1]
                  EXCEPT !["etf0"].held =
                    IF hw["etf0"].held < RamWords
                    THEN hw["etf0"].held + 1 ELSE hw["etf0"].held]
  BY <1>1 DEF Move, P!Move
<1>3. "etf0" \in DOMAIN hw /\ "etm" \in DOMAIN hw
  BY HwTypes, PathNames
<1>4. /\ "held" \in DOMAIN hw["etm"] /\ "on" \in DOMAIN hw["etm"]
      /\ "held" \in DOMAIN hw["etf0"]
  BY HwTypes, PathNames DEF PP!UnitState
<1> QED
  BY <1>2, <1>3, <1>4

LEMMA SettleKeeps ==
  ASSUME PP!IInv, Settle
  PROVE  /\ hw'["etm"] = hw["etm"] /\ hw'["etf0"].held = hw["etf0"].held
         /\ UNCHANGED <<todo, loaded>>
<1>1. P!Chain[4] = "etf0"
  BY PathNames
<1>2. /\ \E t : hw' = [hw EXCEPT !["etf0"].tmc = t]
      /\ UNCHANGED <<todo, loaded>>
  BY <1>1 DEF Settle, P!FlushDone, P!Stopped
<1>3. "etf0" \in DOMAIN hw /\ "etm" \in DOMAIN hw
  BY HwTypes, PathNames
<1>4. "held" \in DOMAIN hw["etf0"]
  BY HwTypes, PathNames DEF PP!UnitState
<1> QED
  BY <1>2, <1>3, <1>4

-----------------------------------------------------------------------------
(* What readers and the dump's steps leave alone. *)
LEMMA ReadLeaves ==
  ASSUME NEW r \in Readers, Read(r)
  PROVE  /\ loaded
         /\ UNCHANGED <<hpc, etf, rrd, result, loaded, todo, hw, handler, call,
                        emitted, lost>>
<1>1. loaded /\ UNCHANGED <<pathVars, handler, call, history>>
  BY DEF Read, CanRead
<1>2. UNCHANGED B!handlerVars
  BY DEF Read, B!ReaderStep, B!InCall, B!ReadEmpty, B!ReadStart, B!ReadLock,
         B!ReadSleep, B!ReadCopy, B!ReadFault, B!ReadLeave, B!ReadReset,
         B!ReadClear, B!ReadReturn
<1> QED
  BY <1>1, <1>2 DEF B!handlerVars, pathVars, history

LEMMA DumpStepLeaves ==
  ASSUME DumpBegin \/ DumpLock \/ DumpStep
  PROVE  /\ UNCHANGED <<loaded, todo, hw, handler, call, emitted, lost>>
         /\ UNCHANGED pc
<1>1. UNCHANGED <<pathVars, handler, call, history>>
  BY DEF DumpBegin, DumpLock, DumpStep
<1>2. UNCHANGED B!readerVars
  BY DEF DumpBegin, DumpLock, DumpStep, B!PmiEnter, B!DumpLock, B!DumpFirst,
         B!DumpWord, B!DumpEnd
<1> QED
  BY <1>1, <1>2 DEF B!readerVars, pathVars, history

(* How far the dump is, step by step. *)
LEMMA HandlerMoves ==
  /\ DumpBegin => AtDump /\ hpc = "idle" /\ hpc' = "first"
  /\ DumpLock => hpc = "spin" /\ hpc' = "store"
  /\ DumpStep => \/ hpc = "first" /\ hpc' = "spin"
                 \/ hpc = "store" /\ hpc' \in {"store", "unlock"}
  /\ DumpReturn => hpc = "unlock" /\ hpc' = "resume"
  /\ Return => \/ call = "init" /\ hpc' = hpc
               \/ call # "init" /\ hpc = "resume" /\ hpc' = "idle"
<1>1. DumpBegin => AtDump /\ hpc = "idle" /\ hpc' = "first"
  BY DEF DumpBegin, B!PmiEnter, B!HandlerGoto
<1>2. DumpLock => hpc = "spin" /\ hpc' = "store"
  BY DEF DumpLock, B!DumpLock, B!HandlerGoto
<1>3. DumpStep => \/ hpc = "first" /\ hpc' = "spin"
                  \/ hpc = "store" /\ hpc' \in {"store", "unlock"}
  BY DEF DumpStep, B!DumpFirst, B!DumpWord, B!DumpEnd, B!HandlerGoto
<1>4. DumpReturn => hpc = "unlock" /\ hpc' = "resume"
  BY DEF DumpReturn, B!DumpUnlock, B!HandlerGoto
<1>5. Return => \/ call = "init" /\ hpc' = hpc
                \/ call # "init" /\ hpc = "resume" /\ hpc' = "idle"
  BY DEF Return, bufferVars, B!PmiReturn, B!HandlerGoto
<1> QED
  BY <1>1, <1>2, <1>3, <1>4, <1>5

(* The three calls: each dumps last, and trace_init not at all. *)
LEMMA CallsDumpLast ==
  /\ \A s \in {PP!enable_junor2_trace, PP!disable_junor2_trace,
               PP!pause_junor2_trace \o PP!continue_junor2_trace} :
       s \in Seq(PP!Access) /\ DumpsLast(s)
  /\ \A i \in DOMAIN PP!enable_junor2_trace :
       PP!enable_junor2_trace[i].op # "dump"
<1>1. ASSUME NEW s, s = PP!enable_junor2_trace
      PROVE  /\ s \in Seq(PP!Access)
             /\ \A i \in DOMAIN s : s[i].op # "dump"
  <2>1. s \in Seq(PP!Access) /\ Len(s) = 22 /\ PP!JunoInitBlocks(s, 0)
    BY <1>1, PP!JunoInitCall, PathConstants
  <2>2. \A i \in 1 .. 22 : s[i].op # "dump"
    BY <2>1, PP!JunoInitAccesses, PathConstants
  <2> QED
    BY <2>1, <2>2
<1>2. ASSUME NEW s, s = PP!disable_junor2_trace
      PROVE  s \in Seq(PP!Access) /\ DumpsLast(s)
  <2>1. s \in Seq(PP!Access) /\ Len(s) = 15 /\ PP!JunoStopBlocks(s, 0)
    BY <1>2, PP!JunoStopCall, PathConstants
  <2>2. \A i \in 1 .. 15 : /\ s[i].op = "dump" => i = 13
                           /\ StopsUnit(s[i]) => i = 3
    BY <2>1, PP!JunoStopAccesses, PathConstants DEF StopsUnit
  <2>3. DOMAIN s = 1 .. 15
    BY <2>1
  <2> QED
    BY <2>1, <2>2, <2>3 DEF DumpsLast
<1>3. ASSUME NEW s, s = PP!interrupt_junor2
      PROVE  s \in Seq(PP!Access) /\ DumpsLast(s)
  <2>1. /\ s \in Seq(PP!Access) /\ Len(s) = 32
        /\ PP!JunoStopBlocks(s, 0) /\ PP!JunoContinueBlocks(s, 15)
    BY <1>3, PP!JunoInterruptCall, PathConstants
  <2>2. \A i \in 1 .. 15 : /\ s[i].op = "dump" => i = 13
                           /\ StopsUnit(s[i]) => i = 3
    BY <2>1, PP!JunoStopAccesses, PathConstants DEF StopsUnit
  <2>3. \A i \in 16 .. 32 : s[i].op # "dump" /\ ~StopsUnit(s[i])
    BY <2>1, PP!JunoContinueAccesses, PathConstants DEF StopsUnit
  <2>4. DOMAIN s = 1 .. 32
    BY <2>1
  <2>5. \A i \in DOMAIN s : /\ s[i].op = "dump" => i = 13
                            /\ StopsUnit(s[i]) => i = 3
    BY <2>2, <2>3, <2>4
  <2>6. ASSUME NEW i \in DOMAIN s, NEW j \in DOMAIN s, i < j,
               s[i].op = "dump"
        PROVE  s[j].op # "dump" /\ ~StopsUnit(s[j])
    <3>1. i = 13 /\ j # 13 /\ j # 3
      BY <2>4, <2>5, <2>6
    <3> QED
      BY <2>5, <3>1
  <2> QED
    BY <2>1, <2>6 DEF DumpsLast
<1>4. \A s : (\A i \in DOMAIN s : s[i].op # "dump") => DumpsLast(s)
  BY DEF DumpsLast
<1> QED
  BY <1>1, <1>2, <1>3, <1>4 DEF PP!interrupt_junor2

(* What is left of a call after its next access. *)
LEMMA TailKeeps ==
  ASSUME NEW s \in Seq(PP!Access), s # << >>, DumpsLast(s)
  PROVE  /\ Tail(s) \in Seq(PP!Access) /\ DumpsLast(Tail(s))
         /\ \A i \in DOMAIN Tail(s) :
              i + 1 \in DOMAIN s /\ Tail(s)[i] = s[i + 1]
         /\ Head(s).op = "dump" =>
              \A i \in DOMAIN Tail(s) : ~StopsUnit(Tail(s)[i])
<1>1. /\ Tail(s) \in Seq(PP!Access)
      /\ \A i \in DOMAIN Tail(s) : /\ i \in Nat /\ i > 0 /\ i + 1 \in DOMAIN s
                                   /\ Tail(s)[i] = s[i + 1]
  OBVIOUS
<1>2. 1 \in DOMAIN s /\ Head(s) = s[1]
  OBVIOUS
<1>3. DumpsLast(Tail(s))
  <2> SUFFICES ASSUME NEW i \in DOMAIN Tail(s), NEW j \in DOMAIN Tail(s), i < j,
                      Tail(s)[i].op = "dump"
               PROVE  Tail(s)[j].op # "dump" /\ ~StopsUnit(Tail(s)[j])
    BY DEF DumpsLast
  <2>1. /\ i + 1 \in DOMAIN s /\ j + 1 \in DOMAIN s /\ i + 1 < j + 1
        /\ Tail(s)[i] = s[i + 1] /\ Tail(s)[j] = s[j + 1]
    BY <1>1
  <2> QED
    BY <2>1 DEF DumpsLast
<1>4. ASSUME Head(s).op = "dump", NEW i \in DOMAIN Tail(s)
      PROVE  ~StopsUnit(Tail(s)[i])
  <2>1. i + 1 \in DOMAIN s /\ 1 < i + 1 /\ Tail(s)[i] = s[i + 1]
    BY <1>1
  <2> QED
    BY <1>2, <1>4, <2>1 DEF DumpsLast
<1> QED
  BY <1>1, <1>3, <1>4

-----------------------------------------------------------------------------
(* Each part of the invariant, step by step. *)
LEMMA CallStep ==
  ASSUME PP!IInv, CallInv, [Next]_vars
  PROVE  CallInv'
<1>1. ASSUME UNCHANGED <<todo, call, hpc>> PROVE CallInv'
  BY <1>1 DEF CallInv, DumpsLast, StopsUnit, Dumping, AtDump, P!Idle
<1>2. CASE UNCHANGED vars
  BY <1>1, <1>2 DEF vars, bufferVars, pathVars
<1>3. CASE Insmod
  <2>1. /\ todo' = PP!enable_junor2_trace /\ call' = "init" /\ hpc' = "idle"
    BY <1>3, PathFunctions DEF Insmod, Begin, CallInv, P!trace_init
  <2> QED
    BY <2>1, CallsDumpLast DEF CallInv, Dumping
<1>4. CASE Rmmod
  <2>1. /\ todo' = PP!disable_junor2_trace /\ call' = "exit" /\ hpc' = "idle"
    BY <1>4, PathFunctions
    DEF Rmmod, Begin, CallInv, P!trace_exit, bufferVars
  <2> QED
    BY <2>1, CallsDumpLast DEF CallInv, Dumping
<1>5. CASE Interrupt
  <2>1. /\ todo' = PP!pause_junor2_trace \o PP!continue_junor2_trace
        /\ call' = "pmi" /\ hpc' = "idle"
    BY <1>5, PathFunctions
    DEF Interrupt, Begin, CallInv, P!pmu_irq_handler, bufferVars
  <2> QED
    BY <2>1, CallsDumpLast DEF CallInv, Dumping
<1>6. CASE InsmodHandler
  BY <1>1, <1>6 DEF InsmodHandler, bufferVars, pathVars
<1>7. CASE Access
  <2>1. todo # << >> /\ todo' = Tail(todo) /\ ~AtDump
    BY <1>7, AccessKeeps DEF Access
  <2>2. UNCHANGED <<call, hpc>> /\ ~Dumping' /\ call' # "none"
    BY <1>7, <2>1 DEF Access, bufferVars, CallInv, Dumping
  <2>3. /\ todo' \in Seq(PP!Access) /\ DumpsLast(todo')
        /\ \A i \in DOMAIN todo' : /\ i + 1 \in DOMAIN todo
                                   /\ todo'[i] = todo[i + 1]
    BY <2>1, TailKeeps DEF CallInv
  <2> QED
    BY <2>2, <2>3 DEF CallInv, DumpsLast, StopsUnit
<1>8. ASSUME AtDump PROVE call \notin {"none", "init"}
  <2>1. todo # << >> /\ todo \in Seq(PP!Access)
    BY <1>8 DEF AtDump, P!Idle, CallInv
  <2>2. 1 \in DOMAIN todo /\ Head(todo) = todo[1]
    BY <2>1
  <2> QED
    BY <1>8, <2>1, <2>2 DEF AtDump, CallInv
<1>9. CASE DumpBegin \/ DumpLock \/ DumpStep
  <2>1. UNCHANGED <<todo, call>>
    BY <1>9, DumpStepLeaves
  <2>2. AtDump /\ hpc' \notin {"idle", "resume"}
    BY <1>9, HandlerMoves DEF CallInv, Dumping
  <2>3. call' \notin {"none", "init"} /\ AtDump'
    BY <1>8, <2>1, <2>2 DEF AtDump, P!Idle
  <2> QED
    BY <2>1, <2>2, <2>3 DEF CallInv, DumpsLast, StopsUnit
<1>10. CASE DumpReturn
  <2>1. AtDump /\ todo' = Tail(todo) /\ hpc' = "resume" /\ call' = call
    BY <1>10, DumpEmpties, HandlerMoves DEF DumpReturn
  <2>2. todo # << >> /\ todo \in Seq(PP!Access) /\ DumpsLast(todo)
    BY <2>1 DEF AtDump, P!Idle, CallInv
  <2>3. /\ todo' \in Seq(PP!Access) /\ DumpsLast(todo')
        /\ \A i \in DOMAIN todo' : ~StopsUnit(todo'[i])
    BY <2>1, <2>2, TailKeeps DEF AtDump
  <2> QED
    BY <1>8, <2>1, <2>3 DEF CallInv, DumpsLast, StopsUnit, Dumping
<1>11. CASE Return
  <2>1. todo' = todo /\ todo = << >> /\ call' = "none"
    BY <1>11 DEF Return, P!Idle, pathVars
  <2>2. hpc' = "idle"
    BY <1>11, HandlerMoves DEF CallInv
  <2> QED
    BY <2>1, <2>2 DEF CallInv, DumpsLast, StopsUnit, Dumping
<1>12. CASE Emit \/ Move \/ Settle
  <2>1. UNCHANGED <<call, hpc>>
    BY <1>12 DEF Emit, Move, Settle, bufferVars
  <2>2. UNCHANGED todo
    BY <1>12, EmitAdds, MoveHandsOn, SettleKeeps
  <2> QED
    BY <1>1, <2>1, <2>2
<1>13. ASSUME NEW r \in Readers, Read(r) PROVE CallInv'
  BY <1>1, <1>13, ReadLeaves
<1> QED
  BY <1>2, <1>3, <1>4, <1>5, <1>6, <1>7, <1>9, <1>10, <1>11, <1>12, <1>13
  DEF Next

LEMMA RrdReads ==
  ASSUME B!ReadRrd, etf \in Nat, rrd \in Nat
  PROVE  /\ rrd' + etf' = rrd + etf /\ etf' \in Nat
         /\ result' = End => etf' = 0
<1>1. CASE etf = 0
  <2>1. etf' = 0 /\ rrd' = rrd
    BY <1>1 DEF B!ReadRrd
  <2> QED
    BY <1>1, <2>1
<1>2. CASE etf # 0
  <2>1. result' = rrd /\ rrd' = rrd + 1 /\ etf' = etf - 1
    BY <1>2 DEF B!ReadRrd
  <2>2. rrd # End
    BY BufferConstants DEF BP!ConstantsAssumption
  <2> QED
    BY <1>2, <2>1, <2>2
<1> QED
  BY <1>1, <1>2

LEMMA EtfStep ==
  ASSUME BP!IInv, CallInv, EtfInv, [Next]_vars
  PROVE  EtfInv'
<1>1. ASSUME UNCHANGED <<hpc, etf, result>> PROVE EtfInv'
  BY <1>1 DEF EtfInv
<1>2. CASE UNCHANGED vars
  BY <1>1, <1>2 DEF vars, bufferVars
<1>3. CASE Insmod
  BY <1>1, <1>3 DEF Insmod
<1>4. CASE Rmmod \/ InsmodHandler \/ Interrupt \/ Access \/ Emit \/ Move
           \/ Settle
  BY <1>1, <1>4
  DEF Rmmod, InsmodHandler, Interrupt, Access, Emit, Move, Settle, bufferVars
<1>5. CASE DumpBegin \/ DumpReturn \/ Return
  BY <1>5, <1>1, HandlerMoves DEF EtfInv, Return, bufferVars
<1>6. CASE DumpLock
  BY <1>6, HandlerMoves DEF DumpLock, B!DumpLock, EtfInv
<1>7. CASE DumpStep
  <2>1. etf \in Nat /\ rrd \in Nat
    BY BufferConstants DEF BP!IInv, BP!TypeOK, BP!ConstantsAssumption
  <2>2. CASE B!DumpFirst
    BY <2>1, <2>2, RrdReads DEF B!DumpFirst, B!HandlerGoto, EtfInv
  <2>3. CASE B!DumpWord
    BY <2>1, <2>3, RrdReads DEF B!DumpWord, B!HandlerGoto, EtfInv
  <2>4. CASE B!DumpEnd
    BY <2>4 DEF B!DumpEnd, B!HandlerGoto, EtfInv
  <2> QED
    BY <1>7, <2>2, <2>3, <2>4 DEF DumpStep
<1>8. ASSUME NEW r \in Readers, Read(r) PROVE EtfInv'
  BY <1>1, <1>8, ReadLeaves
<1> QED
  BY <1>2, <1>3, <1>4, <1>5, <1>6, <1>7, <1>8 DEF Next

LEMMA DrainedStep ==
  ASSUME PP!IInv, CallInv, StaysDrained, [Next]_vars
  PROVE  StaysDrained'
<1>1. ASSUME UNCHANGED <<hpc, hw>> PROVE StaysDrained'
  BY <1>1 DEF StaysDrained
<1>2. CASE UNCHANGED vars
  BY <1>1, <1>2 DEF vars, bufferVars, pathVars
<1>3. CASE Insmod \/ Rmmod \/ InsmodHandler \/ Interrupt
  BY <1>1, <1>3
  DEF Insmod, Rmmod, InsmodHandler, Interrupt, bufferVars, pathVars,
      P!trace_init, P!trace_exit, P!pmu_irq_handler
<1>4. CASE Access
  <2>1. /\ todo # << >> /\ hpc' = hpc
        /\ \A u \in {"etm", "etf0"} : hw'[u].held = hw[u].held
        /\ hw["etm"].on /\ ~hw'["etm"].on => StopsUnit(Head(todo))
    BY <1>4, AccessKeeps DEF Access, bufferVars
  <2>2. 1 \in DOMAIN todo /\ Head(todo) = todo[1]
    BY <2>1 DEF CallInv
  <2> QED
    BY <2>1, <2>2 DEF StaysDrained, CallInv
<1>5. CASE DumpBegin \/ DumpLock \/ DumpStep
  BY <1>5, HandlerMoves DEF StaysDrained
<1>6. CASE DumpReturn
  BY <1>6, DumpEmpties, DumpFinds DEF StaysDrained
<1>7. CASE Return
  BY <1>1, <1>7, HandlerMoves DEF StaysDrained, Return, pathVars
<1>8. CASE Emit
  BY <1>8, EmitAdds DEF Emit, bufferVars, StaysDrained
<1>9. CASE Move
  <2>1. hpc' = hpc
    BY <1>9 DEF Move, bufferVars
  <2>2. /\ hw["etm"].held > 0 /\ (hw'["etm"].on <=> hw["etm"].on)
    BY <1>9, MoveHandsOn
  <2> QED
    BY <2>1, <2>2 DEF StaysDrained
<1>10. CASE Settle
  BY <1>10, SettleKeeps DEF Settle, bufferVars, StaysDrained
<1>11. ASSUME NEW r \in Readers, Read(r) PROVE StaysDrained'
  BY <1>1, <1>11, ReadLeaves
<1> QED
  BY <1>2, <1>3, <1>4, <1>5, <1>6, <1>7, <1>8, <1>9, <1>10, <1>11 DEF Next

LEMMA LostStep ==
  ASSUME PP!IInv, PP!IInv', BP!IInv, CallInv, EtfInv, CountInv, EachWordOnce,
         [Next]_vars
  PROVE  CountInv' /\ EachWordOnce'
<1> DEFINE InSink == IF Dumping THEN etf ELSE hw["etf0"].held
<1>1. /\ \A u \in {"etm", "etf0"} : hw[u].held \in Nat /\ hw'[u].held \in Nat
      /\ etf \in Nat /\ rrd \in Nat /\ RamWords \in Nat /\ MaxWords \in Nat
  <2>1. hw' \in [PP!Units -> PP!UnitState]
    BY DEF PP!IInv, PP!HwInv
  <2>2. \A u \in {"etm", "etf0"} : hw'[u] \in PP!UnitState
    BY <2>1, PathNames
  <2>3. (IF FifoWords > RamWords THEN FifoWords ELSE RamWords) \in Nat
    BY PathConstants DEF PP!PathAssumption
  <2>4. \A u \in {"etm", "etf0"} : hw'[u].held \in Nat
    BY <2>2, <2>3 DEF PP!UnitState
  <2>5. RamWords \in Nat /\ etf \in 0 .. RamWords /\ rrd \in Nat
    BY BufferConstants DEF BP!IInv, BP!TypeOK, BP!ConstantsAssumption
  <2> QED
    BY <2>4, <2>5, HwTypes, SystemAssumption
<1>2. emitted = hw["etm"].held + lost + (rrd - 1) + InSink
  BY PathNames DEF EachWordOnce
<1>3. ASSUME emitted' = hw'["etm"].held + lost' + (rrd' - 1) + InSink'
      PROVE  EachWordOnce'
  BY <1>3, PathNames DEF EachWordOnce
<1>4. ASSUME UNCHANGED <<hw, etf, rrd, emitted, lost>>, UNCHANGED Dumping
      PROVE  EachWordOnce'
  BY <1>2, <1>3, <1>4
<1>5. ASSUME UNCHANGED <<handler, call, emitted, lost, hw>> PROVE CountInv'
  BY <1>5 DEF CountInv
<1>6. ASSUME UNCHANGED hpc PROVE UNCHANGED Dumping
  BY <1>6 DEF Dumping
<1>7. CASE UNCHANGED vars
  BY <1>4, <1>5, <1>6, <1>7 DEF vars, bufferVars, pathVars, history
<1>8. CASE Insmod \/ Rmmod \/ InsmodHandler \/ Interrupt
  <2>1. UNCHANGED <<hw, etf, rrd, emitted, lost, hpc>>
    BY <1>8 DEF Insmod, Rmmod, InsmodHandler, Interrupt, bufferVars, pathVars,
                history, P!trace_init, P!trace_exit, P!pmu_irq_handler
  <2>2. handler' \in {handler, TRUE} /\ call' \in {call, "init", "exit", "pmi"}
    BY <1>8 DEF Insmod, Rmmod, InsmodHandler, Interrupt, Begin
  <2> QED
    BY <1>4, <1>6, <2>1, <2>2 DEF CountInv
<1>9. CASE Access
  <2>1. /\ \A u \in {"etm", "etf0"} : hw'[u].held = hw[u].held
        /\ UNCHANGED <<etf, rrd, emitted, lost, hpc, handler, call>>
    BY <1>9, AccessKeeps DEF Access, bufferVars, history
  <2> QED
    BY <1>1, <1>2, <1>3, <1>6, <2>1 DEF CountInv
<1>10. CASE DumpBegin
  <2>1. UNCHANGED <<hw, emitted, lost, handler, call>>
    BY <1>10, DumpStepLeaves
  <2>2. etf' = hw["etf0"].held /\ rrd' = rrd
    BY <1>10, PathNames DEF DumpBegin, B!PmiEnter
  <2>3. ~Dumping /\ Dumping'
    BY <1>10, HandlerMoves DEF Dumping
  <2> QED
    BY <1>1, <1>2, <1>3, <1>5, <2>1, <2>2, <2>3
<1>11. CASE DumpLock
  <2>1. UNCHANGED <<hw, emitted, lost, handler, call>>
    BY <1>11, DumpStepLeaves
  <2>2. UNCHANGED <<etf, rrd>>
    BY <1>11 DEF DumpLock, B!DumpLock
  <2>3. Dumping /\ Dumping'
    BY <1>11, HandlerMoves DEF Dumping
  <2> QED
    BY <1>4, <1>5, <2>1, <2>2, <2>3
<1>12. CASE DumpStep
  <2>1. UNCHANGED <<hw, emitted, lost, handler, call>>
    BY <1>12, DumpStepLeaves
  <2>2. rrd' + etf' = rrd + etf /\ rrd' \in Nat /\ etf' \in Nat
    <3>1. CASE B!DumpFirst \/ B!DumpWord
      BY <1>1, <3>1, RrdReads DEF B!DumpFirst, B!DumpWord, B!ReadRrd
    <3>2. CASE B!DumpEnd
      BY <1>1, <3>2 DEF B!DumpEnd
    <3> QED
      BY <1>12, <3>1, <3>2 DEF DumpStep
  <2>3. Dumping /\ Dumping'
    BY <1>12, HandlerMoves DEF Dumping
  <2>4. InSink = etf /\ InSink' = etf'
    BY <2>3
  <2>5. lost \in Nat
    BY DEF CountInv
  <2>6. hw["etm"].held + lost + (rrd - 1) + etf
          = hw'["etm"].held + lost' + (rrd' - 1) + etf'
    <3>1. hw'["etm"].held = hw["etm"].held /\ lost' = lost
      BY <2>1
    <3>2. PICK held \in Nat : held = hw["etm"].held
      BY <1>1
    <3>3. PICK s \in Nat, f \in Nat : s = rrd' /\ f = etf'
      BY <2>2
    <3>4. s + f = rrd + etf
      BY <2>2, <3>3
    <3>5. held + lost + (rrd - 1) + etf = held + lost + (s - 1) + f
      BY <1>1, <2>5, <3>4
    <3> QED
      BY <3>1, <3>2, <3>3, <3>5
  <2>7. EachWordOnce'
    BY <1>2, <1>3, <2>1, <2>4, <2>6
  <2> QED
    BY <1>5, <2>1, <2>7
<1>13. CASE DumpReturn
  <2>1. hw'["etf0"].held = 0 /\ hw'["etm"] = hw["etm"]
    BY <1>13, DumpEmpties
  <2>2. UNCHANGED <<etf, rrd, emitted, lost, handler, call>>
    BY <1>13 DEF DumpReturn, B!DumpUnlock, history
  <2>3. Dumping /\ ~Dumping' /\ etf = 0
    BY <1>13, HandlerMoves DEF Dumping, EtfInv
  <2> QED
    BY <1>1, <1>2, <1>3, <2>1, <2>2, <2>3 DEF CountInv
<1>14. CASE Return
  <2>1. UNCHANGED <<hw, etf, rrd, emitted, lost, handler>> /\ call' = "none"
    BY <1>14 DEF Return, bufferVars, pathVars, history, B!PmiReturn
  <2>2. UNCHANGED Dumping
    BY <1>14, HandlerMoves DEF Dumping
  <2> QED
    BY <1>4, <2>1, <2>2 DEF CountInv
<1>15. CASE Emit
  <2>1. /\ hw'["etf0"] = hw["etf0"] /\ hw'["etm"].held = hw["etm"].held + 1
        /\ emitted < MaxWords /\ emitted' = emitted + 1
        /\ UNCHANGED <<etf, rrd, lost, hpc, handler, call>>
    BY <1>15, EmitAdds DEF Emit, bufferVars
  <2>2. lost \in Nat /\ emitted \in 0 .. MaxWords
    BY DEF CountInv
  <2>3. EachWordOnce'
    BY <1>1, <1>2, <1>3, <1>6, <2>1, <2>2
  <2>4. CountInv'
    BY <1>1, <2>1, <2>2 DEF CountInv
  <2> QED
    BY <2>3, <2>4
<1>16. CASE Move
  <2>1. /\ hw["etf0"].tmc \in {"capturing", "flushing"}
        /\ hw["etm"].held > 0 /\ hw'["etm"].held = hw["etm"].held - 1
        /\ hw'["etf0"].held = IF hw["etf0"].held < RamWords
                              THEN hw["etf0"].held + 1 ELSE hw["etf0"].held
    BY <1>16, MoveHandsOn
  <2>2. /\ UNCHANGED <<etf, rrd, emitted, hpc, handler, call>>
        /\ lost' = IF hw["etf0"].held = RamWords THEN lost + 1 ELSE lost
    BY <1>16, PathNames DEF Move, bufferVars
  <2>3. ~Dumping
    BY <2>1, DumpFinds DEF CallInv
  <2>4. lost \in Nat /\ hw["etf0"].held <= RamWords
    BY DEF CountInv
  <2>5. CASE hw["etf0"].held < RamWords
    BY <1>1, <1>2, <1>3, <1>6, <2>1, <2>2, <2>3, <2>4, <2>5 DEF CountInv
  <2>6. CASE hw["etf0"].held = RamWords
    BY <1>1, <1>2, <1>3, <1>6, <2>1, <2>2, <2>3, <2>4, <2>6 DEF CountInv
  <2> QED
    BY <1>1, <2>4, <2>5, <2>6
<1>17. CASE Settle
  <2>1. /\ hw'["etm"] = hw["etm"] /\ hw'["etf0"].held = hw["etf0"].held
        /\ UNCHANGED <<etf, rrd, emitted, lost, hpc, handler, call>>
    BY <1>17, SettleKeeps DEF Settle, bufferVars, history
  <2> QED
    BY <1>1, <1>2, <1>3, <1>6, <2>1 DEF CountInv
<1>18. ASSUME NEW r \in Readers, Read(r) PROVE CountInv' /\ EachWordOnce'
  BY <1>4, <1>5, <1>6, <1>18, ReadLeaves
<1> QED
  BY <1>7, <1>8, <1>9, <1>10, <1>11, <1>12, <1>13, <1>14, <1>15, <1>16, <1>17,
     <1>18 DEF Next

LEMMA GoneStep ==
  ASSUME ReadersGone, [Next]_vars
  PROVE  ReadersGone'
<1>1. ASSUME UNCHANGED <<loaded, pc>> PROVE ReadersGone'
  BY <1>1 DEF ReadersGone
<1>2. CASE UNCHANGED vars
  BY <1>1, <1>2 DEF vars, bufferVars, pathVars
<1>3. CASE Insmod
  BY <1>3 DEF Insmod, P!trace_init, ReadersGone
<1>4. CASE Rmmod
  BY <1>4 DEF Rmmod, bufferVars, ReadersGone
<1>5. CASE Interrupt \/ InsmodHandler \/ Access \/ Emit \/ Move \/ Settle
  BY <1>1, <1>5
  DEF Interrupt, InsmodHandler, Access, Emit, Move, Settle, bufferVars,
      pathVars, P!pmu_irq_handler, P!Driver, P!WaitReady, P!WaitFlush, P!Dump,
      P!Write, P!Emit, P!Move, P!FlushDone, P!Stopped
<1>6. CASE DumpBegin \/ DumpLock \/ DumpStep
  BY <1>1, <1>6, DumpStepLeaves
<1>7. CASE DumpReturn \/ Return
  BY <1>1, <1>7
  DEF DumpReturn, Return, bufferVars, pathVars, B!DumpUnlock, B!PmiReturn,
      B!readerVars, P!Dump
<1>8. ASSUME NEW r \in Readers, Read(r) PROVE ReadersGone'
  BY <1>8, ReadLeaves DEF ReadersGone
<1> QED
  BY <1>2, <1>3, <1>4, <1>5, <1>6, <1>7, <1>8 DEF Next

(* A new buffer is an empty one that nobody reads or writes yet. *)
LEMMA InsmodKeepsBuffer ==
  ASSUME BP!IInv, CallInv, ReadersGone, Insmod
  PROVE  BP!IInv'
<1>1. /\ mem' = [i \in 0 .. BufWords - 1 |-> Zero]
      /\ write_point' = 0 /\ dumps' = 0
      /\ UNCHANGED <<tbc_lock, pc, read_point, bytes_read, buf, ret, hpc, etf,
                     rrd, result, pmis>>
  BY DEF Insmod
<1>2. hpc = "idle" /\ \A r \in Readers : pc[r] = "idle"
  BY DEF Insmod, Begin, CallInv, ReadersGone, P!trace_init
<1>3. /\ BufWords \in Nat \ {0} /\ RamWords \in Nat /\ MaxPmi \in Nat
      /\ 0 * (RamWords + 1) = 0 /\ pmis \in 0 .. MaxPmi
  BY BufferConstants DEF BP!ConstantsAssumption, BP!IInv, BP!TypeOK
<1>4. BP!TypeOK'
  BY <1>1, <1>3 DEF BP!IInv, BP!TypeOK, BP!Word
<1>5. BP!LockInv' /\ BP!BytesInv' /\ BP!RrdInv'
  BY <1>1 DEF BP!IInv, BP!LockInv, BP!BytesInv, BP!RrdInv
<1>6. BP!CursorInv'
  BY <1>1, <1>2 DEF BP!CursorInv
<1>7. BP!CountInv' /\ BP!FillInv' /\ BP!WholeDumps' /\ BP!BufInv'
  BY <1>1, <1>2, <1>3
  DEF BP!CountInv, BP!FillInv, BP!WholeDumps, BP!BufInv
<1> QED
  BY <1>4, <1>5, <1>6, <1>7 DEF BP!IInv

LEMMA IInvInit == Init => IInv
<1> SUFFICES ASSUME Init PROVE IInv
  OBVIOUS
<1>1. PP!IInv
  BY PathInit, PP!InitInv, PathConstants DEF Init
<1>2. BP!IInv
  BY BufferInit, BP!IInvInit, BufferConstants DEF Init
<1>3. /\ loaded = FALSE /\ todo = << >> /\ hw["etm"] = PP!PowerOn
      /\ hw["etf0"] = PP!PowerOn
  BY PathInit, PathNames DEF Init, PP!Init
<1>4. /\ hpc = "idle" /\ pc = [r \in Readers |-> "idle"] /\ rrd = 1 /\ etf = 0
      /\ result = End
  BY DEF Init, B!Init
<1>5. CallInv
  BY <1>3, <1>4 DEF Init, CallInv, DumpsLast, Dumping
<1>6. EtfInv /\ StaysDrained /\ ReadersGone
  BY <1>3, <1>4 DEF EtfInv, StaysDrained, ReadersGone
<1>7. CountInv /\ EachWordOnce
  <2>1. hw["etm"].held = 0 /\ hw["etf0"].held = 0
    BY <1>3 DEF PP!PowerOn
  <2>2. RamWords \in Nat /\ MaxWords \in Nat
    BY SystemAssumption, PathConstants DEF PP!PathAssumption
  <2>3. handler = FALSE /\ call = "none" /\ emitted = 0 /\ lost = 0
    BY DEF Init
  <2>4. CountInv
    <3>1. hw["etf0"].held <= RamWords /\ 0 \in 0 .. MaxWords /\ 0 \in Nat
      BY <2>1, <2>2
    <3> QED
      BY <2>3, <3>1 DEF CountInv
  <2>5. EachWordOnce
    BY <1>4, <2>1, <2>3, PathNames DEF EachWordOnce, Dumping
  <2> QED
    BY <2>4, <2>5
<1> QED
  BY <1>1, <1>2, <1>5, <1>6, <1>7 DEF IInv

LEMMA IInvStep == IInv /\ [Next]_vars => IInv'
<1> SUFFICES ASSUME IInv, [Next]_vars PROVE IInv'
  OBVIOUS
<1>1. /\ PP!IInv /\ BP!IInv /\ CallInv /\ EtfInv /\ StaysDrained
      /\ ReadersGone /\ CountInv /\ EachWordOnce
  BY DEF IInv
<1>2. PP!IInv'
  BY <1>1, PathStep, PP!NextInv, PathConstants
<1>3. BP!IInv'
  BY <1>1, BufferStep, BP!IInvStep, BufferConstants, InsmodKeepsBuffer
<1>4. CallInv' /\ EtfInv' /\ StaysDrained' /\ ReadersGone'
  BY <1>1, CallStep, EtfStep, DrainedStep, GoneStep
<1>5. CountInv' /\ EachWordOnce'
  BY <1>1, <1>2, LostStep
<1> QED
  BY <1>2, <1>3, <1>4, <1>5 DEF IInv

LEMMA IInvAlways == Spec => []IInv
  BY IInvInit, IInvStep, PTL DEF Spec

-----------------------------------------------------------------------------
(* The theorems. *)

LEMMA BufferTypes == B!TypeOK <=> BP!TypeOK
  BY DEF B!TypeOK, BP!TypeOK, B!Word, BP!Word, B!ReaderPc, BP!ReaderPc,
         B!Unsleepy, BP!Unsleepy, B!HandlerPc, BP!HandlerPc, B!EFAULT,
         BP!EFAULT

LEMMA PathTypes == P!TypeOK <=> PP!TypeOK
<1>1. P!UnitState = PP!UnitState
  BY DEF P!UnitState, PP!UnitState, P!Config, PP!Config
<1> QED
  BY <1>1, PathSets DEF P!TypeOK, PP!TypeOK

LEMMA InvType == IInv => TypeOK
<1> SUFFICES ASSUME IInv PROVE TypeOK
  OBVIOUS
<1>1. B!TypeOK
  BY BufferTypes DEF IInv, BP!IInv
<1>2. P!TypeOK
  BY PathTypes, PP!InvType, PathConstants DEF IInv
<1>3. lost \in 0 .. MaxWords
  <2>1. /\ emitted \in 0 .. MaxWords /\ lost \in Nat /\ MaxWords \in Nat
        /\ hw["etm"].held \in Nat /\ hw["etf0"].held \in Nat
    BY HwTypes, SystemAssumption DEF IInv, CountInv
  <2>2. etf \in Nat /\ rrd \in Nat \ {0}
    BY BufferConstants DEF IInv, BP!IInv, BP!TypeOK, BP!ConstantsAssumption
  <2>3. PICK n \in Nat : n = IF Dumping THEN etf ELSE hw["etf0"].held
    BY <2>1, <2>2
  <2>4. emitted = hw["etm"].held + lost + (rrd - 1) + n
    BY <2>3, PathNames DEF IInv, EachWordOnce
  <2>5. lost <= emitted
    BY <2>1, <2>2, <2>4
  <2> QED
    BY <2>1, <2>5
<1> QED
  BY <1>1, <1>2, <1>3 DEF IInv, CountInv, TypeOK

(* TypeOK of TraceSystem: no more words are overwritten than were emitted, *)
(* and the types of both components hold in the composition.               *)
THEOREM TypeCorrect == Spec => []TypeOK
  BY IInvAlways, InvType, PTL

LEMMA InvSinkStopped == IInv => SinkStopped
  BY DumpFinds, PathNames DEF IInv, CallInv, SinkStopped

(* What TraceBuffer takes for granted: while a dump reads the sink, spins  *)
(* for the lock included, the trace unit is off, no word is on its way and *)
(* the sink has stopped.                                                   *)
THEOREM SinkHasStopped == Spec => []SinkStopped
  BY IInvAlways, InvSinkStopped, PTL

(* Every word is in one place: what the trace unit has emitted             *)
(* is in the unit, in the sink, overwritten there, or read out.            *)
THEOREM WordsAreCounted == Spec => []EachWordOnce
<1>1. IInv => EachWordOnce
  BY DEF IInv
<1> QED
  BY <1>1, IInvAlways, PTL

LEMMA InvPathDrained == IInv => PathDrained
<1> SUFFICES ASSUME IInv PROVE PathDrained
  OBVIOUS
<1>1. ASSUME hpc = "resume", ~hw[P!Etm].on PROVE rrd - 1 + lost = emitted
  <2>1. hw["etm"].held = 0 /\ hw["etf0"].held = 0
    BY <1>1, PathNames DEF IInv, StaysDrained
  <2>2. ~Dumping
    BY <1>1 DEF Dumping
  <2>3. emitted = 0 + lost + (rrd - 1) + 0
    BY <2>1, <2>2, PathNames DEF IInv, EachWordOnce
  <2>4. lost \in Nat /\ rrd \in Nat
    BY DEF IInv, CountInv, BP!IInv, BP!TypeOK
  <2> QED
    BY <2>3, <2>4
<1>2. ASSUME ~loaded, call = "none", NEW u \in P!Stores
      PROVE  ~hw[u].on /\ hw[u].held = 0
  <2>1. PP!JunoInv /\ PP!Idle
    BY <1>2 DEF IInv, CallInv, PP!IInv, PP!Idle
  <2>2. PP!JunoStop(15)
    BY <1>2, <2>1, PP!JunoIdle, PathConstants
  <2>3. PP!Done(15, 0, 5) = 5 /\ PP!Done(15, 7, 8) = 8
    BY DEF PP!Done
  <2>4. /\ ~hw["etm"].on /\ hw["etm"].held = 0
        /\ ~hw["etf0"].on /\ hw["etf0"].held = 0
    BY <2>2, <2>3
    DEF PP!JunoStop, PP!EtmOff, PP!SinkOff, PP!TmcOff, PP!Flushed
  <2> QED
    BY <2>4, PathNames
<1> QED
  BY <1>1, <1>2 DEF PathDrained

(* When a dump is over nothing emitted before it is left in the path, and  *)
(* the registers that trace_exit unmaps belong to units that are off and   *)
(* empty.                                                                  *)
THEOREM PathIsDrained == Spec => []PathDrained
  BY IInvAlways, InvPathDrained, PTL

(* The buffer of TraceBuffer, proved there under interrupts that find any  *)
(* number of words, is the system's buffer too, over any number of insmod  *)
(* and rmmod: mutual exclusion, readers that meet write_point, whole dumps *)
(* and the bound of its filling.                                           *)
THEOREM BufferIsSafe ==
  Spec => [](B!LockInv /\ B!CursorInv /\ B!WholeDumps /\ B!FillBound)
<1>1. IInv => B!LockInv /\ B!CursorInv /\ B!WholeDumps
  BY DEF IInv, BP!IInv, B!LockInv, BP!LockInv, B!Holding, BP!Holding,
         B!CursorInv, BP!CursorInv, B!WholeDumps, BP!WholeDumps
<1>2. IInv => B!FillBound
  <2> SUFFICES ASSUME IInv PROVE B!FillBound
    OBVIOUS
  <2>1. BP!FillInv /\ BP!TypeOK
    BY DEF IInv, BP!IInv
  <2>2. CASE hpc # "store"
    BY <2>1, <2>2 DEF BP!FillInv, B!FillBound
  <2>3. CASE hpc = "store"
    <3>1. BP!StillToStore \in Nat /\ write_point \in Nat
      BY <2>1, BufferConstants
      DEF BP!StillToStore, BP!TypeOK, BP!ConstantsAssumption
    <3>2. PICK n \in Nat : n = dumps * (RamWords + 1)
      BY <2>1, BufferConstants DEF BP!TypeOK, BP!ConstantsAssumption
    <3>3. write_point + BP!StillToStore + 1 <= n
      BY <2>1, <2>3, <3>2 DEF BP!FillInv
    <3> QED
      BY <3>1, <3>2, <3>3 DEF B!FillBound
  <2> QED
    BY <2>2, <2>3
<1> QED
  BY <1>1, <1>2, IInvAlways, PTL
=============================================================================
