---------------------------- MODULE TraceSystem ----------------------------
(***************************************************************************)
(* demo.ko and pmi_handler.ko on Juno as a whole: the trace path of        *)
(* TracePath, whose words end up in the sink etf0, and the buffer of       *)
(* TraceBuffer, which a dump fills from the sink and tasks read.  The one  *)
(* call that runs (trace_init, trace_exit or the interrupt) makes the      *)
(* register accesses of TracePath; when it comes to the dump it takes the  *)
(* dump's steps of TraceBuffer, with as many words as the sink holds, and  *)
(* TracePath's Dump is the end of them.  Hardware and readers go on        *)
(* meanwhile.                                                              *)
(*                                                                         *)
(* trace_exit disables the path, and so dumps, when no task can have the   *)
(* device open (TraceModule).  PmiEnter to PmiReturn then stand for that   *)
(* dump as well.                                                           *)
(***************************************************************************)
EXTENDS Integers, Sequences

CONSTANTS
  Readers, CPUs, CpuOf, PmiCpu, BufWords, MaxPmi,  \* see TraceBuffer; MaxPmi
  End, Zero, Foreign, Free, Handler,               \* bounds all dumps
  FifoWords, RamWords, OsLockStops,                \* see TracePath
  MaxWords  \* bound: words the trace unit emits in a behaviour

VARIABLES
  mem, write_point, tbc_lock, pc, read_point, bytes_read, buf, ret,
  hpc, etf, rrd, result, pmis, dumps,  \* see TraceBuffer
  loaded, todo, hw,                    \* see TracePath
  handler,  \* pmi_handler.ko is loaded; it stays (README.md:70)
  call,     \* the call that runs: "none", "init", "exit" or "pmi"
  emitted,  \* history: words the trace unit has emitted
  lost      \* history: words overwritten in the full sink

B == INSTANCE TraceBuffer WITH EtfWords <- RamWords

P == INSTANCE TracePath WITH
  Platforms <- {"JUNOR2"}, platform <- "JUNOR2", LockGates <- TRUE

ASSUME SystemAssumption ==
  /\ B!ConstantsAssumption
  /\ P!PathAssumption
  /\ MaxWords \in Nat

bufferVars == <<mem, write_point, tbc_lock, pc, read_point, bytes_read, buf,
                ret, hpc, etf, rrd, result, pmis, dumps>>
pathVars == <<loaded, todo, hw>>
history  == <<emitted, lost>>
vars == <<bufferVars, pathVars, handler, call, history>>

Init ==
  /\ B!Init /\ P!Init
  /\ handler = FALSE /\ call = "none"
  /\ emitted = 0 /\ lost = 0

-----------------------------------------------------------------------------
(* Calls                                                                   *)

Begin(c) == call = "none" /\ call' = c

(* trace_init: a new, empty buffer, then the path *)
Insmod ==
  /\ Begin("init") /\ P!trace_init
  /\ mem' = [i \in 0 .. BufWords - 1 |-> Zero]
  /\ write_point' = 0 /\ dumps' = 0
  /\ UNCHANGED <<tbc_lock, pc, read_point, bytes_read, buf, ret, hpc, etf, rrd,
                 result, pmis, handler, history>>

(* trace_exit: nobody has the device open, no module needs demo.ko. *)
Rmmod ==
  /\ ~handler /\ pmis < MaxPmi
  /\ \A r \in Readers : pc[r] = "idle"
  /\ Begin("exit") /\ P!trace_exit
  /\ UNCHANGED <<bufferVars, handler, history>>

InsmodHandler ==
  /\ loaded /\ call = "none" /\ ~handler
  /\ handler' = TRUE
  /\ UNCHANGED <<bufferVars, pathVars, call, history>>

Interrupt ==
  /\ handler /\ pmis < MaxPmi
  /\ Begin("pmi") /\ P!pmu_irq_handler
  /\ UNCHANGED <<bufferVars, handler, history>>

AtDump == ~P!Idle /\ Head(todo).op = "dump"

(* A register access that is not the dump. *)
Access ==
  /\ ~AtDump /\ P!Driver
  /\ UNCHANGED <<bufferVars, handler, call, history>>

(* tmc_dump_etf_sink is called: it will find what the sink holds. *)
DumpBegin ==
  /\ AtDump /\ B!PmiEnter
  /\ etf' = hw[P!Sink].held
  /\ UNCHANGED <<pathVars, handler, call, history>>

DumpLock ==
  /\ B!DumpLock
  /\ UNCHANGED <<pathVars, handler, call, history>>

DumpStep ==
  /\ B!DumpFirst \/ B!DumpWord \/ B!DumpEnd
  /\ UNCHANGED <<pathVars, handler, call, history>>

DumpReturn ==
  /\ B!DumpUnlock /\ P!Dump
  /\ UNCHANGED <<handler, call, history>>

(* The call comes to its end. *)
Return ==
  /\ call # "none" /\ P!Idle
  /\ call' = "none"
  /\ IF call = "init" THEN UNCHANGED bufferVars ELSE B!PmiReturn
  /\ UNCHANGED <<pathVars, handler, history>>

-----------------------------------------------------------------------------
(* Hardware and readers                                                    *)

Emit ==
  /\ emitted < MaxWords /\ P!Emit
  /\ emitted' = emitted + 1
  /\ UNCHANGED <<bufferVars, handler, call, lost>>

(* The only stores on Juno's path are its ends. *)
Move ==
  /\ P!Move(1, 4)
  /\ lost' = IF hw[P!Sink].held = RamWords THEN lost + 1 ELSE lost
  /\ UNCHANGED <<bufferVars, handler, call, emitted>>

Settle ==
  /\ P!FlushDone(4) \/ P!Stopped(4)
  /\ UNCHANGED <<bufferVars, handler, call, history>>

(* The device is there, and its processor is not in the interrupt. *)
CanRead(r) ==
  /\ loaded
  /\ CpuOf[r] = PmiCpu => call # "pmi"
  /\ UNCHANGED <<pathVars, handler, call, history>>

Read(r)     == B!ReaderStep(r) /\ CanRead(r)
InRead(r)   == B!InCall(r) /\ CanRead(r)
ReadLock(r) == B!ReadLock(r) /\ CanRead(r)

-----------------------------------------------------------------------------
Next ==
  \/ Insmod \/ Rmmod \/ InsmodHandler \/ Interrupt
  \/ Access \/ DumpBegin \/ DumpLock \/ DumpStep \/ DumpReturn \/ Return
  \/ Emit \/ Move \/ Settle
  \/ \E r \in Readers : Read(r)

Spec == Init /\ [][Next]_vars

(* The fairness of both components; no step of the environment has to come *)
(* (modules, interrupts, words, calls of read).                            *)
Fairness ==
  /\ WF_vars(Access \/ DumpBegin \/ DumpStep \/ DumpReturn \/ Return)
  /\ SF_vars(DumpLock)
  /\ WF_vars(Move) /\ WF_vars(Settle)
  /\ \A r \in Readers : WF_vars(InRead(r)) /\ SF_vars(ReadLock(r))

FairSpec == Spec /\ Fairness

-----------------------------------------------------------------------------
Dumping == hpc \in {"first", "spin", "store", "unlock"}

(* Types of all variables. *)
TypeOK ==
  /\ B!TypeOK /\ P!TypeOK
  /\ handler \in BOOLEAN
  /\ call \in {"none", "init", "exit", "pmi"}
  /\ emitted \in 0 .. MaxWords /\ lost \in 0 .. MaxWords

(* TraceBuffer takes the ETF for a store that only a dump's reads change.  *)
(* The path guarantees it, between any two reads of RRD and while the dump *)
(* spins for a reader's lock: the trace unit is off, no word is on its     *)
(* way, and the sink has stopped.                                          *)
SinkStopped ==
  Dumping =>
    /\ ~hw[P!Etm].on /\ hw[P!Etm].held = 0
    /\ hw[P!Sink].on /\ hw[P!Sink].tmc = "ready"

(* Every word the trace unit has emitted is in the unit, in the sink,      *)
(* overwritten there because the sink was full, or has been read out of    *)
(* RRD, each once: switching the path off, draining it and switching it on *)
(* again drops and doubles nothing.  What a dump does with a word it has   *)
(* read is not counted here: it may store it past the end of the buffer    *)
(* (TraceLog's Foreign), and the dump of trace_exit goes into a buffer     *)
(* that is freed next and that nobody reads.                               *)
EachWordOnce ==
  emitted = hw[P!Etm].held + lost + (rrd - 1)
            + (IF Dumping THEN etf ELSE hw[P!Sink].held)

(* When a dump is over, nothing emitted before it is left in the path, and *)
(* when trace_exit has returned, trace unit and sink are off and empty and *)
(* their registers can be unmapped (the funnels stay open: funnel_disable  *)
(* writes to a locked unit).                                               *)
PathDrained ==
  /\ hpc = "resume" /\ ~hw[P!Etm].on => rrd - 1 + lost = emitted
  /\ ~loaded /\ call = "none" =>
       \A u \in P!Stores : ~hw[u].on /\ hw[u].held = 0

(* Every call comes to its end: the waits for the hardware, with           *)
(* interrupts off, and the dump's wait for the lock a reader holds.        *)
CallsReturn == call # "none" ~> call = "none"

(* A read that found words comes back to its caller, whatever interrupts   *)
(* and dumps come in between.                                              *)
ReadsReturn == B!ReadReturns
=============================================================================
