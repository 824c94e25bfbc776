---------------------------- MODULE TraceBuffer ----------------------------
(***************************************************************************)
(* The trace buffer of demo.ko and everything that touches it at run time: *)
(* user tasks inside cs_read (trace.c) and the PMI handler, whose pause    *)
(* call dumps the ETF into the buffer (pmi_handler.c, connect.c,           *)
(* tmc-etf.c).  Both sides take tbc_lock: cs_read with spin_lock, which    *)
(* leaves interrupts on, the dump with spin_lock_irqsave.                  *)
(*                                                                         *)
(* One step is one access to shared state.  Offsets into the buffer count  *)
(* 32 bit words from paddr; trace words are numbered in capture order.     *)
(***************************************************************************)
EXTENDS Integers, Sequences

CONSTANTS
  Readers,    \* tasks with /dev/cs_trace_buffer open
  CPUs,       \* processors
  CpuOf,      \* CpuOf[r]: the processor task r runs on (tasks are pinned)
  PmiCpu,     \* the processor that takes interrupt pmu_irqs[1]
  BufWords,   \* device_buffer_size / 4
  EtfWords,   \* most words one dump finds in the ETF
  MaxPmi,     \* bound: interrupts taken in a behaviour
  End,        \* 0xffffffff, what RRD returns when the ETF has been read out
  Zero,       \* a cleared word
  Foreign,    \* whatever lies in memory past the buffer
  Free,       \* tbc_lock when nobody holds it
  Handler     \* tbc_lock when the dump holds it

ASSUME ConstantsAssumption ==
  /\ CpuOf \in [Readers -> CPUs]
  /\ PmiCpu \in CPUs
  /\ BufWords \in Nat \ {0}
  /\ EtfWords \in Nat
  /\ MaxPmi \in Nat
  /\ End \notin Nat /\ Zero # End /\ Foreign # End
  /\ Free # Handler /\ Free \notin Readers /\ Handler \notin Readers

VARIABLES
  mem,          \* the kmalloc'ed buffer behind paddr
  write_point,  \* offset of write_point
  tbc_lock,     \* Free, Handler or the reader that holds the lock
  pc,           \* pc[r]: where r is in cs_read
  read_point,   \* read_point[r]: offset of r's local read_point
  bytes_read,   \* bytes_read[r]: r's local byte count
  buf,          \* buf[r]: the words r finds in the buffer it passed to read
  ret,          \* ret[r]: what r's last finished read returned
  hpc,          \* where the PMI handler is, "idle" when it is not running
  etf,          \* words the stopped ETF still holds
  rrd,          \* number of the next word RRD delivers
  result,       \* the dump's local result
  pmis,         \* interrupts taken so far
  dumps         \* history: dumps that stored into the buffer since its reset

readerVars  == <<pc, read_point, bytes_read, buf, ret>>
handlerVars == <<hpc, etf, rrd, result, pmis>>
vars == <<mem, write_point, tbc_lock, readerVars, handlerVars, dumps>>

EFAULT == -14
BytesPerWord == 4

Word == Nat \union {End, Zero, Foreign}

Holding   == {"copy", "asleep", "leave", "clear", "unlock"}
Unsleepy  == {"spin", "copy", "leave", "clear", "unlock"}
ReaderPc  == {"idle", "asleep"} \union Unsleepy
HandlerPc == {"idle", "first", "spin", "store", "unlock", "resume"}

Init ==
  /\ mem = [i \in 0 .. BufWords - 1 |-> Zero]
  /\ write_point = 0
  /\ tbc_lock = Free
  /\ pc = [r \in Readers |-> "idle"]
  /\ read_point = [r \in Readers |-> 0]
  /\ bytes_read = [r \in Readers |-> 0]
  /\ buf = [r \in Readers |-> << >>]
  /\ ret = [r \in Readers |-> 0]
  /\ hpc = "idle"
  /\ etf = 0
  /\ rrd = 1
  /\ result = End
  /\ pmis = 0
  /\ dumps = 0

-----------------------------------------------------------------------------
(* Scheduling.  A task runs only while the handler is not on its           *)
(* processor, and while no other task of that processor has preemption     *)
(* off: spin_lock turns it off before the first attempt, and only a task   *)
(* that blocks on a page fault inside copy_to_user gives the processor up. *)

Runs(r) ==
  /\ CpuOf[r] = PmiCpu => hpc = "idle"
  /\ \A q \in Readers \ {r} : CpuOf[q] = CpuOf[r] => pc[q] \notin Unsleepy

Goto(r, from, to) ==
  /\ pc[r] = from
  /\ Runs(r)
  /\ pc' = [pc EXCEPT ![r] = to]

-----------------------------------------------------------------------------
(* cs_read                                                                 *)

(* The empty test, made before the lock is taken: nothing to read. *)
ReadEmpty(r) ==
  /\ write_point = 0
  /\ Goto(r, "idle", "idle")
  /\ ret' = [ret EXCEPT ![r] = 0]
  /\ UNCHANGED <<mem, write_point, tbc_lock, read_point, bytes_read, buf,
                 handlerVars, dumps>>

(* The empty test found words: on to spin_lock.  read_point and bytes_read *)
(* are initialised on entry, and buf is the caller's untouched buffer.     *)
ReadStart(r) ==
  /\ write_point # 0
  /\ Goto(r, "idle", "spin")
  /\ read_point' = [read_point EXCEPT ![r] = 0]
  /\ bytes_read' = [bytes_read EXCEPT ![r] = 0]
  /\ buf' = [buf EXCEPT ![r] = << >>]
  /\ UNCHANGED <<mem, write_point, tbc_lock, ret, handlerVars, dumps>>

(* Mutant of ReadLock: the lock is taken without waiting for it. *)
ReadLockNoWait(r) ==
  /\ Goto(r, "spin", "copy")
  /\ tbc_lock' = r
  /\ UNCHANGED <<mem, write_point, read_point, bytes_read, buf, ret,
                 handlerVars, dumps>>

ReadLock(r) ==
  /\ tbc_lock = Free
  /\ Goto(r, "spin", "copy")
  /\ tbc_lock' = r
  /\ UNCHANGED <<mem, write_point, read_point, bytes_read, buf, ret,
                 handlerVars, dumps>>

(* copy_to_user touches a page that is not there and the task sleeps,      *)
(* lock in hand, until the page arrives; the copy is then made or fails.   *)
ReadSleep(r) ==
  /\ read_point[r] # write_point
  /\ Goto(r, "copy", "asleep")
  /\ UNCHANGED <<mem, write_point, tbc_lock, read_point, bytes_read, buf, ret,
                 handlerVars, dumps>>

(* The word at read_point: past the buffer it is somebody else's memory.   *)
WordAt(i) == IF i < BufWords THEN mem[i] ELSE Foreign

(* One round of the loop.  The destination is always buf itself, so the    *)
(* word lands in the first place of the caller's buffer.                   *)
ReadCopy(r) ==
  /\ read_point[r] # write_point
  /\ Goto(r, "copy", "copy") \/ Goto(r, "asleep", "copy")
  /\ buf' = [buf EXCEPT ![r] = <<WordAt(read_point[r])>>]
  /\ read_point' = [read_point EXCEPT ![r] = @ + 1]
  /\ bytes_read' = [bytes_read EXCEPT ![r] = @ + BytesPerWord]
  /\ UNCHANGED <<mem, write_point, tbc_lock, ret, handlerVars, dumps>>

(* Mutant of ReadFault: returns without spin_unlock. *)
ReadFaultLocked(r) ==
  /\ read_point[r] # write_point
  /\ Goto(r, "copy", "idle") \/ Goto(r, "asleep", "idle")
  /\ ret' = [ret EXCEPT ![r] = EFAULT]
  /\ UNCHANGED <<mem, write_point, tbc_lock, read_point, bytes_read, buf,
                 handlerVars, dumps>>

(* Mutant of ReadFault: resets the buffer on its way out. *)
ReadFaultReset(r) ==
  /\ read_point[r] # write_point
  /\ Goto(r, "copy", "idle") \/ Goto(r, "asleep", "idle")
  /\ tbc_lock' = Free
  /\ write_point' = 0
  /\ ret' = [ret EXCEPT ![r] = EFAULT]
  /\ UNCHANGED <<mem, read_point, bytes_read, buf, handlerVars, dumps>>

(* Mutant of ReadFault: an error code that is not the documented one. *)
ReadFaultCode(r) ==
  /\ read_point[r] # write_point
  /\ Goto(r, "copy", "idle") \/ Goto(r, "asleep", "idle")
  /\ tbc_lock' = Free
  /\ ret' = [ret EXCEPT ![r] = -1]
  /\ UNCHANGED <<mem, write_point, read_point, bytes_read, buf,
                 handlerVars, dumps>>

(* copy_to_user fails: unlock and return -EFAULT, buffer kept. *)
ReadFault(r) ==
  /\ read_point[r] # write_point
  /\ Goto(r, "copy", "idle") \/ Goto(r, "asleep", "idle")
  /\ tbc_lock' = Free
  /\ ret' = [ret EXCEPT ![r] = EFAULT]
  /\ UNCHANGED <<mem, write_point, read_point, bytes_read, buf,
                 handlerVars, dumps>>

(* Mutant of ReadLeave: the lock is dropped after the loop. *)
ReadLeaveUnlocked(r) ==
  /\ read_point[r] = write_point
  /\ Goto(r, "copy", "leave")
  /\ tbc_lock' = Free
  /\ UNCHANGED <<mem, write_point, read_point, bytes_read, buf, ret,
                 handlerVars, dumps>>

(* The loop test read_point != write_point fails. *)
ReadLeave(r) ==
  /\ read_point[r] = write_point
  /\ Goto(r, "copy", "leave")
  /\ UNCHANGED <<mem, write_point, tbc_lock, read_point, bytes_read, buf, ret,
                 handlerVars, dumps>>

(* write_point = paddr *)
ReadReset(r) ==
  /\ Goto(r, "leave", "clear")
  /\ write_point' = 0
  /\ dumps' = 0
  /\ UNCHANGED <<mem, tbc_lock, read_point, bytes_read, buf, ret, handlerVars>>

(* memset(paddr, 0, device_buffer_size) *)
ReadClear(r) ==
  /\ Goto(r, "clear", "unlock")
  /\ mem' = [i \in 0 .. BufWords - 1 |-> Zero]
  /\ UNCHANGED <<write_point, tbc_lock, read_point, bytes_read, buf, ret,
                 handlerVars, dumps>>

ReadReturn(r) ==
  /\ Goto(r, "unlock", "idle")
  /\ tbc_lock' = Free
  /\ ret' = [ret EXCEPT ![r] = bytes_read[r]]
  /\ UNCHANGED <<mem, write_point, read_point, bytes_read, buf,
                 handlerVars, dumps>>

-----------------------------------------------------------------------------
(* pmu_irq_handler: cs_trace_pause, then cs_trace_continue                 *)

HandlerGoto(from, to) ==
  /\ hpc = from
  /\ hpc' = to

(* The interrupt arrives whatever the interrupted task is doing, and the   *)
(* trace path is stopped: the ETF holds what it captured since last time.  *)
PmiEnter ==
  /\ pmis < MaxPmi
  /\ HandlerGoto("idle", "first")
  /\ pmis' = pmis + 1
  /\ etf' \in 0 .. EtfWords
  /\ UNCHANGED <<mem, write_point, tbc_lock, readerVars, rrd, result, dumps>>

(* result = ioread32(base + TMC_RRD) *)
ReadRrd ==
  IF etf = 0
  THEN result' = End /\ UNCHANGED <<etf, rrd>>
  ELSE result' = rrd /\ rrd' = rrd + 1 /\ etf' = etf - 1

(* tmc_dump_etf_sink reads RRD once before it takes the lock. *)
DumpFirst ==
  /\ HandlerGoto("first", "spin")
  /\ ReadRrd
  /\ UNCHANGED <<mem, write_point, tbc_lock, readerVars, pmis, dumps>>

DumpLock ==
  /\ tbc_lock = Free
  /\ HandlerGoto("spin", "store")
  /\ tbc_lock' = Handler
  /\ dumps' = dumps + 1
  /\ UNCHANGED <<mem, write_point, readerVars, etf, rrd, result, pmis>>

(* iowrite32(result, write_point); write_point += 4.  There is no limit:   *)
(* past the buffer the word goes to memory that is not part of it.         *)
StoreResult ==
  /\ mem' = IF write_point < BufWords
            THEN [mem EXCEPT ![write_point] = result]
            ELSE mem
  /\ write_point' = write_point + 1

DumpWord ==
  /\ result # End
  /\ HandlerGoto("store", "store")
  /\ StoreResult
  /\ ReadRrd
  /\ UNCHANGED <<tbc_lock, readerVars, pmis, dumps>>

(* Mutant of DumpEnd: the closing word is not stored. *)
DumpEndSilent ==
  /\ result = End
  /\ HandlerGoto("store", "unlock")
  /\ UNCHANGED <<mem, write_point, tbc_lock, readerVars, etf, rrd, result,
                 pmis, dumps>>

(* Mutant of DumpEnd: the closing word is stored again and again. *)
DumpEndTwice ==
  /\ result = End
  /\ HandlerGoto("store", "unlock") \/ HandlerGoto("store", "store")
  /\ StoreResult
  /\ UNCHANGED <<tbc_lock, readerVars, etf, rrd, result, pmis, dumps>>

(* Mutant of DumpEnd: the loop also ends at the last place of the buffer.  *)
DumpEndFull ==
  /\ result = End \/ write_point >= BufWords - 1
  /\ HandlerGoto("store", "unlock")
  /\ StoreResult
  /\ UNCHANGED <<tbc_lock, readerVars, etf, rrd, result, pmis, dumps>>

(* The loop ends at End, which is stored as well. *)
DumpEnd ==
  /\ result = End
  /\ HandlerGoto("store", "unlock")
  /\ StoreResult
  /\ UNCHANGED <<tbc_lock, readerVars, etf, rrd, result, pmis, dumps>>

DumpUnlock ==
  /\ HandlerGoto("unlock", "resume")
  /\ tbc_lock' = Free
  /\ UNCHANGED <<mem, write_point, readerVars, etf, rrd, result, pmis, dumps>>

(* The rest of the pause, cs_trace_continue, the cycle counter, return. *)
PmiReturn ==
  /\ HandlerGoto("resume", "idle")
  /\ UNCHANGED <<mem, write_point, tbc_lock, readerVars, etf, rrd, result,
                 pmis, dumps>>

-----------------------------------------------------------------------------
InCall(r) ==
  \/ ReadCopy(r) \/ ReadFault(r) \/ ReadLeave(r)
  \/ ReadReset(r) \/ ReadClear(r) \/ ReadReturn(r)

ReaderStep(r) ==
  ReadEmpty(r) \/ ReadStart(r) \/ ReadLock(r) \/ ReadSleep(r) \/ InCall(r)

InHandler == DumpFirst \/ DumpWord \/ DumpEnd \/ DumpUnlock \/ PmiReturn

Next ==
  \/ \E r \in Readers : ReaderStep(r)
  \/ PmiEnter
  \/ DumpLock
  \/ InHandler

Spec == Init /\ [][Next]_vars

(* A processor keeps executing the call or handler it is in; a page that   *)
(* was asked for arrives; arm64 spinlocks are queued, so whoever spins for *)
(* a lock that keeps being released gets it.  Nobody has to call read, and *)
(* no interrupt has to come.                                               *)
Fairness ==
  /\ \A r \in Readers : WF_vars(InCall(r)) /\ SF_vars(ReadLock(r))
  /\ WF_vars(InHandler)
  /\ SF_vars(DumpLock)

FairSpec == Spec /\ Fairness

-----------------------------------------------------------------------------
(* Types of all variables. *)
TypeOK ==
  /\ mem \in [0 .. BufWords - 1 -> Word]
  /\ write_point \in Nat
  /\ tbc_lock \in Readers \union {Free, Handler}
  /\ pc \in [Readers -> ReaderPc]
  /\ read_point \in [Readers -> Nat]
  /\ bytes_read \in [Readers -> Nat]
  /\ buf \in [Readers -> Seq(Word)]
  /\ ret \in [Readers -> Nat \union {EFAULT}]
  /\ hpc \in HandlerPc
  /\ etf \in 0 .. EtfWords
  /\ rrd \in Nat \ {0}
  /\ result \in Nat \union {End}
  /\ pmis \in 0 .. MaxPmi
  /\ dumps \in 0 .. MaxPmi

(* Mutual exclusion in the buffer: the lock word names exactly the one     *)
(* party that is between its spin_lock and its spin_unlock, over the       *)
(* cs_read calls of all tasks and the interrupt's dump.                    *)
LockInv ==
  /\ \A r \in Readers : pc[r] \in Holding <=> tbc_lock = r
  /\ hpc \in {"store", "unlock"} <=> tbc_lock = Handler

(* The copy loop of cs_read tests read_point != write_point, so it stops   *)
(* only if read_point cannot jump over write_point: nobody moves           *)
(* write_point below the cursor of a reader in its loop, a reader that has *)
(* left the loop still stands at write_point, and once it has reset        *)
(* write_point nothing is stored until it has cleared the memory.          *)
CursorInv ==
  \A r \in Readers :
    /\ pc[r] \in {"copy", "asleep"} => read_point[r] <= write_point
    /\ pc[r] = "leave" => read_point[r] = write_point
    /\ pc[r] \in {"clear", "unlock"} => write_point = 0

(* A reader that resets the buffer throws away only words it has copied,   *)
(* and will report all of them: a dump never stores between the last test  *)
(* of the copy loop and write_point = paddr.                               *)
ResetLosesNothing ==
  [][write_point' < write_point =>
       \E r \in Readers : /\ pc[r] = "leave"
                          /\ read_point[r] = write_point
                          /\ bytes_read[r] = BytesPerWord * write_point]_vars

(* Outside the storing loop of a dump the buffer ends with a complete      *)
(* dump: a reader that takes the buffer finds the closing 0xffffffff last, *)
(* never half a dump.                                                      *)
WholeDumps ==
  hpc # "store" /\ write_point \in 1 .. BufWords
    => mem[write_point - 1] = End

(* How far write_point can get: each dump since the last reset adds at     *)
(* most the contents of the ETF and the closing word.  The buffer is large *)
(* enough for k dumps between two reads if BufWords >= k * (EtfWords + 1). *)
FillBound == write_point <= dumps * (EtfWords + 1)

(* A read that started comes back to its caller: it gets the lock, leaves  *)
(* its loop, unlocks.                                                      *)
ReadReturns == \A r \in Readers : pc[r] = "spin" ~> pc[r] = "idle"

(* The interrupt handler finishes: its dump gets the lock and stops        *)
(* reading the ETF.                                                        *)
HandlerReturns == hpc # "idle" ~> hpc = "idle"

(* README.md:31 says that the trace data can be written to the buffer's    *)
(* address directly and that a spin lock between reading and writing is    *)
(* all that is needed: every store then lands in the buffer.               *)
StoresInBounds == write_point <= BufWords

(* README.md:2 says that the trace data can be read out in user space      *)
(* through the device: the bytes a read reports are in the buffer the task *)
(* passed to it.                                                           *)
ReadDelivers ==
  \A r \in Readers :
    pc[r] = "idle" /\ ret[r] > 0 => BytesPerWord * Len(buf[r]) = ret[r]

-----------------------------------------------------------------------------
(* The buffer implements the log of TraceLog.  The log is what a reader    *)
(* finds below write_point; a read has taken it from the moment it resets  *)
(* write_point, and returns it when it unlocks.  What lies in the caller's *)
(* buffer counts from then on, or from the moment the read fails.          *)
LastStored ==
  IF hpc \in {"spin", "store"} /\ result # End THEN result - 1 ELSE rrd - 1

Pending == [i \in 1 .. write_point |-> WordAt(i - 1)]

Claimed ==
  [r \in Readers |->
     IF pc[r] \in {"clear", "unlock"} THEN bytes_read[r] ELSE -1]

Handed ==
  [r \in Readers |->
     IF pc[r] \in {"idle", "clear", "unlock"} THEN buf[r] ELSE << >>]

Log == INSTANCE TraceLog WITH
  Room <- BufWords, pending <- Pending, last <- LastStored,
  claimed <- Claimed, handed <- Handed, ret <- ret

(* Every step of readers and handler is one step of the log or none: words *)
(* reach the log in capture order while it has room, each is counted in    *)
(* the return value of one read, a failed read loses nothing, a read that  *)
(* returns 0 found the log empty, and of the words it counts a read hands  *)
(* over exactly the last one.                                              *)
ImplementsLog == Log!Spec
=============================================================================
