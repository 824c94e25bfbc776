------------------------------ MODULE CsDevice ------------------------------
(***************************************************************************)
(* /dev/cs_device (mount_cs_device.c): tasks write single words into a     *)
(* buffer and read them back one at a time.  Cursors and buffer are shared *)
(* by all calls and there is no lock, so every access to one of them is a  *)
(* step; a statement that changes a cursor by 4 is a load and a store.     *)
(*                                                                         *)
(* The words are numbered as they are written, which shows loss,           *)
(* repetition and reordering.  Cursors are offsets from paddr in words.    *)
(***************************************************************************)
EXTENDS Integers, Sequences

CONSTANTS
  Tasks,      \* user tasks with the device open
  BufWords,   \* device_buffer_size, in words
  MaxWrites,  \* bound on the calls of write
  Careful,    \* TRUE: the tasks see to it which of their calls overlap
  Zero,       \* a word of a cleared buffer
  Torn,       \* a word of which only a part could be copied
  Foreign     \* memory that is not the buffer's

ASSUME DeviceAssumption ==
  /\ BufWords \in Nat \ {0} /\ MaxWrites \in Nat
  /\ Careful \in BOOLEAN
  /\ {Zero, Torn, Foreign} \cap Int = {}

VARIABLES
  mem,          \* the buffer
  read_point,
  write_point,
  pc,           \* pc[t]: where t is in its call
  val,          \* val[t]: the word a read fetched or a write brings
  reg,          \* reg[t]: a cursor that was loaded to be moved
  buf,          \* buf[t]: the word in t's buffer
  ret,          \* ret[t]: what t's last finished call returned
  written       \* number of words the tasks have tried to write

cursors == <<read_point, write_point>>
vars == <<mem, cursors, pc, val, reg, buf, ret, written>>

None   == 0
EFAULT == -14
WordSize == 4
Words == 1 .. MaxWrites
Offsets == 0 .. BufWords - 1
Values == Words \union {None, Zero, Torn, Foreign}

WordAt(i) == IF i \in Offsets THEN mem[i] ELSE Foreign

Cleared == [i \in Offsets |-> Zero]

Store(i, w) == IF i \in Offsets THEN [mem EXCEPT ![i] = w] ELSE mem

(* mount_cs_device_init *)
Init ==
  /\ mem = Cleared
  /\ read_point = 0 /\ write_point = 0
  /\ pc = [t \in Tasks |-> "user"]
  /\ val = [t \in Tasks |-> None]
  /\ reg = [t \in Tasks |-> 0]
  /\ buf = [t \in Tasks |-> None]
  /\ ret = [t \in Tasks |-> 0]
  /\ written = 0

Step(t, from, to) == pc[t] = from /\ pc' = [pc EXCEPT ![t] = to]

(* Where a call is that found a word to read, one that found none, and a   *)
(* write.                                                                  *)
Fetching  == {"fetch", "load_read", "store_read", "copy"}
Rewinding == {"rewind_write", "rewind_read", "clear"}
Writing   == {"load_write", "store_write"}

(* Nothing in the driver keeps calls apart.  Careful tasks make at most    *)
(* one call of write and one of read at a time, and call read beside a     *)
(* write only when they know of a word to read.                            *)
Beside(t, others) ==
  Careful => \A u \in Tasks \ {t} : pc[u] \in {"user"} \union others

Return(t, from, result) ==
  /\ Step(t, from, "user")
  /\ ret' = [ret EXCEPT ![t] = result]

-----------------------------------------------------------------------------
(* cs_read                                                                 *)

(* read_point == write_point *)
ReadEmpty(t) ==
  /\ read_point = write_point
  /\ Beside(t, {})
  /\ Step(t, "user", "rewind_write")
  /\ UNCHANGED <<mem, cursors, val, reg, buf, ret, written>>

(* write_point = paddr *)
RewindWrite(t) ==
  /\ Step(t, "rewind_write", "rewind_read")
  /\ write_point' = 0
  /\ UNCHANGED <<mem, read_point, val, reg, buf, ret, written>>

(* Mutant of RewindRead: read_point stays behind. *)
RewindReadNot(t) ==
  /\ Step(t, "rewind_read", "clear")
  /\ UNCHANGED <<mem, cursors, val, reg, buf, ret, written>>

(* read_point = paddr *)
RewindRead(t) ==
  /\ Step(t, "rewind_read", "clear")
  /\ read_point' = 0
  /\ UNCHANGED <<mem, write_point, val, reg, buf, ret, written>>

(* memset, return 0 *)
ReadClear(t) ==
  /\ Return(t, "clear", 0)
  /\ mem' = Cleared
  /\ UNCHANGED <<cursors, val, reg, buf, written>>

(* read_point != write_point *)
ReadFound(t) ==
  /\ read_point # write_point
  /\ Beside(t, Writing)
  /\ Step(t, "user", "fetch")
  /\ UNCHANGED <<mem, cursors, val, reg, buf, ret, written>>

(* val = ioread32(read_point) *)
ReadFetch(t) ==
  /\ Step(t, "fetch", "load_read")
  /\ val' = [val EXCEPT ![t] = WordAt(read_point)]
  /\ UNCHANGED <<mem, cursors, reg, buf, ret, written>>

(* read_point += data_size *)
LoadReadPoint(t) ==
  /\ Step(t, "load_read", "store_read")
  /\ reg' = [reg EXCEPT ![t] = read_point]
  /\ UNCHANGED <<mem, cursors, val, buf, ret, written>>

StoreReadPoint(t) ==
  /\ Step(t, "store_read", "copy")
  /\ read_point' = reg[t] + 1
  /\ UNCHANGED <<mem, write_point, val, reg, buf, ret, written>>

(* copy_to_user, return data_size *)
ReadCopy(t) ==
  /\ Return(t, "copy", WordSize)
  /\ buf' = [buf EXCEPT ![t] = val[t]]
  /\ UNCHANGED <<mem, cursors, val, reg, written>>

(* Mutant of ReadFault: the minus of -EFAULT is forgotten. *)
ReadFaultCode(t) ==
  /\ Return(t, "copy", -EFAULT)
  /\ UNCHANGED <<mem, cursors, val, reg, buf, written>>

(* copy_to_user fails: return -EFAULT, the cursor has been moved *)
ReadFault(t) ==
  /\ Return(t, "copy", EFAULT)
  /\ UNCHANGED <<mem, cursors, val, reg, buf, written>>

-----------------------------------------------------------------------------
(* cs_write.  The word goes where write_point is when the copy is made.    *)

WriteCopy(t) ==
  /\ written < MaxWrites
  /\ Beside(t, Fetching)
  /\ Step(t, "user", "load_write")
  /\ mem' = Store(write_point, written + 1)
  /\ written' = written + 1
  /\ val' = [val EXCEPT ![t] = written + 1]
  /\ UNCHANGED <<cursors, reg, buf, ret>>

(* copy_from_user fails: what could not be copied is filled with zeros.    *)
WriteFault(t) ==
  /\ written < MaxWrites
  /\ Beside(t, Fetching)
  /\ pc[t] = "user"
  /\ mem' = Store(write_point, Torn)
  /\ written' = written + 1
  /\ ret' = [ret EXCEPT ![t] = EFAULT]
  /\ UNCHANGED <<cursors, pc, val, reg, buf>>

(* write_point += data_size *)
LoadWritePoint(t) ==
  /\ Step(t, "load_write", "store_write")
  /\ reg' = [reg EXCEPT ![t] = write_point]
  /\ UNCHANGED <<mem, cursors, val, buf, ret, written>>

StoreWritePoint(t) ==
  /\ Return(t, "store_write", WordSize)
  /\ write_point' = reg[t] + 1
  /\ UNCHANGED <<mem, read_point, val, reg, buf, written>>

-----------------------------------------------------------------------------
ReadStep(t) ==
  \/ ReadEmpty(t) \/ RewindWrite(t) \/ RewindRead(t) \/ ReadClear(t)
  \/ ReadFound(t) \/ ReadFetch(t) \/ LoadReadPoint(t) \/ StoreReadPoint(t)
  \/ ReadCopy(t) \/ ReadFault(t)

WriteStep(t) ==
  WriteCopy(t) \/ WriteFault(t) \/ LoadWritePoint(t) \/ StoreWritePoint(t)

Next == \E t \in Tasks : ReadStep(t) \/ WriteStep(t)

Spec == Init /\ [][Next]_vars

-----------------------------------------------------------------------------
TypeOK ==
  /\ mem \in [Offsets -> Values]
  /\ read_point \in Nat /\ write_point \in Nat
  /\ pc \in [Tasks -> {"user"} \union Fetching \union Rewinding \union Writing]
  /\ val \in [Tasks -> Values]
  /\ reg \in [Tasks -> Nat]
  /\ buf \in [Tasks -> Values]
  /\ ret \in [Tasks -> {0, WordSize, EFAULT}]
  /\ written \in 0 .. MaxWrites

(* The words of the queue are those between the cursors; while a call that *)
(* found them equal rewinds them there are none, and a word that was       *)
(* copied in joins when write_point has moved behind it.                   *)
Queued ==
  IF \E t \in Tasks : pc[t] \in {"rewind_read", "clear"} THEN << >>
  ELSE [i \in 1 .. write_point - read_point |-> WordAt(read_point + i - 1)]

Brought ==
  [t \in Tasks |-> IF pc[t] \in Writing THEN val[t] ELSE None]

(* A read has taken its word once read_point has moved. *)
Taken == [t \in Tasks |-> IF pc[t] = "copy" THEN val[t] ELSE None]

Queue == INSTANCE WordQueue
           WITH Room <- BufWords, queue <- Queued, used <- write_point,
                bring <- Brought, taken <- Taken

(* In the hands of careful tasks the device is a queue, a reader and a     *)
(* writer at work at the same time included: every word that still found   *)
(* room since the last rewind is read once and in order, and a read that   *)
(* returns 0 has found no word, across any number of rewinds.              *)
ImplementsQueue == Queue!Spec

(* mount_cs_device.c:44 says of the branch that returns 0 that there is no *)
(* data to read: when a read rewinds the cursors and returns 0, no word    *)
(* is between them.                                                        *)
ZeroMeansNoData ==
  [][\A t \in Tasks : RewindWrite(t) => read_point = write_point]_vars
=============================================================================
