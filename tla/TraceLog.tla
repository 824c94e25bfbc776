------------------------------ MODULE TraceLog ------------------------------
(***************************************************************************)
(* What the tasks that read /dev/cs_trace_buffer get, without pointers,    *)
(* lock or interrupt: a log of trace words.  The interrupt side stores     *)
(* words; a read takes the whole log at once and returns its length in     *)
(* bytes; a read that faults takes nothing; a read that returns 0 found    *)
(* the log empty.                                                          *)
(*                                                                         *)
(* Two limits of the device are part of the log.  There are Room places:   *)
(* a word stored when they are all in use is not kept, and whoever looks   *)
(* at its place finds Foreign.  And of the words it takes a read hands     *)
(* over only the last, because every word is copied to the first place of  *)
(* the caller's buffer.                                                    *)
(*                                                                         *)
(* Trace words are numbered in the order in which the ETF captured them,   *)
(* so storing word number `last + 1` says: no word is skipped, repeated or *)
(* moved on its way from the ETF to the log.  End is the 0xffffffff word   *)
(* that closes every dump.                                                 *)
(***************************************************************************)
EXTENDS Integers, Sequences

CONSTANTS
  Readers,   \* tasks with /dev/cs_trace_buffer open
  Room,      \* words the log can keep
  End,       \* the closing word of a dump
  Foreign    \* what is found in place of a word that was not kept

VARIABLES
  pending,   \* the words stored and not yet taken, oldest first
  last,      \* number of the last trace word stored
  claimed,   \* claimed[r]: bytes that r's read has taken and not yet returned
  handed,    \* handed[r]: the words in the buffer r passed to read
  ret        \* ret[r]: what r's last finished read returned

vars == <<pending, last, claimed, handed, ret>>

None   == -1     \* claimed[r] when r has taken nothing
EFAULT == -14    \* the code returns -EFAULT
BytesPerWord == 4

Init ==
  /\ pending = << >>
  /\ last = 0
  /\ claimed = [r \in Readers |-> None]
  /\ handed = [r \in Readers |-> << >>]
  /\ ret = [r \in Readers |-> 0]

Kept(word) == IF Len(pending) < Room THEN word ELSE Foreign

StoreWord ==
  /\ pending' = Append(pending, Kept(last + 1))
  /\ last' = last + 1
  /\ UNCHANGED <<claimed, handed, ret>>

StoreEnd ==
  /\ pending' = Append(pending, Kept(End))
  /\ UNCHANGED <<last, claimed, handed, ret>>

(* A read begins with an empty buffer of its caller's. *)
Begin(r) ==
  /\ claimed[r] = None
  /\ handed' = [handed EXCEPT ![r] = << >>]
  /\ UNCHANGED <<pending, last, claimed, ret>>

Take(r) ==
  /\ claimed[r] = None
  /\ claimed' = [claimed EXCEPT ![r] = BytesPerWord * Len(pending)]
  /\ handed' = [handed EXCEPT ![r] = IF pending = << >> THEN << >>
                                     ELSE <<pending[Len(pending)]>>]
  /\ pending' = << >>
  /\ UNCHANGED <<last, ret>>

Return(r) ==
  /\ claimed[r] # None
  /\ ret' = [ret EXCEPT ![r] = claimed[r]]
  /\ claimed' = [claimed EXCEPT ![r] = None]
  /\ UNCHANGED <<pending, last, handed>>

ReturnEmpty(r) ==
  /\ claimed[r] = None
  /\ pending = << >>
  /\ ret' = [ret EXCEPT ![r] = 0]
  /\ UNCHANGED <<pending, last, claimed, handed>>

(* A failing read takes nothing, but has shown one of the words it passed. *)
ReturnFault(r) ==
  /\ claimed[r] = None
  /\ \E shown \in {<< >>} \union {<<pending[i]>> : i \in 1 .. Len(pending)} :
       handed' = [handed EXCEPT ![r] = shown]
  /\ ret' = [ret EXCEPT ![r] = EFAULT]
  /\ UNCHANGED <<pending, last, claimed>>

Next ==
  \/ StoreWord
  \/ StoreEnd
  \/ \E r \in Readers :
       \/ Begin(r) \/ Take(r) \/ Return(r)
       \/ ReturnEmpty(r) \/ ReturnFault(r)

Spec == Init /\ [][Next]_vars
=============================================================================
