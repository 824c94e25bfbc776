----------------------------- MODULE WordQueue -----------------------------
(***************************************************************************)
(* What /dev/cs_device promises to tasks that write and read it: a first   *)
(* in, first out queue of 32 bit words.  A read takes the oldest word and  *)
(* hands it over, a read that returns 0 found the queue empty, and a write *)
(* either appends its word or leaves the queue alone.                      *)
(*                                                                         *)
(* The queue is as weak as the driver makes it in two places: a word that  *)
(* cannot be handed over is lost, and only the first Room words appended   *)
(* since the queue was last found empty are kept.  Whoever reads one of    *)
(* the others gets Foreign for it.                                         *)
(***************************************************************************)
EXTENDS Integers, Sequences

CONSTANTS
  Tasks,    \* tasks that have /dev/cs_device open
  Words,    \* what they write
  Room,     \* words the buffer holds
  Foreign   \* memory that is not the buffer's

VARIABLES
  queue,    \* the words written and not yet taken, oldest first
  used,     \* words appended since the last rewind, kept or not
  bring,    \* bring[t]: the word t's write brings and has not yet appended
  taken,    \* taken[t]: the word t's read has taken and not yet handed over
  buf,      \* buf[t]: the word in t's buffer
  ret       \* ret[t]: what t's last finished call returned

vars == <<queue, used, bring, taken, buf, ret>>

None   == 0      \* no word
EFAULT == -14    \* the code returns -EFAULT
WordSize == 4

Init ==
  /\ queue = << >>
  /\ used = 0
  /\ bring = [t \in Tasks |-> None]
  /\ taken = [t \in Tasks |-> None]
  /\ buf = [t \in Tasks |-> None]
  /\ ret = [t \in Tasks |-> 0]

Bring(t, w) ==
  /\ bring[t] = None
  /\ bring' = [bring EXCEPT ![t] = w]
  /\ UNCHANGED <<queue, used, taken, buf, ret>>

Put(t) ==
  /\ bring[t] # None
  /\ queue' = Append(queue, IF used < Room THEN bring[t] ELSE Foreign)
  /\ used' = used + 1
  /\ bring' = [bring EXCEPT ![t] = None]
  /\ ret' = [ret EXCEPT ![t] = WordSize]
  /\ UNCHANGED <<taken, buf>>

Refuse(t) ==
  /\ ret' = [ret EXCEPT ![t] = EFAULT]
  /\ UNCHANGED <<queue, used, bring, taken, buf>>

Take(t) ==
  /\ queue # << >> /\ taken[t] = None
  /\ taken' = [taken EXCEPT ![t] = Head(queue)]
  /\ queue' = Tail(queue)
  /\ UNCHANGED <<used, bring, buf, ret>>

HandOver(t) ==
  /\ taken[t] # None
  /\ buf' = [buf EXCEPT ![t] = taken[t]]
  /\ taken' = [taken EXCEPT ![t] = None]
  /\ ret' = [ret EXCEPT ![t] = WordSize]
  /\ UNCHANGED <<queue, used, bring>>

Lose(t) ==
  /\ taken[t] # None
  /\ taken' = [taken EXCEPT ![t] = None]
  /\ ret' = [ret EXCEPT ![t] = EFAULT]
  /\ UNCHANGED <<queue, used, bring, buf>>

(* A read that finds the queue empty makes all places free again. *)
Rewind ==
  /\ queue = << >>
  /\ used' = 0
  /\ UNCHANGED <<queue, bring, taken, buf, ret>>

FindEmpty(t) ==
  /\ queue = << >>
  /\ ret' = [ret EXCEPT ![t] = 0]
  /\ UNCHANGED <<queue, used, bring, taken, buf>>

Next ==
  \/ Rewind
  \/ \E t \in Tasks :
       \/ \E w \in Words : Bring(t, w)
       \/ Put(t) \/ Refuse(t)
       \/ Take(t) \/ HandOver(t) \/ Lose(t) \/ FindEmpty(t)

Spec == Init /\ [][Next]_vars
=============================================================================
