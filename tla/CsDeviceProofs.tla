--------------------------- MODULE CsDeviceProofs ---------------------------
(***************************************************************************)
(* Proofs about CsDevice, for any number of tasks, any size of the buffer  *)
(* and any number of words, those that run past its end included.  Types   *)
(* hold whatever the tasks do; that the device is a queue needs careful    *)
(* tasks, a reader and a writer of which may be at work at the same time.  *)
(***************************************************************************)
EXTENDS CsDevice, SequenceTheorems, TLAPS

Fetched == {"load_read", "store_read"}

(* Which calls run at the same time: a read that found a word and a write. *)
Apart ==
  \A t, u \in Tasks :
    t # u /\ pc[t] # "user" /\ pc[u] # "user" =>
      \/ pc[t] \in Fetching /\ pc[u] \in Writing
      \/ pc[u] \in Fetching /\ pc[t] \in Writing

(* Where the cursors are at each step of a call. *)
CursorInv ==
  /\ (\A t \in Tasks : pc[t] \notin Rewinding) => read_point <= write_point
  /\ \A t \in Tasks :
       /\ pc[t] = "rewind_write" => read_point = write_point
       /\ pc[t] = "rewind_read" => write_point = 0
       /\ pc[t] = "clear" => read_point = 0 /\ write_point = 0
       /\ pc[t] \in Fetching \ {"copy"} => read_point < write_point
       /\ pc[t] = "store_read" => reg[t] = read_point
       /\ pc[t] = "store_write" => reg[t] = write_point

(* What is between the cursors: words. *)
ContentInv ==
  \A i \in Offsets : read_point <= i /\ i < write_point => mem[i] \in Words

(* The word a call has in val, and where it is in the buffer.              *)
WordInv ==
  \A t \in Tasks :
    /\ pc[t] \in Fetched => val[t] = WordAt(read_point)
    /\ pc[t] = "copy" => val[t] # None
    /\ pc[t] \in Writing =>
         val[t] \in Words /\ (write_point \in Offsets => mem[write_point] = val[t])

IInv == TypeOK /\ Apart /\ CursorInv /\ ContentInv /\ WordInv
-----------------------------------------------------------------------------
(* The steps of Next, by name. *)
LEMMA NextCases ==
  ASSUME Next
  PROVE  \E t \in Tasks :
           \/ ReadEmpty(t) \/ RewindWrite(t) \/ RewindRead(t) \/ ReadClear(t)
           \/ ReadFound(t) \/ ReadFetch(t) \/ LoadReadPoint(t)
           \/ StoreReadPoint(t) \/ ReadCopy(t) \/ ReadFault(t)
           \/ WriteCopy(t) \/ WriteFault(t)
           \/ LoadWritePoint(t) \/ StoreWritePoint(t)
  BY DEF Next, ReadStep, WriteStep

(* Memory that is read is a word or something that is none. *)
LEMMA WordAtType ==
  ASSUME TypeOK, NEW i \in Nat
  PROVE  WordAt(i) \in Values
  BY DEF TypeOK, WordAt, Values

LEMMA StoreType ==
  ASSUME TypeOK, NEW i \in Nat, NEW w \in Values
  PROVE  Store(i, w) \in [Offsets -> Values]
  BY DEF TypeOK, Store

LEMMA TypeInit == Init => TypeOK
  BY DeviceAssumption DEF Init, TypeOK, Cleared, Values, Offsets, None

LEMMA TypeStep ==
  ASSUME TypeOK, [Next]_vars
  PROVE  TypeOK'
<1> USE DEF TypeOK, Step, Fetching, Rewinding, Writing
<1>1. CASE UNCHANGED vars
  BY <1>1 DEF vars, cursors
<1>2. ASSUME NEW t \in Tasks, ReadEmpty(t) PROVE TypeOK'
  BY <1>2 DEF ReadEmpty, cursors
<1>3. ASSUME NEW t \in Tasks, RewindWrite(t) PROVE TypeOK'
  BY <1>3 DEF RewindWrite
<1>4. ASSUME NEW t \in Tasks, RewindRead(t) PROVE TypeOK'
  BY <1>4 DEF RewindRead
<1>5. ASSUME NEW t \in Tasks, ReadClear(t) PROVE TypeOK'
  BY <1>5 DEF ReadClear, Return, cursors, Cleared, Values
<1>6. ASSUME NEW t \in Tasks, ReadFetch(t) PROVE TypeOK'
  BY <1>6, WordAtType DEF ReadFetch, cursors
<1>7. ASSUME NEW t \in Tasks, LoadReadPoint(t) PROVE TypeOK'
  BY <1>7 DEF LoadReadPoint, cursors
<1>8. ASSUME NEW t \in Tasks, StoreReadPoint(t) PROVE TypeOK'
  BY <1>8 DEF StoreReadPoint
<1>9. ASSUME NEW t \in Tasks, ReadCopy(t) PROVE TypeOK'
  BY <1>9 DEF ReadCopy, Return, cursors
<1>10. ASSUME NEW t \in Tasks, ReadFault(t) PROVE TypeOK'
  BY <1>10 DEF ReadFault, Return, cursors
<1>11. ASSUME NEW t \in Tasks, WriteCopy(t) PROVE TypeOK'
  <2>1. written + 1 \in Values /\ written' \in 0 .. MaxWrites
    BY <1>11, DeviceAssumption DEF WriteCopy, Values, Words
  <2>2. mem' \in [Offsets -> Values]
    BY <1>11, <2>1, StoreType DEF WriteCopy
  <2> QED
    BY <1>11, <2>1, <2>2 DEF WriteCopy, cursors
<1>12. ASSUME NEW t \in Tasks, WriteFault(t) PROVE TypeOK'
  <2>1. Torn \in Values /\ written' \in 0 .. MaxWrites
    BY <1>12, DeviceAssumption DEF WriteFault, Values
  <2>2. mem' \in [Offsets -> Values]
    BY <1>12, <2>1, StoreType DEF WriteFault
  <2> QED
    BY <1>12, <2>1, <2>2 DEF WriteFault, cursors
<1>13. ASSUME NEW t \in Tasks, LoadWritePoint(t) PROVE TypeOK'
  BY <1>13 DEF LoadWritePoint, cursors
<1>14. ASSUME NEW t \in Tasks, StoreWritePoint(t) PROVE TypeOK'
  BY <1>14 DEF StoreWritePoint, Return
<1>15. ASSUME NEW t \in Tasks, ReadFound(t) PROVE TypeOK'
  BY <1>15 DEF ReadFound, cursors
<1> QED
  BY <1>1, <1>2, <1>3, <1>4, <1>5, <1>6, <1>7, <1>8, <1>9, <1>10, <1>11,
     <1>12, <1>13, <1>14, <1>15, NextCases

(* Types of all variables, however the calls overlap. *)
THEOREM TypeCorrect == Spec => []TypeOK
<1>1. Init => TypeOK
  BY TypeInit
<1>2. TypeOK /\ [Next]_vars => TypeOK'
  BY TypeStep
<1> QED
  BY <1>1, <1>2, PTL DEF Spec
-----------------------------------------------------------------------------
LEMMA IInvInit == Init => IInv
  BY TypeInit
  DEF Init, IInv, Apart, CursorInv, ContentInv, WordInv, Fetched, Fetching,
      Rewinding, Writing, Offsets

LEMMA ApartStep ==
  ASSUME Careful, IInv, [Next]_vars
  PROVE  Apart'
<1> USE Careful DEF IInv, TypeOK, Apart, Step, Beside, Fetching, Rewinding, Writing
<1>1. CASE UNCHANGED vars
  BY <1>1 DEF vars, cursors
<1>2. ASSUME NEW t \in Tasks, ReadEmpty(t) PROVE Apart'
  BY <1>2 DEF ReadEmpty, cursors
<1>3. ASSUME NEW t \in Tasks, RewindWrite(t) PROVE Apart'
  BY <1>3 DEF RewindWrite
<1>4. ASSUME NEW t \in Tasks, RewindRead(t) PROVE Apart'
  BY <1>4 DEF RewindRead
<1>5. ASSUME NEW t \in Tasks, ReadClear(t) PROVE Apart'
  BY <1>5 DEF ReadClear, Return, cursors
<1>6. ASSUME NEW t \in Tasks, ReadFetch(t) PROVE Apart'
  BY <1>6 DEF ReadFetch, cursors
<1>7. ASSUME NEW t \in Tasks, LoadReadPoint(t) PROVE Apart'
  BY <1>7 DEF LoadReadPoint, cursors
<1>8. ASSUME NEW t \in Tasks, StoreReadPoint(t) PROVE Apart'
  BY <1>8 DEF StoreReadPoint
<1>9. ASSUME NEW t \in Tasks, ReadCopy(t) PROVE Apart'
  BY <1>9 DEF ReadCopy, Return, cursors
<1>10. ASSUME NEW t \in Tasks, ReadFault(t) PROVE Apart'
  BY <1>10 DEF ReadFault, Return, cursors
<1>11. ASSUME NEW t \in Tasks, WriteCopy(t) PROVE Apart'
  BY <1>11 DEF WriteCopy, cursors
<1>12. ASSUME NEW t \in Tasks, WriteFault(t) PROVE Apart'
  BY <1>12 DEF WriteFault, cursors
<1>13. ASSUME NEW t \in Tasks, LoadWritePoint(t) PROVE Apart'
  BY <1>13 DEF LoadWritePoint, cursors
<1>14. ASSUME NEW t \in Tasks, StoreWritePoint(t) PROVE Apart'
  BY <1>14 DEF StoreWritePoint, Return
<1>15. ASSUME NEW t \in Tasks, ReadFound(t) PROVE Apart'
  BY <1>15 DEF ReadFound, cursors
<1> QED
  BY <1>1, <1>2, <1>3, <1>4, <1>5, <1>6, <1>7, <1>8, <1>9, <1>10, <1>11,
     <1>12, <1>13, <1>14, <1>15, NextCases

LEMMA CursorStep ==
  ASSUME Careful, IInv, [Next]_vars
  PROVE  CursorInv'
<1> USE Careful
    DEF IInv, TypeOK, Apart, CursorInv, Step, Beside, Fetching, Rewinding,
        Writing
<1>1. CASE UNCHANGED vars
  BY <1>1 DEF vars, cursors
<1>2. ASSUME NEW t \in Tasks, ReadEmpty(t) PROVE CursorInv'
  BY <1>2 DEF ReadEmpty, cursors
<1>3. ASSUME NEW t \in Tasks, RewindWrite(t) PROVE CursorInv'
  BY <1>3 DEF RewindWrite
<1>4. ASSUME NEW t \in Tasks, RewindRead(t) PROVE CursorInv'
  BY <1>4 DEF RewindRead
<1>5. ASSUME NEW t \in Tasks, ReadClear(t) PROVE CursorInv'
  BY <1>5 DEF ReadClear, Return, cursors
<1>6. ASSUME NEW t \in Tasks, ReadFetch(t) PROVE CursorInv'
  BY <1>6 DEF ReadFetch, cursors
<1>7. ASSUME NEW t \in Tasks, LoadReadPoint(t) PROVE CursorInv'
  BY <1>7 DEF LoadReadPoint, cursors
<1>8. ASSUME NEW t \in Tasks, StoreReadPoint(t) PROVE CursorInv'
  BY <1>8 DEF StoreReadPoint
<1>9. ASSUME NEW t \in Tasks, ReadCopy(t) PROVE CursorInv'
  BY <1>9 DEF ReadCopy, Return, cursors
<1>10. ASSUME NEW t \in Tasks, ReadFault(t) PROVE CursorInv'
  BY <1>10 DEF ReadFault, Return, cursors
<1>11. ASSUME NEW t \in Tasks, WriteCopy(t) PROVE CursorInv'
  BY <1>11 DEF WriteCopy, cursors
<1>12. ASSUME NEW t \in Tasks, WriteFault(t) PROVE CursorInv'
  BY <1>12 DEF WriteFault, cursors
<1>13. ASSUME NEW t \in Tasks, LoadWritePoint(t) PROVE CursorInv'
  BY <1>13 DEF LoadWritePoint, cursors
<1>14. ASSUME NEW t \in Tasks, StoreWritePoint(t) PROVE CursorInv'
  BY <1>14 DEF StoreWritePoint, Return
<1>15. ASSUME NEW t \in Tasks, ReadFound(t) PROVE CursorInv'
  BY <1>15 DEF ReadFound, cursors
<1> QED
  BY <1>1, <1>2, <1>3, <1>4, <1>5, <1>6, <1>7, <1>8, <1>9, <1>10, <1>11,
     <1>12, <1>13, <1>14, <1>15, NextCases

LEMMA ContentStep ==
  ASSUME Careful, IInv, [Next]_vars
  PROVE  ContentInv'
<1> USE Careful
    DEF IInv, TypeOK, Apart, CursorInv, ContentInv, Step, Beside, Fetching,
        Rewinding, Writing, Offsets, Store
<1>1. CASE UNCHANGED vars
  BY <1>1 DEF vars, cursors
<1>2. ASSUME NEW t \in Tasks, ReadEmpty(t) PROVE ContentInv'
  BY <1>2 DEF ReadEmpty, cursors
<1>3. ASSUME NEW t \in Tasks, RewindWrite(t) PROVE ContentInv'
  BY <1>3 DEF RewindWrite
<1>4. ASSUME NEW t \in Tasks, RewindRead(t) PROVE ContentInv'
  BY <1>4 DEF RewindRead
<1>5. ASSUME NEW t \in Tasks, ReadClear(t) PROVE ContentInv'
  BY <1>5 DEF ReadClear, Return, cursors
<1>6. ASSUME NEW t \in Tasks, ReadFetch(t) PROVE ContentInv'
  BY <1>6 DEF ReadFetch, cursors
<1>7. ASSUME NEW t \in Tasks, LoadReadPoint(t) PROVE ContentInv'
  BY <1>7 DEF LoadReadPoint, cursors
<1>8. ASSUME NEW t \in Tasks, StoreReadPoint(t) PROVE ContentInv'
  BY <1>8 DEF StoreReadPoint
<1>9. ASSUME NEW t \in Tasks, ReadCopy(t) PROVE ContentInv'
  BY <1>9 DEF ReadCopy, Return, cursors
<1>10. ASSUME NEW t \in Tasks, ReadFault(t) PROVE ContentInv'
  BY <1>10 DEF ReadFault, Return, cursors
<1>11. ASSUME NEW t \in Tasks, WriteCopy(t) PROVE ContentInv'
  BY <1>11 DEF WriteCopy, cursors
<1>12. ASSUME NEW t \in Tasks, WriteFault(t) PROVE ContentInv'
  BY <1>12 DEF WriteFault, cursors
<1>13. ASSUME NEW t \in Tasks, LoadWritePoint(t) PROVE ContentInv'
  BY <1>13 DEF LoadWritePoint, cursors
<1>14. ASSUME NEW t \in Tasks, StoreWritePoint(t) PROVE ContentInv'
  <2>1. pc[t] \in Writing /\ write_point' = write_point + 1
    BY <1>14 DEF StoreWritePoint, Return
  <2>2. write_point \in Offsets => mem[write_point] \in Words
    BY <2>1 DEF WordInv
  <2>3. UNCHANGED <<mem, read_point>>
    BY <1>14 DEF StoreWritePoint
  <2> QED
    BY <2>1, <2>2, <2>3
<1>15. ASSUME NEW t \in Tasks, ReadFound(t) PROVE ContentInv'
  BY <1>15 DEF ReadFound, cursors
<1> QED
  BY <1>1, <1>2, <1>3, <1>4, <1>5, <1>6, <1>7, <1>8, <1>9, <1>10, <1>11,
     <1>12, <1>13, <1>14, <1>15, NextCases

LEMMA WordStep ==
  ASSUME Careful, IInv, [Next]_vars
  PROVE  WordInv'
<1> USE Careful
    DEF IInv, TypeOK, Apart, CursorInv, WordInv, Step, Beside, Fetching,
        Fetched, Rewinding, Writing, Store, WordAt
<1>1. CASE UNCHANGED vars
  BY <1>1 DEF vars, cursors
<1>2. ASSUME NEW t \in Tasks, ReadEmpty(t) PROVE WordInv'
  BY <1>2 DEF ReadEmpty, cursors
<1>3. ASSUME NEW t \in Tasks, RewindWrite(t) PROVE WordInv'
  BY <1>3 DEF RewindWrite
<1>4. ASSUME NEW t \in Tasks, RewindRead(t) PROVE WordInv'
  BY <1>4 DEF RewindRead
<1>5. ASSUME NEW t \in Tasks, ReadClear(t) PROVE WordInv'
  BY <1>5 DEF ReadClear, Return, cursors
<1>6. ASSUME NEW t \in Tasks, ReadFetch(t) PROVE WordInv'
  BY <1>6 DEF ReadFetch, cursors
<1>7. ASSUME NEW t \in Tasks, LoadReadPoint(t) PROVE WordInv'
  BY <1>7 DEF LoadReadPoint, cursors
<1>8. ASSUME NEW t \in Tasks, StoreReadPoint(t) PROVE WordInv'
  <2>1. val[t] = WordAt(read_point) /\ read_point < write_point
    BY <1>8 DEF StoreReadPoint
  <2>2. read_point \in Offsets => mem[read_point] \in Words
    BY <2>1 DEF ContentInv, Offsets
  <2>3. val[t] # None
    BY <2>1, <2>2, DeviceAssumption DEF None, Words
  <2> QED
    BY <1>8, <2>3 DEF StoreReadPoint
<1>9. ASSUME NEW t \in Tasks, ReadCopy(t) PROVE WordInv'
  BY <1>9 DEF ReadCopy, Return, cursors
<1>10. ASSUME NEW t \in Tasks, ReadFault(t) PROVE WordInv'
  BY <1>10 DEF ReadFault, Return, cursors
<1>11. ASSUME NEW t \in Tasks, WriteCopy(t) PROVE WordInv'
  <2> DEFINE Fine(u) ==
        /\ pc[u] \in Fetched => val[u] = WordAt(read_point)
        /\ pc[u] = "copy" => val[u] # None
        /\ pc[u] \in Writing =>
             /\ val[u] \in Words
             /\ write_point \in Offsets => mem[write_point] = val[u]
  <2>1. /\ mem' = Store(write_point, written + 1)
        /\ pc' = [pc EXCEPT ![t] = "load_write"]
        /\ val' = [val EXCEPT ![t] = written + 1]
        /\ UNCHANGED <<read_point, write_point>>
        /\ \A u \in Tasks \ {t} : pc[u] \in {"user"} \union Fetching
    BY <1>11 DEF WriteCopy, cursors
  <2>2. written + 1 \in Words
    BY <1>11, DeviceAssumption DEF WriteCopy, Words
  <2>3. write_point \in Offsets => mem'[write_point] = written + 1
    BY <2>1
  <2>4. ASSUME NEW u \in Tasks \ {t}, pc[u] \in Fetched
        PROVE  WordAt(read_point)' = WordAt(read_point)
    <3>1. read_point # write_point
      BY <2>4
    <3> QED
      BY <2>1, <3>1
  <2>5. Fine(t)'
    BY <2>1, <2>2, <2>3
  <2>6. ASSUME NEW u \in Tasks \ {t} PROVE Fine(u)'
    BY <2>1, <2>4, <2>6
  <2> QED
    BY <2>5, <2>6
<1>12. ASSUME NEW t \in Tasks, WriteFault(t) PROVE WordInv'
  BY <1>12 DEF WriteFault, cursors
<1>13. ASSUME NEW t \in Tasks, LoadWritePoint(t) PROVE WordInv'
  BY <1>13 DEF LoadWritePoint, cursors
<1>14. ASSUME NEW t \in Tasks, StoreWritePoint(t) PROVE WordInv'
  BY <1>14 DEF StoreWritePoint, Return
<1>15. ASSUME NEW t \in Tasks, ReadFound(t) PROVE WordInv'
  BY <1>15 DEF ReadFound, cursors
<1> QED
  BY <1>1, <1>2, <1>3, <1>4, <1>5, <1>6, <1>7, <1>8, <1>9, <1>10, <1>11,
     <1>12, <1>13, <1>14, <1>15, NextCases

LEMMA IInvStep ==
  ASSUME Careful, IInv, [Next]_vars
  PROVE  IInv'
  BY TypeStep, ApartStep, CursorStep, ContentStep, WordStep DEF IInv

LEMMA IInvAlways ==
  ASSUME Careful
  PROVE  Spec => []IInv
<1>1. IInv /\ [Next]_vars => IInv'
  BY IInvStep, Careful
<1> QED
  BY <1>1, IInvInit, PTL DEF Spec

-----------------------------------------------------------------------------
(* What a reader finds, past the end of the buffer included. *)
Seen    == Words \union {Foreign}
Wide(m) == [i \in Nat |-> IF i \in Offsets THEN m[i] ELSE Foreign]

LEMMA WideWords ==
  ASSUME IInv
  PROVE  \A i \in read_point .. write_point - 1 : Wide(mem)[i] \in Seen
  BY DEF IInv, TypeOK, ContentInv, Wide, Seen

(* The queue the buffer holds, as a part of its contents.                  *)
Slice(m, r, w) == [i \in 1 .. w - r |-> m[r + i - 1]]

LEMMA SliceType ==
  ASSUME NEW m, NEW r \in Nat, NEW w \in Nat, r <= w,
         \A i \in r .. w - 1 : m[i] \in Seen
  PROVE  /\ Slice(m, r, w) \in Seq(Seen)
         /\ Len(Slice(m, r, w)) = w - r
         /\ \A i \in 1 .. w - r : Slice(m, r, w)[i] = m[r + i - 1]
<1>1. w - r \in Nat
  OBVIOUS
<1>2. \A i \in 1 .. w - r : m[r + i - 1] \in Seen
  OBVIOUS
<1>3. Slice(m, r, w) \in [1 .. w - r -> Seen]
  BY <1>2 DEF Slice
<1>4. Slice(m, r, w) \in Seq(Seen)
  BY <1>1, <1>3, SeqDef
<1>5. DOMAIN Slice(m, r, w) = 1 .. w - r
  BY DEF Slice
<1>6. Len(Slice(m, r, w)) = w - r
  BY <1>1, <1>4, <1>5, LenProperties
<1> QED
  BY <1>4, <1>6 DEF Slice

LEMMA SliceEmpty ==
  ASSUME NEW m, NEW r \in Nat
  PROVE  Slice(m, r, r) = << >>
<1>1. r <= r /\ \A i \in r .. r - 1 : m[i] \in Seen
  OBVIOUS
<1>2. Slice(m, r, r) \in Seq(Seen) /\ Len(Slice(m, r, r)) = r - r
  BY <1>1, SliceType
<1> QED
  BY <1>2, EmptySeq

(* Moving the lower end takes the head. *)
LEMMA SliceTake ==
  ASSUME NEW m, NEW r \in Nat, NEW w \in Nat, r < w,
         \A i \in r .. w - 1 : m[i] \in Seen
  PROVE  /\ Slice(m, r, w) # << >>
         /\ Head(Slice(m, r, w)) = m[r]
         /\ Tail(Slice(m, r, w)) = Slice(m, r + 1, w)
<1> DEFINE s == Slice(m, r, w)
           u == Slice(m, r + 1, w)
<1>1. s \in Seq(Seen) /\ Len(s) = w - r
      /\ \A i \in 1 .. w - r : s[i] = m[r + i - 1]
  BY SliceType
<1>2. u \in Seq(Seen) /\ Len(u) = w - r - 1
      /\ \A i \in 1 .. w - r - 1 : u[i] = m[r + i]
  BY SliceType
<1> HIDE DEF s, u
<1>3. s # << >>
  BY <1>1
<1>4. Head(s) = m[r]
  BY <1>1, <1>3
<1>5. Tail(s) \in Seq(Seen) /\ Len(Tail(s)) = w - r - 1
      /\ \A i \in 1 .. w - r - 1 : Tail(s)[i] = s[i + 1]
  BY <1>1, <1>3, HeadTailProperties
<1>6. \A i \in 1 .. w - r - 1 : Tail(s)[i] = u[i]
  BY <1>1, <1>2, <1>5
<1>7. Tail(s) = u
  BY <1>2, <1>5, <1>6, SeqEqual
<1> QED
  BY <1>3, <1>4, <1>7 DEF s, u

(* Moving the upper end appends what is there. *)
LEMMA SlicePut ==
  ASSUME NEW m, NEW r \in Nat, NEW w \in Nat, r <= w,
         \A i \in r .. w : m[i] \in Seen
  PROVE  Slice(m, r, w + 1) = Append(Slice(m, r, w), m[w])
<1> DEFINE s == Slice(m, r, w)
           u == Slice(m, r, w + 1)
           a == Append(s, m[w])
<1>1. s \in Seq(Seen) /\ Len(s) = w - r
      /\ \A i \in 1 .. w - r : s[i] = m[r + i - 1]
  BY SliceType
<1>2. u \in Seq(Seen) /\ Len(u) = w - r + 1
      /\ \A i \in 1 .. w - r + 1 : u[i] = m[r + i - 1]
  BY SliceType
<1>3. m[w] \in Seen
  OBVIOUS
<1> HIDE DEF s, u
<1>4. a \in Seq(Seen) /\ Len(a) = w - r + 1
      /\ (\A i \in 1 .. w - r : a[i] = s[i]) /\ a[w - r + 1] = m[w]
  BY <1>1, <1>3, AppendProperties
<1> HIDE DEF a
<1>5. \A i \in 1 .. w - r + 1 : u[i] = a[i]
  BY <1>1, <1>2, <1>4
<1>6. u = a
  BY <1>2, <1>4, <1>5, SeqEqual
<1> QED
  BY <1>6 DEF s, u, a

(* Only what is between the cursors counts. *)
LEMMA SliceFrame ==
  ASSUME NEW m, NEW n, NEW r \in Nat, NEW w \in Nat,
         \A i \in r .. w - 1 : m[i] = n[i]
  PROVE  Slice(m, r, w) = Slice(n, r, w)
  BY DEF Slice
-----------------------------------------------------------------------------
(* The refinement mapping: what queue, bring and taken are in IInv's terms.*)
Quiet == \A t \in Tasks : pc[t] \notin {"rewind_read", "clear"}

Between == IF Quiet THEN Slice(Wide(mem), read_point, write_point) ELSE << >>

LEMMA QueuedIsBetween == IInv => Queued = Between
<1> SUFFICES ASSUME IInv, Quiet
             PROVE  Queued = Slice(Wide(mem), read_point, write_point)
  BY DEF Queued, Quiet, Between
<1>1. Queued = [i \in 1 .. write_point - read_point |-> WordAt(read_point + i - 1)]
  BY DEF Queued, Quiet
<1>2. ASSUME NEW i \in 1 .. write_point - read_point
      PROVE  WordAt(read_point + i - 1) = Wide(mem)[read_point + i - 1]
  <2>1. read_point + i - 1 \in Nat
    BY DEF IInv, TypeOK
  <2> QED
    BY <2>1 DEF WordAt, Wide
<1> QED
  BY <1>1, <1>2 DEF Slice

LEMMA QueuedNext == IInv' => Queued' = Between'
<1>1. (IInv => Queued = Between)'
  BY QueuedIsBetween, PTL
<1> QED
  BY <1>1

(* A step that leaves buffer and cursors alone and ends no rewind leaves   *)
(* the queue alone.                                                        *)
LEMMA QueueFrame ==
  ASSUME IInv, IInv', UNCHANGED <<mem, read_point, write_point>>, Quiet, Quiet'
  PROVE  Queued' = Queued
  BY QueuedIsBetween, QueuedNext DEF Between

(* A store at write_point is not seen yet. *)
LEMMA StoreUnseen ==
  ASSUME IInv, IInv', Quiet, Quiet', NEW w, mem' = Store(write_point, w),
         UNCHANGED <<read_point, write_point>>
  PROVE  Queued' = Queued
<1>1. read_point \in Nat /\ write_point \in Nat
  BY DEF IInv, TypeOK
<1>2. \A i \in read_point .. write_point - 1 : Wide(mem')[i] = Wide(mem)[i]
  BY <1>1 DEF IInv, TypeOK, Store, Wide
<1>3. Slice(Wide(mem'), read_point, write_point)
        = Slice(Wide(mem), read_point, write_point)
  BY <1>1, <1>2, SliceFrame
<1> QED
  BY <1>3, QueuedIsBetween, QueuedNext DEF Between

LEMMA QueueInit == Init => Queue!Init
<1> SUFFICES ASSUME Init PROVE Queue!Init
  OBVIOUS
<1>1. Queued = << >>
  <2>1. Queued = Slice([i \in Nat |-> WordAt(i)], 0, 0)
    BY DEF Init, Queued, Slice
  <2> QED
    BY <2>1, SliceEmpty
<1> QED
  BY <1>1 DEF Init, Queue!Init, Brought, Taken, None, Queue!None

(* One lemma for each kind of step.  The steps that compare the cursors,   *)
(* fetch a word or load a cursor are not seen in the queue.                *)
LEMMA RewindOnQueue ==
  ASSUME Careful, IInv, IInv', NEW t \in Tasks, RewindWrite(t)
  PROVE  Queue!Rewind
<1> USE DEF IInv, TypeOK, RewindWrite, Step
<1>1. UNCHANGED <<Brought, Taken, buf, ret>>
  BY DEF Brought, Taken, Writing
<1>2. read_point = write_point /\ read_point \in Nat /\ ~Quiet'
  BY DEF CursorInv, Quiet
<1>3. Queued = << >> /\ Queued' = << >>
  BY <1>2, QueuedIsBetween, QueuedNext, SliceEmpty DEF Between
<1> QED
  BY <1>1, <1>3 DEF Queue!Rewind

LEMMA RewindReadOnQueue ==
  ASSUME Careful, IInv, IInv', NEW t \in Tasks, RewindRead(t)
  PROVE  UNCHANGED <<Queued, write_point, Brought, Taken, buf, ret>>
<1> USE DEF IInv, TypeOK, RewindRead, Step
<1>1. UNCHANGED <<Brought, Taken, buf, ret, write_point>>
  BY DEF Brought, Taken, Writing
<1>2. ~Quiet /\ ~Quiet'
  BY DEF Quiet
<1> QED
  BY <1>1, <1>2, QueuedIsBetween, QueuedNext DEF Between

LEMMA ClearOnQueue ==
  ASSUME Careful, IInv, IInv', NEW t \in Tasks, ReadClear(t)
  PROVE  Queue!FindEmpty(t)
<1> USE DEF ReadClear, Return, Step
<1>1. ~Quiet /\ read_point' = 0 /\ write_point' = 0 /\ write_point = 0
  BY DEF IInv, TypeOK, CursorInv, cursors, Quiet
<1>2. Queued = << >> /\ Queued' = << >>
  BY <1>1, QueuedIsBetween, QueuedNext, SliceEmpty DEF Between
<1>3. UNCHANGED <<Brought, Taken, buf, write_point>>
  BY <1>1 DEF IInv, TypeOK, Brought, Taken, Writing
<1> QED
  BY <1>2, <1>3 DEF Queue!FindEmpty

LEMMA CompareOnQueue ==
  ASSUME Careful, IInv, IInv', NEW t \in Tasks,
         \/ ReadEmpty(t) \/ ReadFound(t) \/ ReadFetch(t)
         \/ LoadReadPoint(t) \/ LoadWritePoint(t)
  PROVE  UNCHANGED <<Queued, write_point, Brought, Taken, buf, ret>>
<1> USE DEF ReadEmpty, ReadFound, ReadFetch, LoadReadPoint, LoadWritePoint, Step
<1>1. UNCHANGED <<Brought, Taken, buf, ret>>
  BY DEF IInv, TypeOK, Brought, Taken, Writing
<1>2. /\ Quiet /\ Quiet'
      /\ UNCHANGED <<mem, read_point, write_point>>
  BY DEF IInv, TypeOK, Apart, Beside, Quiet, Fetching, Writing, Rewinding,
         cursors
<1> QED
  BY <1>1, <1>2, QueueFrame

LEMMA TakeOnQueue ==
  ASSUME Careful, IInv, IInv', NEW t \in Tasks, StoreReadPoint(t)
  PROVE  Queue!Take(t)
<1> USE DEF StoreReadPoint, Step
<1>1. Quiet /\ Quiet'
  BY DEF IInv, TypeOK, Apart, Quiet, Fetching, Writing
<1>2. /\ read_point < write_point /\ read_point' = read_point + 1
      /\ UNCHANGED <<mem, write_point>>
      /\ read_point \in Nat /\ write_point \in Nat
  BY DEF IInv, TypeOK, CursorInv, Fetching
<1>3. val[t] = Wide(mem)[read_point]
  BY <1>2 DEF IInv, WordInv, WordAt, Fetched, Wide
<1>4. Queued # << >> /\ Head(Queued) = val[t] /\ Queued' = Tail(Queued)
  BY <1>1, <1>2, <1>3, QueuedIsBetween, QueuedNext, WideWords, SliceTake
  DEF Between
<1>5. Taken[t] = None /\ Taken' = [Taken EXCEPT ![t] = val[t]]
  BY DEF IInv, TypeOK, Taken
<1>6. UNCHANGED <<write_point, Brought, buf, ret>>
  BY DEF IInv, TypeOK, Brought, Writing
<1> QED
  BY <1>4, <1>5, <1>6 DEF Queue!Take, Queue!None, None

LEMMA HandOverOnQueue ==
  ASSUME Careful, IInv, IInv', NEW t \in Tasks, ReadCopy(t) \/ ReadFault(t)
  PROVE  Queue!HandOver(t) \/ Queue!Lose(t)
<1> USE DEF ReadCopy, ReadFault, Return, Step
<1>1. Quiet /\ Quiet' /\ UNCHANGED <<mem, read_point, write_point>>
  BY DEF IInv, TypeOK, Apart, Quiet, Fetching, Writing, cursors
<1>2. Queued' = Queued
  BY <1>1, QueueFrame
<1>3. Taken[t] = val[t] /\ Taken[t] # None /\ Taken' = [Taken EXCEPT ![t] = None]
  BY DEF IInv, TypeOK, WordInv, Taken
<1>4. Brought' = Brought
  BY DEF IInv, TypeOK, Brought, Writing
<1> QED
  BY <1>1, <1>2, <1>3, <1>4
  DEF Queue!HandOver, Queue!Lose, Queue!None, None, Queue!WordSize, WordSize,
      Queue!EFAULT, EFAULT

LEMMA BringOnQueue ==
  ASSUME Careful, IInv, IInv', NEW t \in Tasks, WriteCopy(t)
  PROVE  \E w \in Words : Queue!Bring(t, w)
<1> USE DEF WriteCopy, Step
<1>1. Quiet /\ Quiet' /\ UNCHANGED <<read_point, write_point>>
  BY Careful DEF IInv, TypeOK, Beside, Quiet, Fetching, cursors
<1>2. Queued' = Queued
  BY <1>1, StoreUnseen
<1>3. /\ Brought[t] = None
      /\ Brought' = [Brought EXCEPT ![t] = written + 1]
  BY DEF IInv, TypeOK, Brought, Writing
<1>4. UNCHANGED <<Taken, buf, ret>>
  BY DEF IInv, TypeOK, Taken
<1>5. written + 1 \in Words
  BY DeviceAssumption DEF IInv, TypeOK, Words
<1> QED
  BY <1>1, <1>2, <1>3, <1>4, <1>5 DEF Queue!Bring, Queue!None, None

LEMMA RefuseOnQueue ==
  ASSUME Careful, IInv, IInv', NEW t \in Tasks, WriteFault(t)
  PROVE  Queue!Refuse(t)
<1> USE DEF WriteFault
<1>1. Quiet /\ Quiet' /\ UNCHANGED <<read_point, write_point>>
  BY Careful DEF Beside, Quiet, Fetching, cursors
<1>2. Queued' = Queued
  BY <1>1, StoreUnseen
<1>3. UNCHANGED <<Brought, Taken, buf>>
  BY DEF Brought, Taken
<1> QED
  BY <1>1, <1>2, <1>3 DEF Queue!Refuse, Queue!EFAULT, EFAULT

LEMMA PutOnQueue ==
  ASSUME Careful, IInv, IInv', NEW t \in Tasks, StoreWritePoint(t)
  PROVE  Queue!Put(t)
<1> DEFINE word == IF write_point < BufWords THEN val[t] ELSE Foreign
<1> USE DEF StoreWritePoint, Return, Step
<1>1. /\ Quiet /\ Quiet'
      /\ \A u \in Tasks : pc[u] \notin Rewinding
  BY DEF IInv, TypeOK, Apart, Quiet, Fetching, Writing, Rewinding
<1>2. /\ read_point <= write_point /\ write_point' = write_point + 1
      /\ UNCHANGED <<mem, read_point>>
      /\ read_point \in Nat /\ write_point \in Nat
  BY <1>1 DEF IInv, TypeOK, CursorInv
<1>3. Wide(mem)[write_point] = word /\ word \in Seen /\ val[t] \in Words
  BY <1>2, DeviceAssumption DEF IInv, WordInv, Writing, Wide, Offsets, Seen
<1> HIDE DEF word
<1>4. \A i \in read_point .. write_point : Wide(mem)[i] \in Seen
  BY <1>2, <1>3, WideWords
<1>5. Queued' = Append(Queued, word)
  BY <1>1, <1>2, <1>3, <1>4, QueuedIsBetween, QueuedNext, SlicePut DEF Between
<1>6. val[t] # None
  BY <1>3, DeviceAssumption DEF Words, None
<1>7. Brought[t] = val[t] /\ Brought' = [Brought EXCEPT ![t] = None]
  BY DEF IInv, TypeOK, Brought, Writing
<1>8. UNCHANGED <<Taken, buf>>
  BY DEF IInv, TypeOK, Taken
<1> QED
  BY <1>2, <1>5, <1>6, <1>7, <1>8
  DEF Queue!Put, Queue!None, None, Queue!WordSize, WordSize, word

(* ImplementsQueue of CsDevice: in the hands of careful tasks, across any  *)
(* number of rewinds, every word that found room is read once and in       *)
(* order, beside a write or not, and a read that returns 0 has found no    *)
(* word.                                                                   *)
THEOREM DeviceIsQueue ==
  ASSUME Careful
  PROVE  Spec => ImplementsQueue
<1>1. Init => Queue!Init
  BY QueueInit
<1>2. IInv /\ IInv' /\ [Next]_vars => [Queue!Next]_(Queue!vars)
  <2> SUFFICES ASSUME IInv, IInv', [Next]_vars
               PROVE  [Queue!Next]_(Queue!vars)
    OBVIOUS
  <2>1. CASE UNCHANGED vars
    BY <2>1 DEF vars, cursors, Queue!vars, Queued, Brought, Taken, WordAt
  <2>2. ASSUME NEW t \in Tasks, ReadStep(t) PROVE [Queue!Next]_(Queue!vars)
    BY <2>2, Careful, RewindOnQueue, RewindReadOnQueue, ClearOnQueue,
       CompareOnQueue, TakeOnQueue, HandOverOnQueue
    DEF ReadStep, Queue!Next, Queue!vars
  <2>3. ASSUME NEW t \in Tasks, WriteStep(t) PROVE [Queue!Next]_(Queue!vars)
    BY <2>3, Careful, BringOnQueue, RefuseOnQueue, CompareOnQueue, PutOnQueue
    DEF WriteStep, Queue!Next, Queue!vars
  <2> QED
    BY <2>1, <2>2, <2>3 DEF Next
<1> QED
  BY <1>1, <1>2, IInvAlways, Careful, PTL DEF Spec, ImplementsQueue, Queue!Spec
=============================================================================
