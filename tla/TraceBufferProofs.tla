------------------------- MODULE TraceBufferProofs -------------------------
(***************************************************************************)
(* Proofs about TraceBuffer, for any number of readers, processors,        *)
(* interrupts and words.  The inductive invariant IInv joins the           *)
(* properties to five facts they rest on: how dumps and interrupts count   *)
(* up, how many words a dump may still store, that a cursor and its byte   *)
(* count advance together, which word the caller's buffer holds, and which *)
(* word RRD delivers next.                                                 *)
(***************************************************************************)
EXTENDS TraceBuffer, SequenceTheorems, TLAPS

(* Every interrupt dumps at most once. *)
CountInv ==
  /\ dumps <= pmis
  /\ hpc \in {"first", "spin"} => dumps < pmis

(* What the running dump may still store fits into its share of FillBound. *)
StillToStore == etf + (IF result = End THEN 0 ELSE 1)

FillInv ==
  /\ hpc = "spin" => StillToStore <= EtfWords
  /\ hpc # "store" => write_point <= dumps * (EtfWords + 1)
  /\ hpc = "store" =>
       write_point + StillToStore + 1 <= dumps * (EtfWords + 1)

(* bytes_read counts the words read_point has passed. *)
BytesInv ==
  \A r \in Readers :
    /\ pc[r] \in {"copy", "asleep", "leave"} =>
         bytes_read[r] = BytesPerWord * read_point[r]
    /\ pc[r] = "spin" => read_point[r] = 0 /\ bytes_read[r] = 0

(* The caller's buffer holds the last word copied and no other. *)
BufInv ==
  \A r \in Readers :
    /\ pc[r] = "spin" => buf[r] = << >>
    /\ pc[r] \in {"copy", "asleep", "leave"} =>
         buf[r] = IF read_point[r] = 0 THEN << >>
                  ELSE <<WordAt(read_point[r] - 1)>>

(* A word the dump holds in result is the last one RRD delivered. *)
RrdInv ==
  hpc \in {"spin", "store"} /\ result # End => rrd = result + 1

IInv ==
  /\ TypeOK
  /\ LockInv
  /\ CursorInv
  /\ CountInv
  /\ FillInv
  /\ BytesInv
  /\ BufInv
  /\ RrdInv
  /\ WholeDumps
-----------------------------------------------------------------------------
(* The steps of Next, by name. *)
LEMMA NextCases ==
  ASSUME Next
  PROVE  \/ \E r \in Readers :
              \/ ReadEmpty(r) \/ ReadStart(r) \/ ReadLock(r) \/ ReadSleep(r)
              \/ ReadCopy(r) \/ ReadFault(r) \/ ReadLeave(r)
              \/ ReadReset(r) \/ ReadClear(r) \/ ReadReturn(r)
         \/ PmiEnter \/ DumpFirst \/ DumpLock \/ DumpWord \/ DumpEnd
         \/ DumpUnlock \/ PmiReturn
  BY DEF Next, ReaderStep, InCall, InHandler

(* Types, with the counting of dumps that keeps `dumps` in its range. *)
LEMMA TypeInit == Init => TypeOK /\ CountInv
  BY ConstantsAssumption
  DEF Init, TypeOK, CountInv, Word, ReaderPc, Unsleepy, HandlerPc, EFAULT

LEMMA WordAtType ==
  ASSUME TypeOK, NEW i \in Nat
  PROVE  WordAt(i) \in Word
  BY ConstantsAssumption DEF TypeOK, WordAt, Word

LEMMA ReadRrdType ==
  ASSUME TypeOK, ReadRrd
  PROVE  /\ etf' \in 0 .. EtfWords
         /\ rrd' \in Nat \ {0}
         /\ result' \in Nat \union {End}
         /\ result' # End => result' = rrd /\ rrd' = rrd + 1
  BY ConstantsAssumption DEF TypeOK, ReadRrd

LEMMA StoreResultType ==
  ASSUME TypeOK, StoreResult
  PROVE  /\ mem' \in [0 .. BufWords - 1 -> Word]
         /\ write_point' \in Nat
  BY ConstantsAssumption DEF TypeOK, StoreResult, Word

LEMMA TypeStep ==
  ASSUME TypeOK, CountInv, [Next]_vars
  PROVE  TypeOK' /\ CountInv'
<1> USE DEF CountInv
<1>1. CASE UNCHANGED vars
  BY <1>1 DEF vars, readerVars, handlerVars, TypeOK
<1>2. ASSUME NEW r \in Readers, ReadEmpty(r) PROVE TypeOK' /\ CountInv'
  BY <1>2 DEF ReadEmpty, Goto, handlerVars, TypeOK
<1>3. ASSUME NEW r \in Readers, ReadStart(r) PROVE TypeOK' /\ CountInv'
  BY <1>3 DEF ReadStart, Goto, handlerVars, TypeOK, ReaderPc, Unsleepy
<1>4. ASSUME NEW r \in Readers, ReadLock(r) PROVE TypeOK' /\ CountInv'
  BY <1>4 DEF ReadLock, Goto, handlerVars, TypeOK, ReaderPc, Unsleepy
<1>5. ASSUME NEW r \in Readers, ReadSleep(r) PROVE TypeOK' /\ CountInv'
  BY <1>5 DEF ReadSleep, Goto, handlerVars, TypeOK, ReaderPc, Unsleepy
<1>6. ASSUME NEW r \in Readers, ReadCopy(r) PROVE TypeOK' /\ CountInv'
  <2>1. read_point[r] \in Nat
    BY DEF TypeOK
  <2>2. WordAt(read_point[r]) \in Word
    BY <2>1, WordAtType
  <2>3. buf' \in [Readers -> Seq(Word)]
    BY <1>6, <2>2 DEF ReadCopy, TypeOK
  <2>4. pc' \in [Readers -> ReaderPc]
    BY <1>6 DEF ReadCopy, Goto, TypeOK, ReaderPc, Unsleepy
  <2>5. read_point' \in [Readers -> Nat]
    BY <1>6 DEF ReadCopy, TypeOK
  <2>6. bytes_read' \in [Readers -> Nat]
    BY <1>6 DEF ReadCopy, TypeOK, BytesPerWord
  <2> QED
    BY <1>6, <2>3, <2>4, <2>5, <2>6 DEF ReadCopy, handlerVars, TypeOK
<1>7. ASSUME NEW r \in Readers, ReadFault(r) PROVE TypeOK' /\ CountInv'
  BY <1>7 DEF ReadFault, Goto, handlerVars, TypeOK, ReaderPc, EFAULT
<1>8. ASSUME NEW r \in Readers, ReadLeave(r) PROVE TypeOK' /\ CountInv'
  BY <1>8 DEF ReadLeave, Goto, handlerVars, TypeOK, ReaderPc, Unsleepy
<1>9. ASSUME NEW r \in Readers, ReadReset(r) PROVE TypeOK' /\ CountInv'
  BY <1>9, ConstantsAssumption
  DEF ReadReset, Goto, handlerVars, TypeOK, ReaderPc, Unsleepy
<1>10. ASSUME NEW r \in Readers, ReadClear(r) PROVE TypeOK' /\ CountInv'
  BY <1>10 DEF ReadClear, Goto, handlerVars, TypeOK, ReaderPc, Unsleepy, Word
<1>11. ASSUME NEW r \in Readers, ReadReturn(r) PROVE TypeOK' /\ CountInv'
  BY <1>11 DEF ReadReturn, Goto, handlerVars, TypeOK, ReaderPc
<1>12. CASE PmiEnter
  BY <1>12, ConstantsAssumption
  DEF PmiEnter, HandlerGoto, readerVars, TypeOK, HandlerPc
<1>13. CASE DumpFirst
  <2>1. ReadRrd
    BY <1>13 DEF DumpFirst
  <2> QED
    BY <1>13, <2>1, ReadRrdType
    DEF DumpFirst, HandlerGoto, readerVars, TypeOK, HandlerPc
<1>14. CASE DumpLock
  BY <1>14, ConstantsAssumption
  DEF DumpLock, HandlerGoto, readerVars, TypeOK, HandlerPc
<1>15. CASE DumpWord
  <2>1. ReadRrd /\ StoreResult
    BY <1>15 DEF DumpWord
  <2> QED
    BY <1>15, <2>1, ReadRrdType, StoreResultType
    DEF DumpWord, HandlerGoto, readerVars, TypeOK, HandlerPc
<1>16. CASE DumpEnd
  <2>1. StoreResult
    BY <1>16 DEF DumpEnd
  <2> QED
    BY <1>16, <2>1, StoreResultType
    DEF DumpEnd, HandlerGoto, readerVars, TypeOK, HandlerPc
<1>17. CASE DumpUnlock
  BY <1>17 DEF DumpUnlock, HandlerGoto, readerVars, TypeOK, HandlerPc
<1>18. CASE PmiReturn
  BY <1>18 DEF PmiReturn, HandlerGoto, readerVars, TypeOK, HandlerPc
<1> QED
  BY <1>1, <1>2, <1>3, <1>4, <1>5, <1>6, <1>7, <1>8, <1>9, <1>10, <1>11,
     <1>12, <1>13, <1>14, <1>15, <1>16, <1>17, <1>18, NextCases

(* TypeOK of TraceBuffer: in particular `dumps` never runs past the number *)
(* of interrupts, and no reader or handler leaves its control states.      *)
THEOREM TypeCorrect == Spec => []TypeOK
<1>1. Init => TypeOK /\ CountInv
  BY TypeInit
<1>2. TypeOK /\ CountInv /\ [Next]_vars => (TypeOK /\ CountInv)'
  BY TypeStep
<1> QED
  BY <1>1, <1>2, PTL DEF Spec

-----------------------------------------------------------------------------
(* The lock. *)
LEMMA LockInit == Init => LockInv
  BY ConstantsAssumption DEF Init, LockInv, Holding

LEMMA LockStep ==
  ASSUME TypeOK, LockInv, [Next]_vars
  PROVE  LockInv'
<1>0. Free # Handler /\ Free \notin Readers /\ Handler \notin Readers
  BY ConstantsAssumption
<1> USE <1>0 DEF TypeOK, LockInv, Holding
<1>1. CASE UNCHANGED vars
  BY <1>1 DEF vars, readerVars, handlerVars
<1>2. ASSUME NEW r \in Readers, ReadEmpty(r) PROVE LockInv'
  BY <1>2 DEF ReadEmpty, Goto, handlerVars
<1>3. ASSUME NEW r \in Readers, ReadStart(r) PROVE LockInv'
  BY <1>3 DEF ReadStart, Goto, handlerVars
<1>4. ASSUME NEW r \in Readers, ReadLock(r) PROVE LockInv'
  BY <1>4 DEF ReadLock, Goto, handlerVars
<1>5. ASSUME NEW r \in Readers, ReadSleep(r) PROVE LockInv'
  BY <1>5 DEF ReadSleep, Goto, handlerVars
<1>6. ASSUME NEW r \in Readers, ReadCopy(r) PROVE LockInv'
  BY <1>6 DEF ReadCopy, Goto, handlerVars
<1>7. ASSUME NEW r \in Readers, ReadFault(r) PROVE LockInv'
  BY <1>7 DEF ReadFault, Goto, handlerVars
<1>8. ASSUME NEW r \in Readers, ReadLeave(r) PROVE LockInv'
  BY <1>8 DEF ReadLeave, Goto, handlerVars
<1>9. ASSUME NEW r \in Readers, ReadReset(r) PROVE LockInv'
  BY <1>9 DEF ReadReset, Goto, handlerVars
<1>10. ASSUME NEW r \in Readers, ReadClear(r) PROVE LockInv'
  BY <1>10 DEF ReadClear, Goto, handlerVars
<1>11. ASSUME NEW r \in Readers, ReadReturn(r) PROVE LockInv'
  BY <1>11 DEF ReadReturn, Goto, handlerVars
<1>12. CASE PmiEnter
  BY <1>12 DEF PmiEnter, HandlerGoto, readerVars
<1>13. CASE DumpFirst
  BY <1>13 DEF DumpFirst, HandlerGoto, readerVars
<1>14. CASE DumpLock
  BY <1>14 DEF DumpLock, HandlerGoto, readerVars
<1>15. CASE DumpWord
  BY <1>15 DEF DumpWord, HandlerGoto, readerVars
<1>16. CASE DumpEnd
  BY <1>16 DEF DumpEnd, HandlerGoto, readerVars
<1>17. CASE DumpUnlock
  BY <1>17 DEF DumpUnlock, HandlerGoto, readerVars
<1>18. CASE PmiReturn
  BY <1>18 DEF PmiReturn, HandlerGoto, readerVars
<1> QED
  BY <1>1, <1>2, <1>3, <1>4, <1>5, <1>6, <1>7, <1>8, <1>9, <1>10, <1>11,
     <1>12, <1>13, <1>14, <1>15, <1>16, <1>17, <1>18, NextCases

(* LockInv of TraceBuffer: readers and the interrupt's dump exclude each   *)
(* other in the buffer, however many readers there are.                    *)
THEOREM LockExcludes == Spec => []LockInv
<1>1. Init => TypeOK /\ LockInv
  BY TypeInit, LockInit
<1>2. TypeOK /\ CountInv /\ LockInv /\ [Next]_vars => LockInv'
  BY LockStep
<1>3. Init => TypeOK /\ CountInv
  BY TypeInit
<1>4. TypeOK /\ CountInv /\ [Next]_vars => (TypeOK /\ CountInv)'
  BY TypeStep
<1> QED
  BY <1>1, <1>2, <1>3, <1>4, PTL DEF Spec

-----------------------------------------------------------------------------
(* The cursors of the readers. *)
LEMMA CursorInit == Init => CursorInv /\ BytesInv
  BY DEF Init, CursorInv, BytesInv

(* Only the holder of the lock stores, resets or clears. *)
LEMMA OthersWait ==
  ASSUME TypeOK, LockInv
  PROVE  /\ \A r, q \in Readers : pc[r] \in Holding /\ pc[q] \in Holding => r = q
         /\ \A r \in Readers : pc[r] \in Holding => hpc \notin {"store", "unlock"}
  BY ConstantsAssumption DEF TypeOK, LockInv

LEMMA CursorStep ==
  ASSUME TypeOK, LockInv, CursorInv, BytesInv, [Next]_vars
  PROVE  CursorInv' /\ BytesInv'
<1> USE OthersWait DEF TypeOK, CursorInv, BytesInv, Holding
<1>1. CASE UNCHANGED vars
  BY <1>1 DEF vars, readerVars, handlerVars
<1>2. ASSUME NEW r \in Readers, ReadEmpty(r) PROVE CursorInv' /\ BytesInv'
  BY <1>2 DEF ReadEmpty, Goto, handlerVars
<1>3. ASSUME NEW r \in Readers, ReadStart(r) PROVE CursorInv' /\ BytesInv'
  BY <1>3 DEF ReadStart, Goto, BytesPerWord, handlerVars
<1>4. ASSUME NEW r \in Readers, ReadLock(r) PROVE CursorInv' /\ BytesInv'
  BY <1>4 DEF ReadLock, Goto, BytesPerWord, handlerVars
<1>5. ASSUME NEW r \in Readers, ReadSleep(r) PROVE CursorInv' /\ BytesInv'
  BY <1>5 DEF ReadSleep, Goto, handlerVars
<1>6. ASSUME NEW r \in Readers, ReadCopy(r) PROVE CursorInv' /\ BytesInv'
  <2>1. pc[r] \in {"copy", "asleep"} /\ read_point[r] # write_point
    BY <1>6 DEF ReadCopy, Goto
  <2>2. /\ pc' = [pc EXCEPT ![r] = "copy"]
        /\ read_point' = [read_point EXCEPT ![r] = read_point[r] + 1]
        /\ bytes_read' = [bytes_read EXCEPT ![r] = bytes_read[r] + BytesPerWord]
        /\ write_point' = write_point
    BY <1>6 DEF ReadCopy, Goto
  <2>3. bytes_read[r] + BytesPerWord = BytesPerWord * (read_point[r] + 1)
    BY <2>1 DEF BytesPerWord
  <2>4. read_point[r] + 1 <= write_point
    BY <2>1
  <2> QED
    BY <2>1, <2>2, <2>3, <2>4
<1>7. ASSUME NEW r \in Readers, ReadFault(r) PROVE CursorInv' /\ BytesInv'
  BY <1>7 DEF ReadFault, Goto, handlerVars
<1>8. ASSUME NEW r \in Readers, ReadLeave(r) PROVE CursorInv' /\ BytesInv'
  BY <1>8 DEF ReadLeave, Goto, handlerVars
<1>9. ASSUME NEW r \in Readers, ReadReset(r) PROVE CursorInv' /\ BytesInv'
  BY <1>9 DEF ReadReset, Goto, handlerVars
<1>10. ASSUME NEW r \in Readers, ReadClear(r) PROVE CursorInv' /\ BytesInv'
  BY <1>10 DEF ReadClear, Goto, handlerVars
<1>11. ASSUME NEW r \in Readers, ReadReturn(r) PROVE CursorInv' /\ BytesInv'
  BY <1>11 DEF ReadReturn, Goto, handlerVars
<1>12. CASE PmiEnter
  BY <1>12 DEF PmiEnter, HandlerGoto, readerVars
<1>13. CASE DumpFirst
  BY <1>13 DEF DumpFirst, HandlerGoto, readerVars
<1>14. CASE DumpLock
  BY <1>14 DEF DumpLock, HandlerGoto, readerVars
<1>15. CASE DumpWord
  BY <1>15 DEF DumpWord, HandlerGoto, readerVars, StoreResult
<1>16. CASE DumpEnd
  BY <1>16 DEF DumpEnd, HandlerGoto, readerVars, StoreResult
<1>17. CASE DumpUnlock
  BY <1>17 DEF DumpUnlock, HandlerGoto, readerVars
<1>18. CASE PmiReturn
  BY <1>18 DEF PmiReturn, HandlerGoto, readerVars
<1> QED
  BY <1>1, <1>2, <1>3, <1>4, <1>5, <1>6, <1>7, <1>8, <1>9, <1>10, <1>11,
     <1>12, <1>13, <1>14, <1>15, <1>16, <1>17, <1>18, NextCases

-----------------------------------------------------------------------------
(* What the caller's buffer holds. *)
LEMMA BufInit == Init => BufInv
  BY DEF Init, BufInv

LEMMA BufStep ==
  ASSUME TypeOK, LockInv, BytesInv, BufInv, [Next]_vars
  PROVE  BufInv'
<1> USE OthersWait DEF TypeOK, BytesInv, BufInv, WordAt, Holding
<1>1. CASE UNCHANGED vars
  BY <1>1 DEF vars, readerVars, handlerVars
<1>2. ASSUME NEW r \in Readers, ReadEmpty(r) PROVE BufInv'
  BY <1>2 DEF ReadEmpty, Goto, handlerVars
<1>3. ASSUME NEW r \in Readers, ReadStart(r) PROVE BufInv'
  BY <1>3 DEF ReadStart, Goto, handlerVars
<1>4. ASSUME NEW r \in Readers, ReadLock(r) PROVE BufInv'
  BY <1>4 DEF ReadLock, Goto, handlerVars
<1>5. ASSUME NEW r \in Readers, ReadSleep(r) PROVE BufInv'
  BY <1>5 DEF ReadSleep, Goto, handlerVars
<1>6. ASSUME NEW r \in Readers, ReadCopy(r) PROVE BufInv'
  <2>1. pc[r] \in {"copy", "asleep"} /\ read_point[r] \in Nat
    BY <1>6 DEF ReadCopy, Goto
  <2>2. /\ pc' = [pc EXCEPT ![r] = "copy"]
        /\ read_point' = [read_point EXCEPT ![r] = read_point[r] + 1]
        /\ buf' = [buf EXCEPT ![r] = <<WordAt(read_point[r])>>]
        /\ mem' = mem
    BY <1>6 DEF ReadCopy, Goto
  <2>3. read_point[r] + 1 # 0 /\ read_point[r] + 1 - 1 = read_point[r]
    BY <2>1
  <2> QED
    BY <2>1, <2>2, <2>3
<1>7. ASSUME NEW r \in Readers, ReadFault(r) PROVE BufInv'
  BY <1>7 DEF ReadFault, Goto, handlerVars
<1>8. ASSUME NEW r \in Readers, ReadLeave(r) PROVE BufInv'
  BY <1>8 DEF ReadLeave, Goto, handlerVars
<1>9. ASSUME NEW r \in Readers, ReadReset(r) PROVE BufInv'
  BY <1>9 DEF ReadReset, Goto, handlerVars
<1>10. ASSUME NEW r \in Readers, ReadClear(r) PROVE BufInv'
  BY <1>10 DEF ReadClear, Goto, handlerVars
<1>11. ASSUME NEW r \in Readers, ReadReturn(r) PROVE BufInv'
  BY <1>11 DEF ReadReturn, Goto, handlerVars
<1>12. CASE PmiEnter
  BY <1>12 DEF PmiEnter, HandlerGoto, readerVars
<1>13. CASE DumpFirst
  BY <1>13 DEF DumpFirst, HandlerGoto, readerVars
<1>14. CASE DumpLock
  BY <1>14 DEF DumpLock, HandlerGoto, readerVars
<1>15. CASE DumpWord
  BY <1>15 DEF DumpWord, HandlerGoto, readerVars, StoreResult
<1>16. CASE DumpEnd
  BY <1>16 DEF DumpEnd, HandlerGoto, readerVars, StoreResult
<1>17. CASE DumpUnlock
  BY <1>17 DEF DumpUnlock, HandlerGoto, readerVars
<1>18. CASE PmiReturn
  BY <1>18 DEF PmiReturn, HandlerGoto, readerVars
<1> QED
  BY <1>1, <1>2, <1>3, <1>4, <1>5, <1>6, <1>7, <1>8, <1>9, <1>10, <1>11,
     <1>12, <1>13, <1>14, <1>15, <1>16, <1>17, <1>18, NextCases

-----------------------------------------------------------------------------
(* How far the buffer fills, and which word comes next. *)
LEMMA FillInit == Init => FillInv /\ RrdInv
  BY ConstantsAssumption DEF Init, FillInv, RrdInv

LEMMA ReadRrdLeft ==
  ASSUME TypeOK, ReadRrd
  PROVE  /\ StillToStore' = etf
         /\ result' # End => rrd' = result' + 1
  BY ConstantsAssumption DEF TypeOK, ReadRrd, StillToStore

LEMMA FillStep ==
  ASSUME TypeOK, LockInv, FillInv, RrdInv, [Next]_vars
  PROVE  FillInv' /\ RrdInv'
<1> USE OthersWait, ConstantsAssumption
    DEF TypeOK, FillInv, RrdInv, StillToStore, Holding
<1>1. CASE UNCHANGED vars
  BY <1>1 DEF vars, readerVars, handlerVars
<1>2. ASSUME NEW r \in Readers, ReadEmpty(r) PROVE FillInv' /\ RrdInv'
  BY <1>2 DEF ReadEmpty, Goto, handlerVars
<1>3. ASSUME NEW r \in Readers, ReadStart(r) PROVE FillInv' /\ RrdInv'
  BY <1>3 DEF ReadStart, Goto, handlerVars
<1>4. ASSUME NEW r \in Readers, ReadLock(r) PROVE FillInv' /\ RrdInv'
  BY <1>4 DEF ReadLock, Goto, handlerVars
<1>5. ASSUME NEW r \in Readers, ReadSleep(r) PROVE FillInv' /\ RrdInv'
  BY <1>5 DEF ReadSleep, Goto, handlerVars
<1>6. ASSUME NEW r \in Readers, ReadCopy(r) PROVE FillInv' /\ RrdInv'
  BY <1>6 DEF ReadCopy, Goto, handlerVars
<1>7. ASSUME NEW r \in Readers, ReadFault(r) PROVE FillInv' /\ RrdInv'
  BY <1>7 DEF ReadFault, Goto, handlerVars
<1>8. ASSUME NEW r \in Readers, ReadLeave(r) PROVE FillInv' /\ RrdInv'
  BY <1>8 DEF ReadLeave, Goto, handlerVars
<1>9. ASSUME NEW r \in Readers, ReadReset(r) PROVE FillInv' /\ RrdInv'
  BY <1>9 DEF ReadReset, Goto, handlerVars
<1>10. ASSUME NEW r \in Readers, ReadClear(r) PROVE FillInv' /\ RrdInv'
  BY <1>10 DEF ReadClear, Goto, handlerVars
<1>11. ASSUME NEW r \in Readers, ReadReturn(r) PROVE FillInv' /\ RrdInv'
  BY <1>11 DEF ReadReturn, Goto, handlerVars
<1>12. CASE PmiEnter
  BY <1>12 DEF PmiEnter, HandlerGoto, readerVars
<1>13. CASE DumpFirst
  <2>1. StillToStore' = etf /\ (result' # End => rrd' = result' + 1)
    BY <1>13, ReadRrdLeft DEF DumpFirst
  <2> QED
    BY <1>13, <2>1 DEF DumpFirst, HandlerGoto
<1>14. CASE DumpLock
  <2>1. (dumps + 1) * (EtfWords + 1) = dumps * (EtfWords + 1) + EtfWords + 1
    OBVIOUS
  <2> QED
    BY <1>14, <2>1 DEF DumpLock, HandlerGoto
<1>15. CASE DumpWord
  <2>1. StillToStore' = etf /\ (result' # End => rrd' = result' + 1)
    BY <1>15, ReadRrdLeft DEF DumpWord
  <2> QED
    BY <1>15, <2>1 DEF DumpWord, HandlerGoto, StoreResult
<1>16. CASE DumpEnd
  BY <1>16 DEF DumpEnd, HandlerGoto, StoreResult
<1>17. CASE DumpUnlock
  BY <1>17 DEF DumpUnlock, HandlerGoto, readerVars
<1>18. CASE PmiReturn
  BY <1>18 DEF PmiReturn, HandlerGoto, readerVars
<1> QED
  BY <1>1, <1>2, <1>3, <1>4, <1>5, <1>6, <1>7, <1>8, <1>9, <1>10, <1>11,
     <1>12, <1>13, <1>14, <1>15, <1>16, <1>17, <1>18, NextCases

-----------------------------------------------------------------------------
(* What stands below write_point. *)
LEMMA DumpsInit == Init => WholeDumps
  BY DEF Init, WholeDumps

LEMMA DumpsStep ==
  ASSUME TypeOK, LockInv, CursorInv, WholeDumps, [Next]_vars
  PROVE  WholeDumps'
<1> USE OthersWait, ConstantsAssumption
    DEF TypeOK, CursorInv, WholeDumps, Holding
<1>1. CASE UNCHANGED vars
  BY <1>1 DEF vars, readerVars, handlerVars
<1>2. ASSUME NEW r \in Readers, ReadEmpty(r) PROVE WholeDumps'
  BY <1>2 DEF ReadEmpty, Goto, handlerVars
<1>3. ASSUME NEW r \in Readers, ReadStart(r) PROVE WholeDumps'
  BY <1>3 DEF ReadStart, Goto, handlerVars
<1>4. ASSUME NEW r \in Readers, ReadLock(r) PROVE WholeDumps'
  BY <1>4 DEF ReadLock, Goto, handlerVars
<1>5. ASSUME NEW r \in Readers, ReadSleep(r) PROVE WholeDumps'
  BY <1>5 DEF ReadSleep, Goto, handlerVars
<1>6. ASSUME NEW r \in Readers, ReadCopy(r) PROVE WholeDumps'
  BY <1>6 DEF ReadCopy, Goto, handlerVars
<1>7. ASSUME NEW r \in Readers, ReadFault(r) PROVE WholeDumps'
  BY <1>7 DEF ReadFault, Goto, handlerVars
<1>8. ASSUME NEW r \in Readers, ReadLeave(r) PROVE WholeDumps'
  BY <1>8 DEF ReadLeave, Goto, handlerVars
<1>9. ASSUME NEW r \in Readers, ReadReset(r) PROVE WholeDumps'
  BY <1>9 DEF ReadReset, Goto, handlerVars
<1>10. ASSUME NEW r \in Readers, ReadClear(r) PROVE WholeDumps'
  BY <1>10 DEF ReadClear, Goto, handlerVars
<1>11. ASSUME NEW r \in Readers, ReadReturn(r) PROVE WholeDumps'
  BY <1>11 DEF ReadReturn, Goto, handlerVars
<1>12. CASE PmiEnter
  BY <1>12 DEF PmiEnter, HandlerGoto, readerVars
<1>13. CASE DumpFirst
  BY <1>13 DEF DumpFirst, HandlerGoto, readerVars
<1>14. CASE DumpLock
  BY <1>14 DEF DumpLock, HandlerGoto, readerVars
<1>15. CASE DumpWord
  BY <1>15 DEF DumpWord, HandlerGoto, readerVars
<1>16. CASE DumpEnd
  BY <1>16 DEF DumpEnd, HandlerGoto, StoreResult
<1>17. CASE DumpUnlock
  BY <1>17 DEF DumpUnlock, HandlerGoto, readerVars
<1>18. CASE PmiReturn
  BY <1>18 DEF PmiReturn, HandlerGoto, readerVars
<1> QED
  BY <1>1, <1>2, <1>3, <1>4, <1>5, <1>6, <1>7, <1>8, <1>9, <1>10, <1>11,
     <1>12, <1>13, <1>14, <1>15, <1>16, <1>17, <1>18, NextCases

-----------------------------------------------------------------------------
(* IInv is inductive. *)
LEMMA IInvInit == Init => IInv
  BY TypeInit, LockInit, CursorInit, BufInit, FillInit, DumpsInit DEF IInv

LEMMA IInvStep == IInv /\ [Next]_vars => IInv'
  BY TypeStep, LockStep, CursorStep, BufStep, FillStep, DumpsStep DEF IInv

LEMMA IInvAlways == Spec => []IInv
  BY IInvInit, IInvStep, PTL DEF Spec

(* CursorInv of TraceBuffer: the copy loop of cs_read, which tests for     *)
(* equality only, always meets write_point.                                *)
THEOREM CursorsMeet == Spec => []CursorInv
<1>1. IInv => CursorInv
  BY DEF IInv
<1> QED
  BY <1>1, IInvAlways, PTL

(* WholeDumps of TraceBuffer: outside the storing loop the buffer ends     *)
(* with the closing word of a dump.                                        *)
THEOREM DumpsAreWhole == Spec => []WholeDumps
<1>1. IInv => WholeDumps
  BY DEF IInv
<1> QED
  BY <1>1, IInvAlways, PTL

(* FillBound of TraceBuffer: k dumps between two reads need                *)
(* k * (EtfWords + 1) words of buffer and no more.                         *)
THEOREM FillIsBounded == Spec => []FillBound
<1>1. IInv => FillBound
  BY ConstantsAssumption DEF IInv, TypeOK, FillInv, FillBound, StillToStore
<1> QED
  BY <1>1, IInvAlways, PTL

(* ResetLosesNothing of TraceBuffer: whenever write_point goes back, the   *)
(* reader that moved it has copied and counted every word below it.        *)
THEOREM ResetIsSafe == Spec => ResetLosesNothing
<1> DEFINE Lossless ==
      write_point' < write_point =>
        \E r \in Readers : /\ pc[r] = "leave"
                           /\ read_point[r] = write_point
                           /\ bytes_read[r] = BytesPerWord * write_point
<1>1. ASSUME IInv, [Next]_vars
      PROVE  Lossless
  <2> USE <1>1 DEF IInv, TypeOK
  <2>1. ASSUME NEW r \in Readers, ReadReset(r) PROVE Lossless
    BY <2>1 DEF ReadReset, Goto, CursorInv, BytesInv
  <2>2. CASE write_point' = write_point
    BY <2>2
  <2>3. CASE DumpWord \/ DumpEnd
    BY <2>3 DEF DumpWord, DumpEnd, StoreResult
  <2>4. CASE UNCHANGED vars
    BY <2>2, <2>4 DEF vars
  <2>5. CASE Next
    <3>1. CASE \E r \in Readers :
                 \/ ReadEmpty(r) \/ ReadStart(r) \/ ReadLock(r)
                 \/ ReadSleep(r) \/ ReadCopy(r) \/ ReadFault(r)
                 \/ ReadLeave(r) \/ ReadClear(r) \/ ReadReturn(r)
      BY <3>1, <2>2
      DEF ReadEmpty, ReadStart, ReadLock, ReadSleep, ReadCopy, ReadFault,
          ReadLeave, ReadClear, ReadReturn
    <3>2. CASE PmiEnter \/ DumpFirst \/ DumpLock \/ DumpUnlock \/ PmiReturn
      BY <3>2, <2>2 DEF PmiEnter, DumpFirst, DumpLock, DumpUnlock, PmiReturn
    <3> QED
      BY <3>1, <3>2, <2>1, <2>3, <2>5, NextCases
  <2> QED
    BY <2>4, <2>5, <1>1
<1>2. IInv /\ [Next]_vars => [Lossless]_vars
  BY <1>1
<1> QED
  BY <1>2, IInvAlways, PTL DEF Spec, ResetLosesNothing

-----------------------------------------------------------------------------
(* The buffer implements TraceLog, whether or not its words find room. *)
LEMMA LogInit == Init => Log!Init
<1> SUFFICES ASSUME Init PROVE Log!Init
  OBVIOUS
<1>1. Pending = << >>
  BY DEF Init, Pending
<1>2. LastStored = 0
  BY DEF Init, LastStored
<1>3. Claimed = [r \in Readers |-> -1]
  BY DEF Init, Claimed
<1>4. Handed = [r \in Readers |-> << >>]
  BY DEF Init, Handed
<1> QED
  BY <1>1, <1>2, <1>3, <1>4 DEF Init, Log!Init, Log!None

(* What the log is made of, for the steps that leave it alone. *)
LEMMA LogFrame ==
  /\ mem' = mem /\ write_point' = write_point => Pending' = Pending
  /\ hpc' = hpc /\ result' = result /\ rrd' = rrd => LastStored' = LastStored
  /\ pc' = pc /\ bytes_read' = bytes_read => Claimed' = Claimed
  /\ pc' = pc /\ buf' = buf => Handed' = Handed
  BY DEF Pending, WordAt, LastStored, Claimed, Handed

(* Extending a sequence by one element, place by place. *)
LEMMA AppendByPlace ==
  ASSUME NEW S, NEW n \in Nat, NEW f \in [1 .. n -> S], NEW x \in S,
         NEW g \in [1 .. n + 1 -> S],
         \A i \in 1 .. n : g[i] = f[i],
         g[n + 1] = x
  PROVE  g = Append(f, x)
<1>1. f \in Seq(S) /\ g \in Seq(S)
  BY SeqDef
<1>2. Len(f) = n /\ Len(g) = n + 1
  BY <1>1, LenProperties
<1>3. /\ Append(f, x) \in Seq(S)
      /\ Len(Append(f, x)) = n + 1
      /\ \A i \in 1 .. n : Append(f, x)[i] = f[i]
      /\ Append(f, x)[n + 1] = x
  BY <1>1, <1>2, AppendProperties
<1>4. \A i \in 1 .. n + 1 : g[i] = Append(f, x)[i]
  BY <1>3
<1> QED
  BY <1>1, <1>2, <1>3, <1>4, SeqEqual

LEMMA PendingType ==
  ASSUME TypeOK
  PROVE  Pending \in [1 .. write_point -> Word]
<1>1. \A i \in 1 .. write_point : i - 1 \in Nat
  BY DEF TypeOK
<1>2. \A i \in 1 .. write_point : WordAt(i - 1) \in Word
  BY <1>1, WordAtType
<1> QED
  BY <1>2 DEF Pending

LEMMA PendingSeq ==
  ASSUME TypeOK
  PROVE  /\ Pending \in Seq(Word)
         /\ Len(Pending) = write_point
<1>1. Pending \in Seq(Word)
  BY PendingType, SeqDef DEF TypeOK
<1>2. Len(Pending) \in Nat /\ DOMAIN Pending = 1 .. Len(Pending)
  BY <1>1, LenProperties
<1>3. DOMAIN Pending = 1 .. write_point /\ write_point \in Nat
  BY DEF Pending, TypeOK
<1>4. Len(Pending) = write_point
  <2>1. \A m, n \in Nat : 1 .. m = 1 .. n => m = n
    OBVIOUS
  <2>2. 1 .. Len(Pending) = 1 .. write_point
    BY <1>2, <1>3, Zenon
  <2> QED
    BY <1>2, <1>3, <2>1, <2>2, Zenon
<1> QED
  BY <1>1, <1>4

(* A store makes the log one word longer: by the word if there is room for *)
(* it, by a foreign one otherwise.                                         *)
LEMMA LogGrows ==
  ASSUME TypeOK, TypeOK', StoreResult
  PROVE  Pending' = Append(Pending, Log!Kept(result))
<1> DEFINE word == IF write_point < BufWords THEN result ELSE Foreign
<1>1. write_point \in Nat /\ BufWords \in Nat /\ word \in Word
  BY ConstantsAssumption DEF TypeOK, Word
<1>2. /\ mem' = IF write_point < BufWords
                THEN [mem EXCEPT ![write_point] = result] ELSE mem
      /\ write_point' = write_point + 1
  BY DEF StoreResult
<1>3. DOMAIN mem = 0 .. BufWords - 1
  BY DEF TypeOK
<1>4. /\ Pending \in [1 .. write_point -> Word]
      /\ Pending' \in [1 .. write_point + 1 -> Word]
  <2>1. \A i \in 1 .. write_point + 1 : WordAt(i - 1)' \in Word
    BY <1>1, ConstantsAssumption DEF TypeOK, WordAt, Word
  <2> QED
    BY <1>2, <2>1, PendingType DEF Pending
<1>5. \A i \in 1 .. write_point + 1 :
        Pending'[i] = IF i - 1 < BufWords THEN mem'[i - 1] ELSE Foreign
  BY <1>2 DEF Pending, WordAt
<1>6. \A i \in 1 .. write_point :
        Pending[i] = IF i - 1 < BufWords THEN mem[i - 1] ELSE Foreign
  BY DEF Pending, WordAt
<1>7. \A i \in 1 .. write_point : Pending'[i] = Pending[i]
  BY <1>1, <1>2, <1>3, <1>5, <1>6
<1>8. Pending'[write_point + 1] = word
  BY <1>1, <1>2, <1>3, <1>5
<1>9. Log!Kept(result) = word
  BY PendingSeq DEF Log!Kept
<1> HIDE DEF word
<1> QED
  BY <1>1, <1>4, <1>7, <1>8, <1>9, AppendByPlace

(* A step of cs_read on the log. *)
LEMMA ReaderOnLog ==
  ASSUME IInv, NEW r \in Readers, ReaderStep(r)
  PROVE  [Log!Next]_(Log!vars)
<1> USE LogFrame DEF IInv, TypeOK
<1>1. LastStored' = LastStored
  BY DEF ReaderStep, InCall, ReadEmpty, ReadStart, ReadLock, ReadSleep,
         ReadCopy, ReadFault, ReadLeave, ReadReset, ReadClear, ReadReturn,
         handlerVars
<1>2. /\ Claimed[r] = IF pc[r] \in {"clear", "unlock"} THEN bytes_read[r] ELSE -1
      /\ Handed[r] = IF pc[r] \in {"idle", "clear", "unlock"} THEN buf[r] ELSE << >>
  BY DEF Claimed, Handed
<1>3. CASE ReadEmpty(r)
  <2>1. Pending = << >>
    BY <1>3 DEF ReadEmpty, Pending
  <2>2. Pending' = Pending /\ Claimed' = Claimed /\ Claimed[r] = -1 /\ Handed' = Handed
    BY <1>2, <1>3 DEF ReadEmpty, Goto
  <2>3. Log!ReturnEmpty(r)
    BY <1>1, <1>3, <2>1, <2>2 DEF ReadEmpty, Log!ReturnEmpty, Log!None
  <2> QED
    BY <2>3 DEF Log!Next
<1>4. CASE ReadStart(r)
  <2>1. Pending' = Pending /\ ret' = ret /\ Claimed[r] = -1
    BY <1>2, <1>4 DEF ReadStart, Goto
  <2>2. Claimed' = Claimed
    BY <1>4 DEF ReadStart, Goto, Claimed
  <2>3. Handed' = [Handed EXCEPT ![r] = << >>]
    BY <1>4 DEF ReadStart, Goto, Handed
  <2>4. Log!Begin(r)
    BY <1>1, <2>1, <2>2, <2>3 DEF Log!Begin, Log!None
  <2> QED
    BY <2>4 DEF Log!Next
<1>5. CASE ReadLock(r) \/ ReadSleep(r) \/ ReadCopy(r) \/ ReadLeave(r)
  <2>1. Pending' = Pending /\ ret' = ret
    BY <1>5 DEF ReadLock, ReadSleep, ReadCopy, ReadLeave
  <2>2. Claimed' = Claimed
    BY <1>5 DEF ReadLock, ReadSleep, ReadCopy, ReadLeave, Goto, Claimed
  <2>3. Handed' = Handed
    BY <1>5 DEF ReadLock, ReadSleep, ReadCopy, ReadLeave, Goto, Handed
  <2> QED
    BY <1>1, <2>1, <2>2, <2>3 DEF Log!vars
<1>6. CASE ReadFault(r)
  <2>1. Pending' = Pending
    BY <1>6 DEF ReadFault
  <2>2. Claimed' = Claimed /\ Claimed[r] = -1
    BY <1>6, <1>2 DEF ReadFault, Goto, Claimed
  <2>3. Handed' = [Handed EXCEPT ![r] = buf[r]]
    BY <1>6 DEF ReadFault, Goto, Handed
  <2>4. buf[r] \in {<< >>} \union {<<Pending[i]>> : i \in 1 .. Len(Pending)}
    <3>1. /\ pc[r] \in {"copy", "asleep"}
          /\ read_point[r] <= write_point /\ read_point[r] \in Nat
      BY <1>6 DEF ReadFault, Goto, CursorInv
    <3>2. CASE read_point[r] = 0
      BY <3>1, <3>2 DEF BufInv
    <3>3. CASE read_point[r] # 0
      <4>1. read_point[r] \in 1 .. Len(Pending)
        BY <3>1, <3>3, PendingSeq
      <4>2. Pending[read_point[r]] = WordAt(read_point[r] - 1)
        BY <3>1, <3>3 DEF Pending
      <4>3. buf[r] = <<Pending[read_point[r]]>>
        BY <3>1, <3>3, <4>2 DEF BufInv
      <4> QED
        BY <4>1, <4>3
    <3> QED
      BY <3>2, <3>3
  <2>5. Log!ReturnFault(r)
    BY <1>1, <1>6, <2>1, <2>2, <2>3, <2>4
    DEF ReadFault, Log!ReturnFault, Log!None, Log!EFAULT, EFAULT
  <2> QED
    BY <2>5 DEF Log!Next
<1>7. CASE ReadReset(r)
  <2>1. /\ pc[r] = "leave" /\ bytes_read[r] = BytesPerWord * write_point
        /\ read_point[r] = write_point
    BY <1>7 DEF ReadReset, Goto, CursorInv, BytesInv
  <2>2. Pending' = << >>
    BY <1>7 DEF ReadReset, Pending
  <2>3. Len(Pending) = write_point
    BY PendingSeq
  <2>4. Claimed' = [Claimed EXCEPT ![r] = bytes_read[r]]
    BY <1>7 DEF ReadReset, Goto, Claimed
  <2>5. Handed' = [Handed EXCEPT ![r] = buf[r]]
    BY <1>7 DEF ReadReset, Goto, Handed
  <2>6. buf[r] = IF Pending = << >> THEN << >> ELSE <<Pending[Len(Pending)]>>
    <3>1. CASE write_point = 0
      BY <2>1, <3>1 DEF BufInv, Pending
    <3>2. CASE write_point # 0
      <4>1. write_point \in 1 .. write_point
        BY <3>2
      <4>2. Pending[write_point] = WordAt(write_point - 1)
        BY <4>1 DEF Pending
      <4>3. Pending # << >>
        BY <2>3, <3>2
      <4> QED
        BY <2>1, <2>3, <3>2, <4>2, <4>3 DEF BufInv
    <3> QED
      BY <3>1, <3>2
  <2>7. Log!Take(r)
    BY <1>1, <1>2, <1>7, <2>1, <2>2, <2>3, <2>4, <2>5, <2>6
    DEF ReadReset, Log!Take, Log!None, Log!BytesPerWord, BytesPerWord
  <2> QED
    BY <2>7 DEF Log!Next
<1>8. CASE ReadClear(r)
  <2>1. write_point = 0 /\ write_point' = 0
    BY <1>8 DEF ReadClear, Goto, CursorInv
  <2>2. Pending' = Pending /\ ret' = ret
    BY <1>8, <2>1 DEF ReadClear, Pending
  <2>3. Claimed' = Claimed /\ Handed' = Handed
    BY <1>8 DEF ReadClear, Goto, Claimed, Handed
  <2> QED
    BY <1>1, <2>2, <2>3 DEF Log!vars
<1>9. CASE ReadReturn(r)
  <2>1. Pending' = Pending
    BY <1>9 DEF ReadReturn
  <2>2. Claimed' = [Claimed EXCEPT ![r] = -1] /\ Handed' = Handed
    BY <1>9 DEF ReadReturn, Goto, Claimed, Handed
  <2>3. Claimed[r] = bytes_read[r] /\ Claimed[r] # -1
    BY <1>2, <1>9 DEF ReadReturn, Goto
  <2>4. Log!Return(r)
    BY <1>1, <1>9, <2>1, <2>2, <2>3 DEF ReadReturn, Log!Return, Log!None
  <2> QED
    BY <2>4 DEF Log!Next
<1> QED
  BY <1>3, <1>4, <1>5, <1>6, <1>7, <1>8, <1>9 DEF ReaderStep, InCall

(* A step of the interrupt on the log: the store of a trace word, of the   *)
(* closing word, or nothing.                                               *)
LEMMA HandlerOnLog ==
  ASSUME IInv, TypeOK', PmiEnter \/ DumpLock \/ InHandler
  PROVE  [Log!Next]_(Log!vars)
<1> USE LogFrame, ConstantsAssumption DEF IInv, TypeOK
<1>1. Claimed' = Claimed /\ Handed' = Handed /\ ret' = ret
  BY DEF PmiEnter, DumpLock, InHandler, DumpFirst, DumpWord, DumpEnd,
         DumpUnlock, PmiReturn, readerVars
<1>2. CASE PmiEnter \/ DumpLock \/ DumpUnlock \/ PmiReturn
  <2>1. Pending' = Pending
    BY <1>2 DEF PmiEnter, DumpLock, DumpUnlock, PmiReturn
  <2>2. LastStored' = LastStored
    BY <1>2 DEF PmiEnter, DumpLock, DumpUnlock, PmiReturn, HandlerGoto,
                LastStored
  <2> QED
    BY <1>1, <2>1, <2>2 DEF Log!vars
<1>3. CASE DumpFirst
  <2>1. Pending' = Pending
    BY <1>3 DEF DumpFirst
  <2>2. LastStored' = LastStored
    BY <1>3 DEF DumpFirst, HandlerGoto, ReadRrd, LastStored
  <2> QED
    BY <1>1, <2>1, <2>2 DEF Log!vars
<1>4. CASE DumpWord
  <2>1. LastStored + 1 = result
    BY <1>4 DEF DumpWord, HandlerGoto, LastStored, RrdInv
  <2>2. LastStored' = result
    <3>1. hpc' = "store" /\ rrd = result + 1 /\ ReadRrd /\ result \in Nat
      BY <1>4 DEF DumpWord, HandlerGoto, RrdInv
    <3>2. CASE etf = 0
      BY <3>1, <3>2 DEF ReadRrd, LastStored
    <3>3. CASE etf # 0
      BY <3>1, <3>3 DEF ReadRrd, LastStored
    <3> QED
      BY <3>2, <3>3
  <2>3. Pending' = Append(Pending, Log!Kept(result))
    BY <1>4, LogGrows DEF DumpWord
  <2>4. Log!StoreWord
    BY <1>1, <2>1, <2>2, <2>3 DEF Log!StoreWord
  <2> QED
    BY <2>4 DEF Log!Next
<1>5. CASE DumpEnd
  <2>1. Pending' = Append(Pending, Log!Kept(End))
    BY <1>5, LogGrows DEF DumpEnd
  <2>2. LastStored' = LastStored
    BY <1>5 DEF DumpEnd, HandlerGoto, LastStored
  <2>3. Log!StoreEnd
    BY <1>1, <2>1, <2>2 DEF Log!StoreEnd
  <2> QED
    BY <2>3 DEF Log!Next
<1> QED
  BY <1>2, <1>3, <1>4, <1>5 DEF InHandler

(* ImplementsLog of TraceBuffer: cs_read and the PMI handler implement the *)
(* lock free, pointer free log of TraceLog, for a buffer of any size and   *)
(* any number of dumps into it, those that run past its end included.      *)
THEOREM BufferIsLog == Spec => ImplementsLog
<1>1. Init => Log!Init
  BY LogInit
<1>2. IInv /\ [Next]_vars => [Log!Next]_(Log!vars)
  <2> SUFFICES ASSUME IInv, [Next]_vars PROVE [Log!Next]_(Log!vars)
    OBVIOUS
  <2>1. CASE UNCHANGED vars
    BY <2>1, LogFrame DEF vars, readerVars, handlerVars, Log!vars
  <2>2. CASE Next
    <3>1. TypeOK'
      BY IInvStep DEF IInv
    <3> QED
      BY <2>2, <3>1, ReaderOnLog, HandlerOnLog DEF Next
  <2> QED
    BY <2>1, <2>2
<1> QED
  BY <1>1, <1>2, IInvAlways, PTL DEF Spec, ImplementsLog, Log!Spec
=============================================================================
