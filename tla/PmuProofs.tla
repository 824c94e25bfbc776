----------------------------- MODULE PmuProofs -----------------------------
(***************************************************************************)
(* Proofs about Pmu, for any number of processors, any event types and any *)
(* width of the event counter.  The inductive invariant has three parts:   *)
(* who may be in the kernel while which function runs on each processor,   *)
(* what the registers hold meanwhile, and what the counter has counted     *)
(* since a measurement began.                                              *)
(***************************************************************************)
EXTENDS Pmu, SumLemmas, TLAPS

(* No program runs while a module of access comes or goes, and             *)
(* pmi_handler.ko needs demo.ko.                                           *)
CallInv ==
  /\ call = "none" => todo = {}
  /\ call \in {"enable_cpu_counters", "disable_cpu_counters"} =>
       access # "none"
  /\ call = "disable_cpu_counters" => pc = "exited"
  /\ call = "init_pmccntr" => demo
  /\ handler => demo
  /\ pc # "exited" => access # "none" /\ call \in {"none", "init_pmccntr"}

(* The function of an access module has run on Traced, and none that takes *)
(* it back has begun.                                                      *)
Granted ==
  \/ access # "none" /\ call \in {"none", "init_pmccntr"}
  \/ call = "enable_cpu_counters" /\ Traced \notin todo

(* What is in the registers that let a program in. *)
AccessInv ==
  /\ AccessRevoked
  /\ call = "disable_cpu_counters" => \A c \in online \ todo : ~userenr[c]
  /\ Granted => /\ userenr[Traced] /\ Counting(Traced, "cycles")
                /\ "D" \notin pmcr[Traced]
  /\ ExportedAlone
  /\ demo /\ call = "disable_cpu_counters" /\ Traced \notin todo =>
       "X" \in pmcr[Traced]

(* What counter 0 counts, and that it has counted the events since         *)
(* cntBegin was read.                                                      *)
MeasureInv ==
  /\ evType \in Counted \union {INVALID}
  /\ evType = INVALID \/ pc \in {"select", "enable", "begin"} => events = 0
  /\ pc = "end" => evType # INVALID
  /\ pc \in {"enable", "begin"} \/ Measuring => evtyper = evType
  /\ pc = "begin" \/ Measuring => "event0" \in cnten[Traced]
  /\ Measuring => evcntr = (cntBegin + events) % Width

IInv == TypeOK /\ CallInv /\ AccessInv /\ MeasureInv

-----------------------------------------------------------------------------
(* Counters modulo Width. *)
LEMMA ModSmall ==
  ASSUME NEW w \in Nat, w > 1, NEW a \in 0 .. w - 1
  PROVE  a % w = a
  OBVIOUS

LEMMA ModOver ==
  ASSUME NEW w \in Nat, w > 1, NEW a \in w .. 2 * w - 1
  PROVE  a % w = a - w
  OBVIOUS

LEMMA ModUnder ==
  ASSUME NEW w \in Nat, w > 1, NEW a \in Int, - w < a, a < 0
  PROVE  a % w = a + w
  OBVIOUS

(* One more event turns the counter one step on. *)
LEMMA ModNext ==
  ASSUME NEW w \in Nat, w > 1, NEW b \in 0 .. w - 1, NEW e \in 0 .. w - 2
  PROVE  (((b + e) % w) + 1) % w = (b + (e + 1)) % w
<1>1. CASE b + e < w - 1
  <2>1. (b + e) % w = b + e
    BY <1>1, ModSmall
  <2> QED
    BY <2>1
<1>2. CASE b + e = w - 1
  <2>1. (b + e) % w = b + e
    BY <1>2, ModSmall
  <2> QED
    BY <2>1
<1>3. CASE b + e > w - 1
  <2>1. (b + e) % w = b + e - w
    BY <1>3, ModOver
  <2>2. ((b + e) % w) + 1 \in 0 .. w - 1
    BY <2>1, <1>3
  <2>3. (((b + e) % w) + 1) % w = b + e - w + 1
    BY <2>1, <2>2, ModSmall
  <2>4. (b + (e + 1)) % w = b + (e + 1) - w
    BY <1>3, ModOver
  <2> QED
    BY <2>3, <2>4
<1> QED
  BY <1>1, <1>2, <1>3

(* The distance of the counter from where a measurement began is zero only *)
(* if nothing has happened, as long as it has not turned around.           *)
LEMMA ModDistance ==
  ASSUME NEW w \in Nat, w > 1, NEW b \in 0 .. w - 1, NEW e \in 0 .. w - 1
  PROVE  (((b + e) % w) - b) % w # 0 <=> e > 0
<1>1. CASE b + e < w
  <2>1. (b + e) % w = b + e
    BY <1>1, ModSmall
  <2>2. ((b + e) % w) - b = e
    BY <2>1
  <2>3. e % w = e
    BY ModSmall
  <2> QED
    BY <2>2, <2>3
<1>2. CASE b + e >= w
  <2>1. (b + e) % w = b + e - w
    BY <1>2, ModOver
  <2>2. ((b + e) % w) - b = e - w
    BY <2>1
  <2>3. (e - w) % w = e
    <3>1. e - w \in Int /\ - w < e - w /\ e - w < 0
      BY <1>2
    <3>2. (e - w) % w = (e - w) + w
      BY <3>1, ModUnder
    <3> QED
      BY <3>2
  <2> QED
    BY <1>2, <2>2, <2>3
<1> QED
  BY <1>1, <1>2

-----------------------------------------------------------------------------
LEMMA CountedFinite == IsFiniteSet(Counted)
<1>1. PICK n \in Int : n = 60
  OBVIOUS
<1>2. IsFiniteSet(0 .. n)
  BY FS_Interval
<1> QED
  BY <1>1, <1>2, FS_Subset DEF Counted

LEMMA TotalIsSum == Total = SumOf(evtCnt)
  BY DEF Total, SumOf

LEMMA TotalIsSumNext == Total' = SumOf(evtCnt')
<1>1. (Total = SumOf(evtCnt))'
  BY TotalIsSum, PTL
<1> QED
  BY <1>1

LEMMA TotalType == TypeOK => Total \in Nat
<1> SUFFICES ASSUME TypeOK PROVE Total \in Nat
  OBVIOUS
<1>1. evtCnt \in [Counted -> Nat]
  BY DEF TypeOK
<1> QED
  BY <1>1, TotalIsSum, CountedFinite, SumOfType

(* A type that pmu_begin accepts has a name, or is INVALID. *)
LEMMA ValidIsNamed ==
  ASSUME NEW t \in Arguments, isValidType(t)
  PROVE  t \in Named \union {INVALID} /\ t \in Counted \union {INVALID}
  BY PmuAssumption DEF isValidType, Named, INVALID, Counted

LEMMA CountedIsSmall == Counted \subseteq 0 .. 60
  BY DEF Counted

LEMMA NextCases ==
  ASSUME NEW P, [Next]_vars,
         UNCHANGED vars => P, Start => P, Exit => P,
         \A t \in Arguments : pmu_begin(t) => P,
         enable_pmu_select => P, enable_pmu_count => P, ReadBegin => P,
         pmu_end => P, pmu_end_score => P, pmu_get_score => P,
         InsmodAccess => P, RmmodAccess => P, InsmodDemo => P,
         RmmodDemo => P, InsmodHandler => P, CallDone => P,
         pmu_irq_handler => P,
         \A c \in CPUs : enable_cpu_counters(c) => P,
         \A c \in CPUs : disable_cpu_counters(c) => P,
         \A c \in CPUs : init_pmccntr(c) => P,
         \A c \in CPUs : Offline(c) => P, \A c \in CPUs : Online(c) => P,
         \A t \in Counted : Event(t) => P
  PROVE  P
  BY DEF Next, Library, Kernel

-----------------------------------------------------------------------------
LEMMA TypeStep ==
  ASSUME TypeOK, [Next]_vars
  PROVE  TypeOK'
<1> USE PmuAssumption DEF TypeOK, registers, modules, library
<1>1. CASE UNCHANGED vars
  BY <1>1 DEF vars
<1>2. CASE Start
  BY <1>2 DEF Start, reset
<1>3. CASE Exit
  BY <1>3 DEF Exit, reset
<1>4. ASSUME NEW t \in Arguments, pmu_begin(t) PROVE TypeOK'
  BY <1>4, ValidIsNamed DEF pmu_begin, Goto
<1>5. CASE enable_pmu_select
  BY <1>5 DEF enable_pmu_select, Goto, Named, INVALID
<1>6. CASE enable_pmu_count
  BY <1>6 DEF enable_pmu_count, Goto
<1>7. CASE ReadBegin
  BY <1>7 DEF ReadBegin, Goto
<1>8. CASE pmu_end
  BY <1>8 DEF pmu_end, Goto
<1>9. CASE pmu_end_score
  <2>1. evtCnt' \in [Counted -> Nat]
    <3>1. CASE Scored
      <4>1. evtCnt' = [evtCnt EXCEPT ![evType] = evtCnt[evType] + 1]
        BY <1>9, <3>1 DEF pmu_end_score
      <4>2. evType \in Counted => evtCnt[evType] + 1 \in Nat
        OBVIOUS
      <4> QED
        BY <4>1, <4>2
    <3>2. CASE ~Scored
      BY <1>9, <3>2 DEF pmu_end_score
    <3> QED
      BY <3>1, <3>2
  <2> QED
    BY <1>9, <2>1 DEF pmu_end_score, Goto
<1>10. CASE pmu_get_score
  BY <1>10, TotalType DEF pmu_get_score, Goto
<1>11. CASE InsmodAccess
  BY <1>11 DEF InsmodAccess, OnEachCpu, Kinds
<1>12. CASE RmmodAccess
  BY <1>12 DEF RmmodAccess, OnEachCpu
<1>13. CASE InsmodDemo
  BY <1>13 DEF InsmodDemo, WritePmcr
<1>14. CASE RmmodDemo
  BY <1>14 DEF RmmodDemo
<1>15. CASE InsmodHandler
  BY <1>15 DEF InsmodHandler, OnEachCpu
<1>16. CASE CallDone
  BY <1>16 DEF CallDone
<1>17. CASE pmu_irq_handler
  BY <1>17 DEF pmu_irq_handler
<1>18. ASSUME NEW c \in CPUs, enable_cpu_counters(c) PROVE TypeOK'
  BY <1>18 DEF enable_cpu_counters, WritePmcr
<1>19. ASSUME NEW c \in CPUs, disable_cpu_counters(c) PROVE TypeOK'
  BY <1>19 DEF disable_cpu_counters, WritePmcr
<1>20. ASSUME NEW c \in CPUs, init_pmccntr(c) PROVE TypeOK'
  BY <1>20 DEF init_pmccntr
<1>21. ASSUME NEW c \in CPUs, Offline(c) PROVE TypeOK'
  BY <1>21 DEF Offline
<1>22. ASSUME NEW c \in CPUs, Online(c) PROVE TypeOK'
  BY <1>22 DEF Online
<1>23. ASSUME NEW t \in Counted, Event(t) PROVE TypeOK'
  BY <1>23 DEF Event
<1> QED
  BY <1>1, <1>2, <1>3, <1>4, <1>5, <1>6, <1>7, <1>8, <1>9, <1>10, <1>11,
     <1>12, <1>13, <1>14, <1>15, <1>16, <1>17, <1>18, <1>19, <1>20, <1>21,
     <1>22, <1>23, NextCases

LEMMA CallStep ==
  ASSUME IInv, [Next]_vars
  PROVE  CallInv'
<1> USE PmuAssumption DEF IInv, TypeOK, CallInv, registers, modules, library
<1>1. CASE UNCHANGED vars
  BY <1>1 DEF vars
<1>2. CASE Start
  BY <1>2 DEF Start, reset
<1>3. CASE Exit
  BY <1>3 DEF Exit, reset
<1>4. ASSUME NEW t \in Arguments, pmu_begin(t) PROVE CallInv'
  BY <1>4 DEF pmu_begin, Goto
<1>5. CASE enable_pmu_select
  BY <1>5 DEF enable_pmu_select, Goto
<1>6. CASE enable_pmu_count
  BY <1>6 DEF enable_pmu_count, Goto
<1>7. CASE ReadBegin
  BY <1>7 DEF ReadBegin, Goto
<1>8. CASE pmu_end
  BY <1>8 DEF pmu_end, Goto
<1>9. CASE pmu_end_score
  BY <1>9 DEF pmu_end_score, Goto
<1>10. CASE pmu_get_score
  BY <1>10 DEF pmu_get_score, Goto
<1>11. CASE InsmodAccess
  BY <1>11 DEF InsmodAccess, OnEachCpu, Kinds
<1>12. CASE RmmodAccess
  BY <1>12 DEF RmmodAccess, OnEachCpu
<1>13. CASE InsmodDemo
  BY <1>13 DEF InsmodDemo, WritePmcr
<1>14. CASE RmmodDemo
  BY <1>14 DEF RmmodDemo
<1>15. CASE InsmodHandler
  BY <1>15 DEF InsmodHandler, OnEachCpu
<1>16. CASE CallDone
  BY <1>16 DEF CallDone
<1>17. CASE pmu_irq_handler
  BY <1>17 DEF pmu_irq_handler
<1>18. ASSUME NEW c \in CPUs, enable_cpu_counters(c) PROVE CallInv'
  BY <1>18 DEF enable_cpu_counters, WritePmcr
<1>19. ASSUME NEW c \in CPUs, disable_cpu_counters(c) PROVE CallInv'
  BY <1>19 DEF disable_cpu_counters, WritePmcr
<1>20. ASSUME NEW c \in CPUs, init_pmccntr(c) PROVE CallInv'
  BY <1>20 DEF init_pmccntr
<1>21. ASSUME NEW c \in CPUs, Offline(c) PROVE CallInv'
  BY <1>21 DEF Offline
<1>22. ASSUME NEW c \in CPUs, Online(c) PROVE CallInv'
  BY <1>22 DEF Online
<1>23. ASSUME NEW t \in Counted, Event(t) PROVE CallInv'
  BY <1>23 DEF Event
<1> QED
  BY <1>1, <1>2, <1>3, <1>4, <1>5, <1>6, <1>7, <1>8, <1>9, <1>10, <1>11,
     <1>12, <1>13, <1>14, <1>15, <1>16, <1>17, <1>18, <1>19, <1>20, <1>21,
     <1>22, <1>23, NextCases

LEMMA AccessStep ==
  ASSUME IInv, [Next]_vars
  PROVE  AccessInv'
<1> USE PmuAssumption DEF IInv, TypeOK, CallInv, AccessInv, AccessRevoked,
                          Granted, Counting, ExportedAlone,
                          registers, modules, library
<1>1. CASE UNCHANGED vars
  BY <1>1 DEF vars
<1>2. CASE Start
  BY <1>2 DEF Start, reset
<1>3. CASE Exit
  BY <1>3 DEF Exit, reset
<1>4. ASSUME NEW t \in Arguments, pmu_begin(t) PROVE AccessInv'
  BY <1>4 DEF pmu_begin, Goto
<1>5. CASE enable_pmu_select
  BY <1>5 DEF enable_pmu_select, Goto
<1>6. CASE enable_pmu_count
  BY <1>6 DEF enable_pmu_count, Goto
<1>7. CASE ReadBegin
  BY <1>7 DEF ReadBegin, Goto
<1>8. CASE pmu_end
  BY <1>8 DEF pmu_end, Goto
<1>9. CASE pmu_end_score
  BY <1>9 DEF pmu_end_score, Goto
<1>10. CASE pmu_get_score
  BY <1>10 DEF pmu_get_score, Goto
<1>11. CASE InsmodAccess
  BY <1>11 DEF InsmodAccess, OnEachCpu, Kinds
<1>12. CASE RmmodAccess
  BY <1>12 DEF RmmodAccess, OnEachCpu
<1>13. CASE InsmodDemo
  BY <1>13 DEF InsmodDemo, WritePmcr
<1>14. CASE RmmodDemo
  BY <1>14 DEF RmmodDemo
<1>15. CASE InsmodHandler
  BY <1>15 DEF InsmodHandler, OnEachCpu
<1>16. CASE CallDone
  BY <1>16 DEF CallDone
<1>17. CASE pmu_irq_handler
  BY <1>17 DEF pmu_irq_handler
<1>18. ASSUME NEW c \in CPUs, enable_cpu_counters(c) PROVE AccessInv'
  BY <1>18 DEF enable_cpu_counters, WritePmcr
<1>19. ASSUME NEW c \in CPUs, disable_cpu_counters(c) PROVE AccessInv'
  BY <1>19 DEF disable_cpu_counters, WritePmcr
<1>20. ASSUME NEW c \in CPUs, init_pmccntr(c) PROVE AccessInv'
  BY <1>20 DEF init_pmccntr
<1>21. ASSUME NEW c \in CPUs, Offline(c) PROVE AccessInv'
  BY <1>21 DEF Offline
<1>22. ASSUME NEW c \in CPUs, Online(c) PROVE AccessInv'
  BY <1>22 DEF Online
<1>23. ASSUME NEW t \in Counted, Event(t) PROVE AccessInv'
  BY <1>23 DEF Event
<1> QED
  BY <1>1, <1>2, <1>3, <1>4, <1>5, <1>6, <1>7, <1>8, <1>9, <1>10, <1>11,
     <1>12, <1>13, <1>14, <1>15, <1>16, <1>17, <1>18, <1>19, <1>20, <1>21,
     <1>22, <1>23, NextCases

LEMMA MeasureStep ==
  ASSUME IInv, [Next]_vars
  PROVE  MeasureInv'
<1> USE PmuAssumption DEF IInv, TypeOK, CallInv, MeasureInv, Measuring,
                          registers, modules, library
<1>1. CASE UNCHANGED vars
  BY <1>1 DEF vars
<1>2. CASE Start
  BY <1>2, CountedIsSmall DEF Start, reset, INVALID
<1>3. CASE Exit
  BY <1>3 DEF Exit, reset
<1>4. ASSUME NEW t \in Arguments, pmu_begin(t) PROVE MeasureInv'
  BY <1>4, ValidIsNamed, CountedIsSmall DEF pmu_begin, Goto, INVALID
<1>5. CASE enable_pmu_select
  BY <1>5 DEF enable_pmu_select, Goto
<1>6. CASE enable_pmu_count
  BY <1>6 DEF enable_pmu_count, Goto
<1>7. CASE ReadBegin
  BY <1>7 DEF ReadBegin, Goto
<1>8. CASE pmu_end
  BY <1>8 DEF pmu_end, Goto
<1>9. CASE pmu_end_score
  BY <1>9 DEF pmu_end_score, Goto
<1>10. CASE pmu_get_score
  BY <1>10 DEF pmu_get_score, Goto
<1>11. CASE InsmodAccess
  BY <1>11 DEF InsmodAccess, OnEachCpu
<1>12. CASE RmmodAccess
  BY <1>12 DEF RmmodAccess, OnEachCpu
<1>13. CASE InsmodDemo
  BY <1>13 DEF InsmodDemo, WritePmcr
<1>14. CASE RmmodDemo
  BY <1>14 DEF RmmodDemo
<1>15. CASE InsmodHandler
  BY <1>15 DEF InsmodHandler, OnEachCpu
<1>16. CASE CallDone
  BY <1>16 DEF CallDone
<1>17. CASE pmu_irq_handler
  BY <1>17 DEF pmu_irq_handler
<1>18. ASSUME NEW c \in CPUs, enable_cpu_counters(c) PROVE MeasureInv'
  BY <1>18 DEF enable_cpu_counters, WritePmcr
<1>19. ASSUME NEW c \in CPUs, disable_cpu_counters(c) PROVE MeasureInv'
  BY <1>19 DEF disable_cpu_counters, WritePmcr
<1>20. ASSUME NEW c \in CPUs, init_pmccntr(c) PROVE MeasureInv'
  BY <1>20 DEF init_pmccntr
<1>21. ASSUME NEW c \in CPUs, Offline(c) PROVE MeasureInv'
  BY <1>21 DEF Offline
<1>22. ASSUME NEW c \in CPUs, Online(c) PROVE MeasureInv'
  BY <1>22 DEF Online
<1>23. ASSUME NEW t \in Counted, Event(t) PROVE MeasureInv'
  <2>1. CASE Measuring /\ evType = t
    <3>1. Counting(Traced, "event0")
      BY <2>1 DEF AccessInv, Granted, Counting
    <3>2. evcntr' = (evcntr + 1) % Width /\ events' = events + 1
      BY <1>23, <2>1, <3>1 DEF Event
    <3>3. evcntr' = (cntBegin + (events + 1)) % Width
      <4>1. events \in 0 .. Width - 2 /\ evcntr = (cntBegin + events) % Width
        BY <1>23, <2>1 DEF Event
      <4> QED
        BY <3>2, <4>1, ModNext
    <3> QED
      BY <1>23, <2>1, <3>2, <3>3, CountedIsSmall DEF Event, INVALID
  <2>2. CASE ~(Measuring /\ evType = t)
    BY <1>23, <2>2 DEF Event
  <2> QED
    BY <2>1, <2>2
<1> QED
  BY <1>1, <1>2, <1>3, <1>4, <1>5, <1>6, <1>7, <1>8, <1>9, <1>10, <1>11,
     <1>12, <1>13, <1>14, <1>15, <1>16, <1>17, <1>18, <1>19, <1>20, <1>21,
     <1>22, <1>23, NextCases
-----------------------------------------------------------------------------
LEMMA IInvInit == Init => IInv
<1> SUFFICES ASSUME Init PROVE IInv
  OBVIOUS
<1> USE PmuAssumption DEF Init
<1>1. TypeOK
  <2>1. /\ pmcr \in [CPUs -> SUBSET {"E", "X", "D", "DP"}]
        /\ cnten \in [CPUs -> SUBSET {"event0", "cycles"}]
        /\ userenr \in [CPUs -> BOOLEAN]
        /\ evtCnt \in [Counted -> Nat]
    OBVIOUS
  <2>2. /\ 0 \in 0 .. Width - 1 /\ 0 \in 0 .. MaxEnds
        /\ 0 \in 0 .. INVALID
    BY DEF INVALID
  <2> QED
    BY <2>1, <2>2 DEF TypeOK, Kinds
<1>2. CallInv
  BY DEF CallInv
<1>3. AccessInv
  BY DEF AccessInv, AccessRevoked, Granted, ExportedAlone
<1>4. MeasureInv
  BY CountedIsSmall DEF MeasureInv, Measuring, INVALID
<1> QED
  BY <1>1, <1>2, <1>3, <1>4 DEF IInv

LEMMA IInvAlways == Spec => []IInv
<1>1. IInv /\ [Next]_vars => IInv'
  BY TypeStep, CallStep, AccessStep, MeasureStep DEF IInv
<1> QED
  BY <1>1, IInvInit, PTL DEF Spec

(* TypeOK of Pmu: types, the counter and what is read of it stay within    *)
(* its width, and the type that is measured is one that has a name.        *)
THEOREM TypeCorrect == Spec => []TypeOK
<1>1. IInv => TypeOK
  BY DEF IInv
<1> QED
  BY <1>1, IInvAlways, PTL

(* AccessRevoked of Pmu: whatever processors were offline when an access   *)
(* module came or went, none that runs lets programs in without it.        *)
THEOREM RevokedEverywhere == Spec => []AccessRevoked
<1>1. IInv => AccessRevoked
  BY DEF IInv, AccessInv
<1> QED
  BY <1>1, IInvAlways, PTL

(* AccessGranted of Pmu: a program that uses the library is let in, and    *)
(* its counters run.                                                       *)
THEOREM ProgramsMayCount == Spec => []AccessGranted
<1>1. IInv => AccessGranted
  BY DEF IInv, CallInv, AccessInv, Granted, AccessGranted
<1> QED
  BY <1>1, IInvAlways, PTL

(* ExportedAlone of Pmu: the events are exported while demo.ko is loaded   *)
(* and no access module is, whichever have come and gone before.           *)
THEOREM RemovalExports == Spec => []ExportedAlone
<1>1. IInv => ExportedAlone
  BY DEF IInv, AccessInv
<1> QED
  BY <1>1, IInvAlways, PTL

-----------------------------------------------------------------------------
(* The refinement.  A step that leaves the library's visible state and the *)
(* point that is pending alone is no step of EventScore.                   *)
LEMMA ScoreStutters ==
  ASSUME UNCHANGED <<evType, evtCnt, score, ends>>, Pending' = Pending,
         (events > 0)' = (events > 0)
  PROVE  UNCHANGED Score!vars
  BY TotalIsSum, TotalIsSumNext DEF Score!vars

(* In particular every step of the modules and of the processors is none. *)
LEMMA KernelStutters ==
  ASSUME UNCHANGED <<pc, library>>
  PROVE  UNCHANGED Score!vars
<1>1. Pending' = Pending
  BY DEF Pending, Scored, library
<1> QED
  BY <1>1, ScoreStutters DEF library

(* The sum when a measurement ends with a point and when it does not. *)
LEMMA TotalScored ==
  ASSUME TypeOK, evType \in Counted, pmu_end_score
  PROVE  Total' = Total + IF Scored THEN 1 ELSE 0
<1>1. Total = SumOf(evtCnt) /\ Total' = SumOf(evtCnt')
  BY TotalIsSum, TotalIsSumNext
<1>2. evtCnt \in [Counted -> Nat]
  BY DEF TypeOK
<1>3. CASE Scored
  <2>1. evtCnt' = [evtCnt EXCEPT ![evType] = evtCnt[evType] + 1]
    BY <1>2, <1>3 DEF pmu_end_score
  <2>2. SumOf(evtCnt') = SumOf(evtCnt) + 1
    BY <1>2, <2>1, CountedFinite, SumOfAdd
  <2> QED
    BY <1>1, <1>3, <2>2
<1>4. CASE ~Scored
  <2>1. evtCnt' = evtCnt
    BY <1>2, <1>4 DEF pmu_end_score
  <2>2. Total \in Nat
    BY TotalType
  <2> QED
    BY <1>1, <1>4, <2>1, <2>2
<1> QED
  BY <1>3, <1>4

(* reset, with which programs begin and end, is Reset. *)
LEMMA ResetStep ==
  ASSUME reset, pc' # "end"
  PROVE  Score!Reset
<1>1. Total' = SumOf([t \in Counted |-> 0])
  BY TotalIsSumNext DEF reset
<1>2. Total' = 0
  BY <1>1, CountedFinite, SumOfZero
<1>3. Pending' = 0
  BY DEF Pending
<1> QED
  BY <1>2, <1>3 DEF reset, Score!Reset

(* The read of cntEnd is End: what the counter shows is different from     *)
(* cntBegin if an event has occurred, and only then.                       *)
LEMMA EndStep ==
  ASSUME IInv, pmu_end
  PROVE  Score!End
<1>1. /\ evType \in Named /\ Measuring
      /\ events \in 0 .. Width - 1 /\ cntBegin \in 0 .. Width - 1
  BY DEF IInv, TypeOK, MeasureInv, Measuring, pmu_end, Goto
<1>2. evcntr = (cntBegin + events) % Width
  BY <1>1 DEF IInv, MeasureInv
<1>3. Scored' <=> events > 0
  <2>1. cntEnd' = evcntr /\ cntBegin' = cntBegin
    BY DEF pmu_end
  <2>2. Scored' <=> (((cntBegin + events) % Width) - cntBegin) % Width # 0
    BY <1>2, <2>1 DEF Scored
  <2> QED
    BY <1>1, <2>2, PmuAssumption, ModDistance
<1>4. Total' = Total /\ Total \in Nat
  BY TotalType, TotalIsSum, TotalIsSumNext DEF pmu_end, IInv
<1>5. Pending = 0 /\ Pending' = IF events > 0 THEN 1 ELSE 0
  BY <1>3 DEF Pending, pmu_end, Goto
<1> QED
  BY <1>1, <1>4, <1>5 DEF Score!End, pmu_end

(* pmu_end adds the point that was pending. *)
LEMMA EndScoreStep ==
  ASSUME IInv, pmu_end_score
  PROVE  UNCHANGED Score!vars
<1>1. evType \in Counted
  BY DEF IInv, MeasureInv, pmu_end_score, Goto
<1>2. Total' = (Total + IF Scored THEN 1 ELSE 0) /\ Total \in Nat
  BY <1>1, TotalScored, TotalType DEF IInv
<1>3. Pending = (IF Scored THEN 1 ELSE 0) /\ Pending' = 0
  BY DEF Pending, pmu_end_score, Goto
<1>4. Total' + Pending' = Total + Pending
  BY <1>2, <1>3
<1> QED
  BY <1>4 DEF pmu_end_score, Score!vars

LEMMA ScoreStep ==
  ASSUME IInv, [Next]_vars
  PROVE  [Score!Next]_(Score!vars)
<1> DEFINE Step == [Score!Next]_(Score!vars)
<1>1. CASE UNCHANGED vars
  BY <1>1, KernelStutters DEF vars
<1>2. CASE Start
  BY <1>2, ResetStep DEF Start, Score!Next
<1>3. CASE Exit
  BY <1>3, ResetStep DEF Exit, Score!Next
<1>4. ASSUME NEW t \in Arguments, pmu_begin(t) PROVE Step
  <2>1. evType' \in Named \union {INVALID} /\ events' = 0
    BY <1>4, ValidIsNamed DEF pmu_begin
  <2>2. Total' + Pending' = Total + Pending
    BY <1>4, TotalIsSum, TotalIsSumNext DEF pmu_begin, Goto, Pending
  <2>3. Score!Begin
    BY <1>4, <2>1, <2>2 DEF pmu_begin, Score!Begin
  <2> QED
    BY <2>3 DEF Score!Next
<1>5. CASE enable_pmu_select
  <2>1. Pending' = Pending
    BY <1>5 DEF enable_pmu_select, Goto, Pending
  <2> QED
    BY <1>5, <2>1, ScoreStutters DEF enable_pmu_select, library
<1>6. CASE enable_pmu_count
  <2>1. Pending' = Pending
    BY <1>6 DEF enable_pmu_count, Goto, Pending
  <2> QED
    BY <1>6, <2>1, ScoreStutters DEF enable_pmu_count, library
<1>7. CASE ReadBegin
  <2>1. Pending' = Pending
    BY <1>7 DEF ReadBegin, Goto, Pending
  <2> QED
    BY <1>7, <2>1, ScoreStutters DEF ReadBegin
<1>8. CASE pmu_end
  BY <1>8, EndStep DEF Score!Next
<1>9. CASE pmu_end_score
  BY <1>9, EndScoreStep
<1>10. CASE pmu_get_score
  <2>1. Pending = 0 /\ Pending' = 0 /\ Total' = Total /\ Total \in Nat
    BY <1>10, TotalIsSum, TotalIsSumNext, TotalType
    DEF pmu_get_score, Goto, Pending, IInv
  <2>2. Score!GetScore
    BY <1>10, <2>1 DEF pmu_get_score, Score!GetScore
  <2> QED
    BY <2>2 DEF Score!Next
<1>11. CASE InsmodAccess
  BY <1>11, KernelStutters DEF InsmodAccess
<1>12. CASE RmmodAccess
  BY <1>12, KernelStutters DEF RmmodAccess
<1>13. CASE InsmodDemo
  BY <1>13, KernelStutters DEF InsmodDemo
<1>14. CASE RmmodDemo
  BY <1>14, KernelStutters DEF RmmodDemo
<1>15. CASE InsmodHandler
  BY <1>15, KernelStutters DEF InsmodHandler
<1>16. CASE CallDone
  BY <1>16, KernelStutters DEF CallDone
<1>17. CASE pmu_irq_handler
  BY <1>17, KernelStutters DEF pmu_irq_handler
<1>18. ASSUME NEW c \in CPUs, enable_cpu_counters(c) PROVE Step
  BY <1>18, KernelStutters DEF enable_cpu_counters
<1>19. ASSUME NEW c \in CPUs, disable_cpu_counters(c) PROVE Step
  BY <1>19, KernelStutters DEF disable_cpu_counters
<1>20. ASSUME NEW c \in CPUs, init_pmccntr(c) PROVE Step
  BY <1>20, KernelStutters DEF init_pmccntr
<1>21. ASSUME NEW c \in CPUs, Offline(c) PROVE Step
  BY <1>21, KernelStutters DEF Offline
<1>22. ASSUME NEW c \in CPUs, Online(c) PROVE Step
  BY <1>22, KernelStutters DEF Online, modules
<1>23. ASSUME NEW t \in Counted, Event(t) PROVE Step
  <2>1. Pending' = Pending
    BY <1>23 DEF Event, Pending, Scored
  <2>2. CASE Measuring /\ evType = t
    <3>1. evType \in Named /\ events' = events + 1 /\ events \in Nat
      BY <1>23, <2>2, CountedIsSmall DEF Event, IInv, TypeOK, INVALID
    <3>2. Total' + Pending' = Total + Pending
      BY <1>23, <2>1, TotalIsSum, TotalIsSumNext DEF Event
    <3>3. Score!Event
      BY <1>23, <3>1, <3>2 DEF Event, Score!Event
    <3> QED
      BY <3>3 DEF Score!Next
  <2>3. CASE ~(Measuring /\ evType = t)
    BY <1>23, <2>1, <2>3, ScoreStutters DEF Event
  <2> QED
    BY <2>2, <2>3
<1> QED
  BY <1>1, <1>2, <1>3, <1>4, <1>5, <1>6, <1>7, <1>8, <1>9, <1>10, <1>11,
     <1>12, <1>13, <1>14, <1>15, <1>16, <1>17, <1>18, <1>19, <1>20, <1>21,
     <1>22, <1>23, NextCases

(* The program's library implements EventScore, whatever the modules do to *)
(* the counter it reads.                                                   *)
THEOREM LibraryScores == Spec => ImplementsScore
<1>1. Init => Score!Init
  <2> SUFFICES ASSUME Init PROVE Score!Init
    OBVIOUS
  <2>1. Total = 0
    BY TotalIsSum, CountedFinite, SumOfZero DEF Init
  <2> QED
    BY <2>1 DEF Init, Score!Init, Pending
<1>2. IInv /\ [Next]_vars => [Score!Next]_(Score!vars)
  BY ScoreStep
<1> QED
  BY <1>1, <1>2, IInvAlways, PTL DEF Spec, ImplementsScore, Score!Spec
=============================================================================
