-------------------------- MODULE TracePathProofs ---------------------------
(***************************************************************************)
(* Proofs about TracePath, for both platforms, any capacity of the trace   *)
(* unit and of the TMCs, and software locks that gate writes or not (what  *)
(* needs them to says so).  The inductive invariant says how much of which *)
(* call has been made, and that the call's annotation holds there; see     *)
(* TracePathCalls.                                                         *)
(***************************************************************************)
EXTENDS TracePathCalls

(* The four calls there are on Juno; between calls, one of them is over.   *)
JunoInv ==
  \/ \E n \in 0 .. 22 : /\ loaded /\ todo = Rest(enable_junor2_trace, n)
                        /\ JunoInit(n)
  \/ \E n \in 0 .. 15 : /\ ~loaded /\ todo = Rest(disable_junor2_trace, n)
                        /\ JunoStop(n)
  \/ \E n \in 0 .. 14 : /\ loaded /\ todo = Rest(interrupt_junor2, n)
                        /\ JunoStop(n) /\ hw["etm"].cfg = "flow"
  \/ \E n \in 15 .. 32 : /\ loaded /\ todo = Rest(interrupt_junor2, n)
                         /\ JunoContinue(n - 15)

HikeyInv ==
  \/ \E n \in 0 .. 31 : /\ loaded /\ todo = Rest(enable_hikey970_trace, n)
                        /\ HikeyInit(n)
  \/ \E n \in 0 .. 29 : /\ ~loaded /\ todo = Rest(disable_hikey970_trace, n)
                        /\ HikeyStop(n)

IInv ==
  /\ platform \in Platforms /\ loaded \in BOOLEAN
  /\ HwInv
  /\ platform = "JUNOR2" => JunoInv
  /\ platform # "JUNOR2" => HikeyInv

-----------------------------------------------------------------------------
(* Where one call ends and another may begin.  After trace_exit, or after  *)
(* power on, the path is ready to be enabled; after trace_init or the      *)
(* interrupt it is ready to be stopped; what pauses it leaves it ready to  *)
(* be continued.                                                           *)

LEMMA JunoOffThenInit ==
  ASSUME JunoStop(15)
  PROVE  JunoInit(0)
<1>1. /\ Done(15, 0, 5) = 5 /\ Done(15, 7, 8) = 8
      /\ Done(0, 0, 6) = 0 /\ Done(0, 6, 3) = 0 /\ Done(0, 9, 3) = 0
      /\ Done(0, 12, 3) = 0 /\ Done(0, 15, 7) = 0
  BY DEF Done
<1> QED
  BY <1>1 DEF JunoStop, JunoInit, EtmOff, SinkOff, TmcOff, Flushed, TmcOn,
              FunnelOn, PmuOn, EtmOn

LEMMA JunoOnThenStop ==
  ASSUME JunoInit(22) \/ JunoContinue(17)
  PROVE  JunoStop(0) /\ hw["etm"].cfg = "flow"
<1>1. /\ Done(0, 0, 5) = 0 /\ Done(0, 5, 1) = 0 /\ Done(0, 6, 1) = 0
      /\ Done(0, 7, 8) = 0
  BY DEF Done
<1>2. CASE JunoInit(22)
  <2>1. /\ Done(22, 0, 6) = 6 /\ Done(22, 6, 3) = 3 /\ Done(22, 9, 3) = 3
        /\ Done(22, 12, 3) = 3 /\ Done(22, 15, 7) = 7
    BY DEF Done
  <2> QED
    BY <1>1, <1>2, <2>1
    DEF JunoInit, JunoStop, TmcOn, FunnelOn, PmuOn, EtmOn, EtmOff, FunnelOff,
        SinkOff, TmcOff, Flushed
<1>3. CASE JunoContinue(17)
  <2>1. /\ Done(17, 0, 6) = 6 /\ Done(17, 6, 3) = 3 /\ Done(17, 9, 3) = 3
        /\ Done(17, 12, 5) = 5
    BY DEF Done
  <2> QED
    BY <1>1, <1>3, <2>1
    DEF JunoContinue, JunoStop, TmcOn, FunnelOn, EtmContinue, EtmOff,
        FunnelOff, SinkOff, TmcOff, Flushed
<1> QED
  BY <1>2, <1>3

LEMMA JunoPausedThenContinue ==
  JunoStop(15) /\ hw["pmu"].on /\ hw["etm"].cfg = "flow" => JunoContinue(0)
<1> SUFFICES ASSUME JunoStop(15), hw["pmu"].on, hw["etm"].cfg = "flow"
             PROVE  JunoContinue(0)
  OBVIOUS
<1>1. /\ Done(15, 0, 5) = 5 /\ Done(15, 7, 8) = 8
      /\ Done(0, 0, 6) = 0 /\ Done(0, 6, 3) = 0 /\ Done(0, 9, 3) = 0
      /\ Done(0, 12, 5) = 0
  BY DEF Done
<1> QED
  BY <1>1 DEF JunoStop, JunoContinue, EtmOff, SinkOff, TmcOff, Flushed, TmcOn,
              FunnelOn, EtmContinue

LEMMA HikeyOffThenInit ==
  ASSUME HikeyStop(29)
  PROVE  HikeyInit(0)
<1>1. /\ Done(29, 0, 5) = 5 /\ Done(29, 6, 7) = 7 /\ Done(29, 14, 7) = 7
      /\ Done(29, 21, 8) = 8
      /\ Done(0, 0, 6) = 0 /\ Done(0, 6, 6) = 0 /\ Done(0, 12, 3) = 0
      /\ Done(0, 15, 6) = 0 /\ Done(0, 21, 3) = 0 /\ Done(0, 24, 7) = 0
  BY DEF Done
<1> QED
  BY <1>1 DEF HikeyStop, HikeyInit, EtmOff, SinkOff, LinkOff, TmcOff, Flushed,
              TmcOn, FunnelOn, EtmOn

LEMMA HikeyOnThenStop ==
  ASSUME HikeyInit(31)
  PROVE  HikeyStop(0)
<1>1. /\ Done(31, 0, 6) = 6 /\ Done(31, 6, 6) = 6 /\ Done(31, 12, 3) = 3
      /\ Done(31, 15, 6) = 6 /\ Done(31, 21, 3) = 3 /\ Done(31, 24, 7) = 7
      /\ Done(0, 0, 5) = 0 /\ Done(0, 5, 1) = 0 /\ Done(0, 6, 7) = 0
      /\ Done(0, 13, 1) = 0 /\ Done(0, 14, 7) = 0 /\ Done(0, 21, 8) = 0
  BY DEF Done
<1> QED
  BY <1>1 DEF HikeyInit, HikeyStop, TmcOn, FunnelOn, EtmOn, EtmOff, FunnelOff,
              LinkOff, SinkOff, TmcOff, Flushed

(* Pausing the path touches neither the PMU nor what the trace unit is     *)
(* configured for.                                                         *)
LEMMA PauseKeeps ==
  ASSUME platform = "JUNOR2", HwInv, NEW n \in 0 .. 14,
         Step(interrupt_junor2, n)
  PROVE  hw'["pmu"] = hw["pmu"] /\ hw'["etm"].cfg = hw["etm"].cfg
<1> DEFINE p == interrupt_junor2
           x == p[n + 1]
<1>1. p \in Seq(Access) /\ Len(p) = 32 /\ JunoStopBlocks(p, 0)
  BY JunoInterruptCall
<1>2. /\ x \in Access /\ x.op \notin Config
      /\ x.unit # "pmu" /\ x.unit \in Units
  <2> HIDE DEF p
  <2>1. n + 1 \in 1 .. Len(p) /\ n + 1 \in 1 .. 15
    BY <1>1
  <2>2. x \in Access
    <3>1. p \in Seq(Access)
      BY <1>1
    <3> QED
      BY <2>1, <3>1
  <2> QED
    BY <1>1, <2>1, <2>2, JunoStopAccesses, JunoUnits
<1>3. /\ Makes(x.unit, x.op, hw[x.unit], hw'[x.unit])
      /\ \A w \in Units \ {x.unit} : hw'[w] = hw[w]
  BY DEF Step
<1> HIDE DEF x
<1>4. "pmu" \in Units /\ "etm" \in Units
  BY JunoUnits
<1>5. hw'["pmu"] = hw["pmu"]
  BY <1>2, <1>3, <1>4
<1>6. CASE x.unit # "etm"
  BY <1>3, <1>4, <1>5, <1>6
<1>7. CASE x.unit = "etm"
  <2>1. /\ x.op \in Ops \ Config /\ hw["etm"] \in UnitState
        /\ Makes("etm", x.op, hw["etm"], hw'["etm"])
    BY <1>2, <1>3, <1>4, <1>7 DEF HwInv, Access
  <2>2. Changes("etm", x.op, hw["etm"], hw'["etm"])
    BY <2>1, AccessFacts DEF Names
  <2> QED
    BY <1>5, <2>1, <2>2 DEF Changes
<1> QED
  BY <1>6, <1>7

-----------------------------------------------------------------------------
(* The inductive invariant. *)

LEMMA InitInv == Init => IInv
<1> SUFFICES ASSUME Init PROVE IInv
  OBVIOUS
<1>1. /\ platform \in Platforms /\ loaded = FALSE /\ todo = << >>
      /\ hw = [u \in Units |-> PowerOn]
  BY DEF Init
<1>2. PowerOn \in UnitState
  BY PathAssumption DEF PowerOn, UnitState, Config
<1>3. HwInv
  BY <1>1, <1>2 DEF HwInv, PowerOn
<1>4. CASE platform = "JUNOR2"
  <2>1. \A u \in {"etm", "cluster0_funnel", "main_funnel", "etf0"} :
          hw[u] = PowerOn
    BY <1>1, <1>4, JunoUnits
  <2>2. JunoStop(15)
    <3>1. Done(15, 0, 5) = 5 /\ Done(15, 7, 8) = 8
      BY DEF Done
    <3> QED
      BY <2>1, <3>1 DEF JunoStop, PowerOn, EtmOff, SinkOff, TmcOff, Flushed
  <2>3. todo = Rest(disable_junor2_trace, 15)
    <3> DEFINE p == disable_junor2_trace
    <3>1. PICK n \in Nat : n = 15
      OBVIOUS
    <3>2. p \in Seq(Access) /\ n = Len(p)
      BY <3>1, JunoStopCall
    <3> HIDE DEF p
    <3>3. Rest(p, n) = << >>
      <4>1. n \in 0 .. Len(p)
        BY <3>2
      <4> QED
        BY <3>2, <4>1, RestEnds
    <3> QED
      BY <1>1, <3>1, <3>3 DEF p
  <2>4. JunoInv
    BY <1>1, <2>2, <2>3 DEF JunoInv
  <2> QED
    BY <1>1, <1>3, <1>4, <2>4 DEF IInv
<1>5. CASE platform # "JUNOR2"
  <2>1. \A u \in {"etm", "funnel1", "etb1", "funnel2", "etb2", "etr0"} :
          hw[u] = PowerOn
    BY <1>1, <1>5, HikeyUnits
  <2>2. HikeyStop(29)
    <3>1. /\ Done(29, 0, 5) = 5 /\ Done(29, 6, 7) = 7 /\ Done(29, 14, 7) = 7
          /\ Done(29, 21, 8) = 8
      BY DEF Done
    <3> QED
      BY <2>1, <3>1
      DEF HikeyStop, PowerOn, EtmOff, SinkOff, LinkOff, TmcOff, Flushed
  <2>3. todo = Rest(disable_hikey970_trace, 29)
    <3> DEFINE p == disable_hikey970_trace
    <3>1. PICK n \in Nat : n = 29
      OBVIOUS
    <3>2. p \in Seq(Access) /\ n = Len(p)
      BY <3>1, HikeyStopCall
    <3> HIDE DEF p
    <3>3. Rest(p, n) = << >>
      <4>1. n \in 0 .. Len(p)
        BY <3>2
      <4> QED
        BY <3>2, <4>1, RestEnds
    <3> QED
      BY <1>1, <3>1, <3>3 DEF p
  <2>4. HikeyInv
    BY <1>1, <2>2, <2>3 DEF HikeyInv
  <2> QED
    BY <1>1, <1>3, <1>5, <2>4 DEF IInv
<1> QED
  BY <1>4, <1>5

(* A step inside a call makes its next access. *)
LEMMA JunoDriver ==
  ASSUME platform = "JUNOR2", HwInv, JunoInv, Driver
  PROVE  HwInv' /\ JunoInv' /\ UNCHANGED <<platform, loaded>>
<1>1. ASSUME NEW p \in {enable_junor2_trace, disable_junor2_trace,
                        interrupt_junor2},
             NEW n \in 0 .. Len(p), todo = Rest(p, n)
      PROVE  /\ n + 1 \in 1 .. Len(p) /\ todo' = Rest(p, n + 1)
             /\ UNCHANGED <<platform, loaded>>
             /\ Step(p, n) /\ HwInv'
  <2>1. p \in Seq(Access)
    BY JunoInitCall, JunoStopCall, JunoInterruptCall
  <2>2. \A i \in 1 .. Len(p) : p[i].unit \in Units
    BY JunoCallUnits
  <2>3. /\ n + 1 \in 1 .. Len(p) /\ todo' = Rest(p, n + 1)
        /\ UNCHANGED <<platform, loaded>> /\ Step(p, n)
    BY <1>1, <2>1, <2>2, DriverStep
  <2>4. n \in 0 .. Len(p) - 1
    BY <2>1, <2>3
  <2>5. HwInv'
    BY <2>1, <2>2, <2>3, <2>4, StepHw
  <2> QED
    BY <2>3, <2>5
<1>2. ASSUME NEW n \in 0 .. 22, loaded, todo = Rest(enable_junor2_trace, n),
             JunoInit(n)
      PROVE  HwInv' /\ JunoInv' /\ UNCHANGED <<platform, loaded>>
  <2> DEFINE p == enable_junor2_trace
             off == 0
             m == n
  <2>1. Len(p) = 22 /\ JunoInitBlocks(p, off)
    BY JunoInitCall
  <2>2. /\ n + 1 \in 1 .. 22 /\ todo' = Rest(p, n + 1)
        /\ UNCHANGED <<platform, loaded>> /\ Step(p, n) /\ HwInv'
    <3>1. n \in 0 .. Len(p)
      BY <2>1
    <3> QED
      BY <1>1, <1>2, <2>1, <3>1
  <2>3. /\ m \in 0 .. 21 /\ off + m = n /\ off \in Nat /\ JunoInit(m)
    BY <1>2, <2>2
  <2> HIDE DEF p, off, m
  <2>4. JunoInit(m + 1)'
    BY <2>1, <2>2, <2>3, JunoInitStep
  <2>5. n + 1 \in 0 .. 22 /\ m + 1 = n + 1
    BY <2>2 DEF m
  <2> QED
    BY <1>2, <2>2, <2>4, <2>5 DEF JunoInv, p
<1>3. ASSUME NEW n \in 0 .. 15, ~loaded, todo = Rest(disable_junor2_trace, n),
             JunoStop(n)
      PROVE  HwInv' /\ JunoInv' /\ UNCHANGED <<platform, loaded>>
  <2> DEFINE p == disable_junor2_trace
             off == 0
             m == n
  <2>1. Len(p) = 15 /\ JunoStopBlocks(p, off)
    BY JunoStopCall
  <2>2. /\ n + 1 \in 1 .. 15 /\ todo' = Rest(p, n + 1)
        /\ UNCHANGED <<platform, loaded>> /\ Step(p, n) /\ HwInv'
    <3>1. n \in 0 .. Len(p)
      BY <2>1
    <3> QED
      BY <1>1, <1>3, <2>1, <3>1
  <2>3. /\ m \in 0 .. 14 /\ off + m = n /\ off \in Nat /\ JunoStop(m)
    BY <1>3, <2>2
  <2> HIDE DEF p, off, m
  <2>4. JunoStop(m + 1)'
    BY <2>1, <2>2, <2>3, JunoStopStep
  <2>5. n + 1 \in 0 .. 15 /\ m + 1 = n + 1
    BY <2>2 DEF m
  <2> QED
    BY <1>3, <2>2, <2>4, <2>5 DEF JunoInv, p
<1>4. ASSUME NEW n \in 0 .. 14, loaded, todo = Rest(interrupt_junor2, n),
             JunoStop(n), hw["etm"].cfg = "flow"
      PROVE  HwInv' /\ JunoInv' /\ UNCHANGED <<platform, loaded>>
  <2> DEFINE p == interrupt_junor2
             off == 0
             m == n
  <2>1. Len(p) = 32 /\ JunoStopBlocks(p, off)
    BY JunoInterruptCall
  <2>2. /\ n + 1 \in 1 .. 32 /\ todo' = Rest(p, n + 1)
        /\ UNCHANGED <<platform, loaded>> /\ Step(p, n) /\ HwInv'
    <3>1. n \in 0 .. Len(p)
      BY <2>1
    <3> QED
      BY <1>1, <1>4, <2>1, <3>1
  <2>3. /\ m \in 0 .. 14 /\ off + m = n /\ off \in Nat /\ JunoStop(m)
    BY <1>4, <2>2
  <2> HIDE DEF p, off, m
  <2>4. JunoStop(m + 1)'
    BY <2>1, <2>2, <2>3, JunoStopStep
  <2>5. hw'["pmu"] = hw["pmu"] /\ hw'["etm"].cfg = "flow"
    BY <1>4, <2>2, PauseKeeps DEF p
  <2>6. CASE n < 14
    <3>1. n + 1 \in 0 .. 14 /\ m + 1 = n + 1
      BY <1>4, <2>6 DEF m
    <3> QED
      BY <1>4, <2>2, <2>4, <2>5, <3>1 DEF JunoInv, p
  <2>7. CASE n = 14
    <3>1. hw["pmu"].on
      BY <1>4, <2>7 DEF JunoStop
    <3>2. JunoStop(15)'
      BY <2>4, <2>7 DEF m
    <3>3. JunoContinue(0)'
      <4>1. (hw["pmu"].on)' /\ (hw["etm"].cfg = "flow")'
        BY <2>5, <3>1
      <4> QED
        BY <3>2, <4>1, JunoPausedThenContinue, PTL
    <3>4. loaded' /\ todo' = Rest(interrupt_junor2, 15)
      BY <1>4, <2>2, <2>7 DEF p
    <3>5. JunoInv'
      BY <3>3, <3>4 DEF JunoInv
    <3> QED
      BY <2>2, <3>5
  <2>8. n < 14 \/ n = 14
    BY <1>4
  <2> QED
    BY <2>6, <2>7, <2>8
<1>5. ASSUME NEW n \in 15 .. 32, loaded, todo = Rest(interrupt_junor2, n),
             JunoContinue(n - 15)
      PROVE  HwInv' /\ JunoInv' /\ UNCHANGED <<platform, loaded>>
  <2> DEFINE p == interrupt_junor2
             off == 15
             m == n - 15
  <2>1. Len(p) = 32 /\ JunoContinueBlocks(p, off)
    BY JunoInterruptCall
  <2>2. /\ n + 1 \in 1 .. 32 /\ todo' = Rest(p, n + 1)
        /\ UNCHANGED <<platform, loaded>> /\ Step(p, n) /\ HwInv'
    <3>1. n \in 0 .. Len(p)
      BY <2>1
    <3> QED
      BY <1>1, <1>5, <2>1, <3>1
  <2>3. /\ m \in 0 .. 16 /\ off + m = n /\ off \in Nat /\ JunoContinue(m)
    BY <1>5, <2>2
  <2> HIDE DEF p, off, m
  <2>4. JunoContinue(m + 1)'
    BY <2>1, <2>2, <2>3, JunoContinueStep
  <2>5. n + 1 \in 15 .. 32 /\ m + 1 = (n + 1) - 15
    BY <1>5, <2>2 DEF m
  <2> QED
    BY <1>5, <2>2, <2>4, <2>5 DEF JunoInv, p
<1> QED
  BY <1>2, <1>3, <1>4, <1>5 DEF JunoInv

LEMMA HikeyDriver ==
  ASSUME platform # "JUNOR2", HwInv, HikeyInv, Driver
  PROVE  HwInv' /\ HikeyInv' /\ UNCHANGED <<platform, loaded>>
<1>1. ASSUME NEW p \in {enable_hikey970_trace, disable_hikey970_trace},
             NEW n \in 0 .. Len(p), todo = Rest(p, n)
      PROVE  /\ n + 1 \in 1 .. Len(p) /\ todo' = Rest(p, n + 1)
             /\ UNCHANGED <<platform, loaded>>
             /\ Step(p, n) /\ HwInv'
  <2>1. p \in Seq(Access)
    BY HikeyInitCall, HikeyStopCall
  <2>2. \A i \in 1 .. Len(p) : p[i].unit \in Units
    BY HikeyCallUnits
  <2>3. /\ n + 1 \in 1 .. Len(p) /\ todo' = Rest(p, n + 1)
        /\ UNCHANGED <<platform, loaded>> /\ Step(p, n)
    BY <1>1, <2>1, <2>2, DriverStep
  <2>4. n \in 0 .. Len(p) - 1
    BY <2>1, <2>3
  <2>5. HwInv'
    BY <2>1, <2>2, <2>3, <2>4, StepHw
  <2> QED
    BY <2>3, <2>5
<1>2. ASSUME NEW n \in 0 .. 31, loaded, todo = Rest(enable_hikey970_trace, n),
             HikeyInit(n)
      PROVE  HwInv' /\ HikeyInv' /\ UNCHANGED <<platform, loaded>>
  <2> DEFINE p == enable_hikey970_trace
             off == 0
             m == n
  <2>1. Len(p) = 31 /\ HikeyInitBlocks(p, off)
    BY HikeyInitCall
  <2>2. /\ n + 1 \in 1 .. 31 /\ todo' = Rest(p, n + 1)
        /\ UNCHANGED <<platform, loaded>> /\ Step(p, n) /\ HwInv'
    <3>1. n \in 0 .. Len(p)
      BY <2>1
    <3> QED
      BY <1>1, <1>2, <2>1, <3>1
  <2>3. /\ m \in 0 .. 30 /\ off + m = n /\ off \in Nat /\ HikeyInit(m)
    BY <1>2, <2>2
  <2> HIDE DEF p, off, m
  <2>4. HikeyInit(m + 1)'
    BY <2>1, <2>2, <2>3, HikeyInitStep
  <2>5. n + 1 \in 0 .. 31 /\ m + 1 = n + 1
    BY <2>2 DEF m
  <2> QED
    BY <1>2, <2>2, <2>4, <2>5 DEF HikeyInv, p
<1>3. ASSUME NEW n \in 0 .. 29, ~loaded, todo = Rest(disable_hikey970_trace, n),
             HikeyStop(n)
      PROVE  HwInv' /\ HikeyInv' /\ UNCHANGED <<platform, loaded>>
  <2> DEFINE p == disable_hikey970_trace
             off == 0
             m == n
  <2>1. Len(p) = 29 /\ HikeyStopBlocks(p, off)
    BY HikeyStopCall
  <2>2. /\ n + 1 \in 1 .. 29 /\ todo' = Rest(p, n + 1)
        /\ UNCHANGED <<platform, loaded>> /\ Step(p, n) /\ HwInv'
    <3>1. n \in 0 .. Len(p)
      BY <2>1
    <3> QED
      BY <1>1, <1>3, <2>1, <3>1
  <2>3. /\ m \in 0 .. 28 /\ off + m = n /\ off \in Nat /\ HikeyStop(m)
    BY <1>3, <2>2
  <2> HIDE DEF p, off, m
  <2>4. HikeyStop(m + 1)'
    BY <2>1, <2>2, <2>3, HikeyStopStep
  <2>5. n + 1 \in 0 .. 29 /\ m + 1 = n + 1
    BY <2>2 DEF m
  <2> QED
    BY <1>3, <2>2, <2>4, <2>5 DEF HikeyInv, p
<1> QED
  BY <1>2, <1>3 DEF HikeyInv

(* Between calls the path is as the last call left it. *)
LEMMA JunoIdle ==
  ASSUME JunoInv, Idle
  PROVE  /\ loaded => JunoInit(22) \/ JunoContinue(17)
         /\ ~loaded => JunoStop(15)
<1>1. ASSUME NEW p \in Seq(Access), NEW n \in 0 .. Len(p), todo = Rest(p, n)
      PROVE  n = Len(p)
  BY <1>1, RestEnds DEF Idle
<1>2. ASSUME NEW n \in 0 .. 22, todo = Rest(enable_junor2_trace, n)
      PROVE  n = 22
  <2> DEFINE p == enable_junor2_trace
  <2>1. p \in Seq(Access) /\ n \in 0 .. Len(p) /\ Len(p) = 22
    BY JunoInitCall
  <2> QED
    BY <1>1, <1>2, <2>1
<1>3. ASSUME NEW n \in 0 .. 15, todo = Rest(disable_junor2_trace, n)
      PROVE  n = 15
  <2> DEFINE p == disable_junor2_trace
  <2>1. p \in Seq(Access) /\ n \in 0 .. Len(p) /\ Len(p) = 15
    BY JunoStopCall
  <2> QED
    BY <1>1, <1>3, <2>1
<1>4. ASSUME NEW n \in 0 .. 32, todo = Rest(interrupt_junor2, n)
      PROVE  n = 32
  <2> DEFINE p == interrupt_junor2
  <2>1. p \in Seq(Access) /\ n \in 0 .. Len(p) /\ Len(p) = 32
    BY JunoInterruptCall
  <2> QED
    BY <1>1, <1>4, <2>1
<1>5. ASSUME NEW n \in 0 .. 22, todo = Rest(enable_junor2_trace, n),
             JunoInit(n)
      PROVE  JunoInit(22)
  BY <1>2, <1>5
<1>6. ASSUME NEW n \in 0 .. 15, todo = Rest(disable_junor2_trace, n),
             JunoStop(n)
      PROVE  JunoStop(15)
  BY <1>3, <1>6
<1>7. ASSUME NEW n \in 0 .. 14, todo = Rest(interrupt_junor2, n)
      PROVE  FALSE
  BY <1>4, <1>7
<1>8. ASSUME NEW n \in 15 .. 32, todo = Rest(interrupt_junor2, n),
             JunoContinue(n - 15)
      PROVE  JunoContinue(17)
  <2>1. n = 32
    BY <1>4, <1>8
  <2>2. n - 15 = 17
    BY <2>1
  <2> QED
    BY <1>8, <2>2
<1> QED
  BY <1>5, <1>6, <1>7, <1>8 DEF JunoInv

LEMMA HikeyIdle ==
  ASSUME HikeyInv, Idle
  PROVE  /\ loaded => HikeyInit(31)
         /\ ~loaded => HikeyStop(29)
<1>1. ASSUME NEW p \in Seq(Access), NEW n \in 0 .. Len(p), todo = Rest(p, n)
      PROVE  n = Len(p)
  BY <1>1, RestEnds DEF Idle
<1>2. ASSUME NEW n \in 0 .. 31, todo = Rest(enable_hikey970_trace, n),
             HikeyInit(n)
      PROVE  HikeyInit(31)
  <2> DEFINE p == enable_hikey970_trace
  <2>1. p \in Seq(Access) /\ n \in 0 .. Len(p) /\ Len(p) = 31
    BY HikeyInitCall
  <2>2. n = 31
    BY <1>1, <1>2, <2>1
  <2> QED
    BY <1>2, <2>2
<1>3. ASSUME NEW n \in 0 .. 29, todo = Rest(disable_hikey970_trace, n),
             HikeyStop(n)
      PROVE  HikeyStop(29)
  <2> DEFINE p == disable_hikey970_trace
  <2>1. p \in Seq(Access) /\ n \in 0 .. Len(p) /\ Len(p) = 29
    BY HikeyStopCall
  <2>2. n = 29
    BY <1>1, <1>3, <2>1
  <2> QED
    BY <1>3, <2>2
<1> QED
  BY <1>2, <1>3 DEF HikeyInv

(* A call begins. *)
LEMMA JunoCalls ==
  ASSUME platform = "JUNOR2", JunoInv,
         trace_init \/ trace_exit \/ pmu_irq_handler
  PROVE  JunoInv'
<1>1. CASE trace_init
  <2>1. /\ Idle /\ ~loaded /\ loaded' = TRUE /\ hw' = hw
        /\ todo' = enable_junor2_trace
    BY <1>1 DEF trace_init
  <2>2. JunoInit(0)
    BY <2>1, JunoIdle, JunoOffThenInit
  <2>3. JunoInit(0)'
    BY <2>1, <2>2 DEF JunoInit
  <2>4. todo' = Rest(enable_junor2_trace, 0)
    BY <2>1, JunoInitCall, RestAll
  <2> QED
    BY <2>1, <2>3, <2>4 DEF JunoInv
<1>2. CASE trace_exit
  <2>1. /\ Idle /\ loaded /\ loaded' = FALSE /\ hw' = hw
        /\ todo' = disable_junor2_trace
    BY <1>2 DEF trace_exit
  <2>2. JunoStop(0)
    BY <2>1, JunoIdle, JunoOnThenStop
  <2>3. JunoStop(0)'
    BY <2>1, <2>2 DEF JunoStop
  <2>4. todo' = Rest(disable_junor2_trace, 0)
    BY <2>1, JunoStopCall, RestAll
  <2> QED
    BY <2>1, <2>3, <2>4 DEF JunoInv
<1>3. CASE pmu_irq_handler
  <2>1. /\ Idle /\ loaded /\ loaded' = loaded /\ hw' = hw
        /\ todo' = interrupt_junor2
    BY <1>3 DEF pmu_irq_handler, interrupt_junor2
  <2>2. JunoStop(0) /\ hw["etm"].cfg = "flow"
    BY <2>1, JunoIdle, JunoOnThenStop
  <2>3. JunoStop(0)' /\ hw'["etm"].cfg = "flow"
    BY <2>1, <2>2 DEF JunoStop
  <2>4. todo' = Rest(interrupt_junor2, 0)
    BY <2>1, JunoInterruptCall, RestAll
  <2> QED
    BY <2>1, <2>3, <2>4 DEF JunoInv
<1> QED
  BY <1>1, <1>2, <1>3

LEMMA HikeyCalls ==
  ASSUME platform # "JUNOR2", HikeyInv,
         trace_init \/ trace_exit \/ pmu_irq_handler
  PROVE  HikeyInv'
<1>1. CASE trace_init
  <2>1. /\ Idle /\ ~loaded /\ loaded' = TRUE /\ hw' = hw
        /\ todo' = enable_hikey970_trace
    BY <1>1 DEF trace_init
  <2>2. HikeyInit(0)
    BY <2>1, HikeyIdle, HikeyOffThenInit
  <2>3. HikeyInit(0)'
    BY <2>1, <2>2 DEF HikeyInit
  <2>4. todo' = Rest(enable_hikey970_trace, 0)
    BY <2>1, HikeyInitCall, RestAll
  <2> QED
    BY <2>1, <2>3, <2>4 DEF HikeyInv
<1>2. CASE trace_exit
  <2>1. /\ Idle /\ loaded /\ loaded' = FALSE /\ hw' = hw
        /\ todo' = disable_hikey970_trace
    BY <1>2 DEF trace_exit
  <2>2. HikeyStop(0)
    BY <2>1, HikeyIdle, HikeyOnThenStop
  <2>3. HikeyStop(0)'
    BY <2>1, <2>2 DEF HikeyStop
  <2>4. todo' = Rest(disable_hikey970_trace, 0)
    BY <2>1, HikeyStopCall, RestAll
  <2> QED
    BY <2>1, <2>3, <2>4 DEF HikeyInv
<1>3. CASE pmu_irq_handler
  BY <1>3 DEF pmu_irq_handler
<1> QED
  BY <1>1, <1>2, <1>3

(* The hardware keeps every annotation. *)
LEMMA JunoHardware ==
  ASSUME platform = "JUNOR2", HwInv, JunoInv, Hardware
  PROVE  JunoInv'
<1>1. UNCHANGED <<platform, loaded, todo>>
  BY HardwareFacts
<1>2. hw'["etm"].cfg = hw["etm"].cfg
  BY HardwareFacts, JunoUnits DEF HardwareMakes
<1> HIDE DEF Hardware
<1>3. \A n \in 0 .. 22 : JunoInit(n) => JunoInit(n)'
  BY JunoInitHardware
<1>4. \A n \in 0 .. 15 : JunoStop(n) => JunoStop(n)'
  BY JunoStopHardware
<1>5. \A n \in 15 .. 32 : JunoContinue(n - 15) => JunoContinue(n - 15)'
  <2> SUFFICES ASSUME NEW n \in 15 .. 32, JunoContinue(n - 15)
               PROVE  JunoContinue(n - 15)'
    OBVIOUS
  <2>1. n - 15 \in 0 .. 17
    OBVIOUS
  <2> QED
    BY <2>1, JunoContinueHardware
<1>6. ASSUME NEW n \in 0 .. 22, loaded, todo = Rest(enable_junor2_trace, n),
             JunoInit(n)
      PROVE  JunoInv'
  BY <1>1, <1>3, <1>6 DEF JunoInv
<1>7. ASSUME NEW n \in 0 .. 15, ~loaded, todo = Rest(disable_junor2_trace, n),
             JunoStop(n)
      PROVE  JunoInv'
  BY <1>1, <1>4, <1>7 DEF JunoInv
<1>8. ASSUME NEW n \in 0 .. 14, loaded, todo = Rest(interrupt_junor2, n),
             JunoStop(n), hw["etm"].cfg = "flow"
      PROVE  JunoInv'
  <2>1. n \in 0 .. 15
    OBVIOUS
  <2> QED
    BY <1>1, <1>2, <1>4, <1>8, <2>1 DEF JunoInv
<1>9. ASSUME NEW n \in 15 .. 32, loaded, todo = Rest(interrupt_junor2, n),
             JunoContinue(n - 15)
      PROVE  JunoInv'
  BY <1>1, <1>5, <1>9 DEF JunoInv
<1> QED
  BY <1>6, <1>7, <1>8, <1>9 DEF JunoInv

LEMMA HikeyHardware ==
  ASSUME platform # "JUNOR2", HwInv, HikeyInv, Hardware
  PROVE  HikeyInv'
<1>1. UNCHANGED <<platform, loaded, todo>>
  BY HardwareFacts
<1>2. \A n \in 0 .. 31 : HikeyInit(n) => HikeyInit(n)'
  BY HikeyInitHardware
<1>3. \A n \in 0 .. 29 : HikeyStop(n) => HikeyStop(n)'
  BY HikeyStopHardware
<1> QED
  BY <1>1, <1>2, <1>3 DEF HikeyInv

LEMMA NextInv == IInv /\ [Next]_vars => IInv'
<1> SUFFICES ASSUME IInv, [Next]_vars PROVE IInv'
  OBVIOUS
<1>1. /\ platform \in Platforms /\ loaded \in BOOLEAN /\ HwInv
      /\ platform = "JUNOR2" => JunoInv
      /\ platform # "JUNOR2" => HikeyInv
  BY DEF IInv
<1>2. CASE trace_init \/ trace_exit \/ pmu_irq_handler
  <2>1. platform' = platform /\ hw' = hw /\ loaded' \in BOOLEAN
    BY <1>1, <1>2 DEF trace_init, trace_exit, pmu_irq_handler
  <2>2. HwInv'
    BY <1>1, <2>1 DEF HwInv, Units, Stores, Funnels, Tmcs, Links, Sink, Etm,
                      Chain, UnitState
  <2>3. platform = "JUNOR2" => JunoInv'
    BY <1>1, <1>2, JunoCalls
  <2>4. platform # "JUNOR2" => HikeyInv'
    BY <1>1, <1>2, HikeyCalls
  <2> QED
    BY <1>1, <2>1, <2>2, <2>3, <2>4 DEF IInv
<1>3. CASE Driver
  <2>1. CASE platform = "JUNOR2"
    <3>1. HwInv' /\ JunoInv' /\ UNCHANGED <<platform, loaded>>
      BY <1>1, <1>3, <2>1, JunoDriver
    <3> QED
      BY <1>1, <2>1, <3>1 DEF IInv
  <2>2. CASE platform # "JUNOR2"
    <3>1. HwInv' /\ HikeyInv' /\ UNCHANGED <<platform, loaded>>
      BY <1>1, <1>3, <2>2, HikeyDriver
    <3> QED
      BY <1>1, <2>2, <3>1 DEF IInv
  <2> QED
    BY <2>1, <2>2
<1>4. CASE Hardware
  <2>1. UNCHANGED <<platform, loaded, todo>> /\ HwInv'
    BY <1>1, <1>4, HardwareFacts, HardwareHw
  <2>2. platform = "JUNOR2" => JunoInv'
    BY <1>1, <1>4, JunoHardware
  <2>3. platform # "JUNOR2" => HikeyInv'
    BY <1>1, <1>4, HikeyHardware
  <2> QED
    BY <1>1, <2>1, <2>2, <2>3 DEF IInv
<1>5. CASE UNCHANGED vars
  <2>1. UNCHANGED <<platform, loaded, todo, hw>>
    BY <1>5 DEF vars
  <2>2. HwInv'
    BY <1>1, <2>1 DEF HwInv, Units, Stores, Funnels, Tmcs, Links, Sink, Etm,
                      Chain, UnitState
  <2>3. JunoInv => JunoInv'
    BY <2>1 DEF JunoInv, JunoInit, JunoStop, JunoContinue
  <2>4. HikeyInv => HikeyInv'
    BY <2>1 DEF HikeyInv, HikeyInit, HikeyStop
  <2> QED
    BY <1>1, <2>1, <2>2, <2>3, <2>4 DEF IInv
<1> QED
  BY <1>2, <1>3, <1>4, <1>5 DEF Next

(* The invariant holds: Spec => []IInv. *)
THEOREM Invariant == Spec => []IInv
  BY InitInv, NextInv, PTL DEF Spec

-----------------------------------------------------------------------------
(* Where the accesses that a property is about occur in the calls. *)

JunoAccess(x) ==
  /\ x \in Access /\ x.unit \in Units
  /\ x.op \in Config =>
       \/ x.unit = "etf0" /\ (JunoInit(2) \/ JunoContinue(2))
       \/ x.unit = "etm" /\ JunoInit(18)
  /\ x.op = "dump" => x.unit = "etf0" /\ JunoStop(12)
  /\ x.op = "disable" /\ x.unit \in Tmcs => x.unit = "etf0" /\ JunoStop(13)

HikeyAccess(x) ==
  /\ x \in Access /\ x.unit \in Units
  /\ x.op \in Config =>
       \/ x.unit = "etr0" /\ HikeyInit(2)
       \/ x.unit = "etb2" /\ HikeyInit(8)
       \/ x.unit = "etb1" /\ HikeyInit(17)
       \/ x.unit = "etm" /\ HikeyInit(27)
  /\ x.op = "dump" => x.unit = "etr0" /\ HikeyStop(26)
  /\ x.op = "disable" /\ x.unit \in Tmcs =>
       \/ x.unit = "etb1" /\ HikeyStop(11)
       \/ x.unit = "etb2" /\ HikeyStop(19)
       \/ x.unit = "etr0" /\ HikeyStop(27)

LEMMA JunoNext ==
  ASSUME platform = "JUNOR2", JunoInv, ~Idle
  PROVE  JunoAccess(Head(todo))
<1> DEFINE x == Head(todo)
<1>1. ASSUME NEW p \in {enable_junor2_trace, disable_junor2_trace,
                        interrupt_junor2},
             NEW n \in 0 .. Len(p), todo = Rest(p, n)
      PROVE  /\ n + 1 \in 1 .. Len(p) /\ x = p[n + 1]
             /\ x \in Access /\ x.unit \in Units
  <2>1. p \in Seq(Access)
    BY JunoInitCall, JunoStopCall, JunoInterruptCall
  <2>2. n + 1 \in 1 .. Len(p) /\ x = p[n + 1]
    BY <1>1, <2>1, RestNext DEF Idle
  <2>3. x \in Access
    BY <2>1, <2>2
  <2>4. x.unit \in Units
    BY <2>2, JunoCallUnits
  <2> QED
    BY <2>2, <2>3, <2>4
<1>2. ASSUME NEW n \in 0 .. 22, todo = Rest(enable_junor2_trace, n),
             JunoInit(n)
      PROVE  JunoAccess(x)
  <2> DEFINE p == enable_junor2_trace
             i == n + 1
  <2>1. Len(p) = 22
    BY JunoInitCall
  <2>2. i \in 1 .. 22 /\ x = p[i] /\ x \in Access /\ x.unit \in Units
    <3>1. n \in 0 .. Len(p)
      BY <2>1
    <3> QED
      BY <1>1, <1>2, <2>1, <3>1
  <2>3. i \in 1 .. 22
    BY <1>2, <2>2
  <2>4. \A k \in 1 .. 22 :
          /\ p[k].unit \in {"etf0", "main_funnel", "cluster0_funnel", "pmu",
                            "etm"}
          /\ p[k].op \in Config =>
            \/ k = 3 /\ p[k].unit = "etf0"
            \/ k = 19 /\ p[k].unit = "etm"
          /\ p[k].op = "dump" =>
            FALSE
          /\ p[k].op = "disable" =>
            \/ k = 18 /\ p[k].unit = "etm"
    BY JunoInitCall, JunoInitAccesses
  <2>5. Tmcs = {"etf0"}
    BY JunoUnits
  <2>6. /\ i = 3 => JunoInit(2)
        /\ i = 19 => JunoInit(18)
    <3>1. i = 3 => n = 2
      OBVIOUS
    <3>2. i = 19 => n = 18
      OBVIOUS
    <3> QED
      BY <1>2, <3>1, <3>2
  <2> HIDE DEF p, i, x
  <2>7. /\ x.unit \in {"etf0", "main_funnel", "cluster0_funnel", "pmu", "etm"}
        /\ x.op \in Config =>
          \/ i = 3 /\ x.unit = "etf0"
          \/ i = 19 /\ x.unit = "etm"
        /\ x.op = "dump" =>
          FALSE
        /\ x.op = "disable" =>
          \/ i = 18 /\ x.unit = "etm"
    BY <2>2, <2>3, <2>4
  <2>8. x.op \in Config =>
          \/ x.unit = "etf0" /\ (JunoInit(2) \/ JunoContinue(2))
          \/ x.unit = "etm" /\ JunoInit(18)
    BY <2>6, <2>7
  <2> QED
    BY <2>2, <2>5, <2>6, <2>7, <2>8 DEF JunoAccess
<1>3. ASSUME NEW n \in 0 .. 15, todo = Rest(disable_junor2_trace, n),
             JunoStop(n)
      PROVE  JunoAccess(x)
  <2> DEFINE p == disable_junor2_trace
             i == n + 1
  <2>1. Len(p) = 15
    BY JunoStopCall
  <2>2. i \in 1 .. 15 /\ x = p[i] /\ x \in Access /\ x.unit \in Units
    <3>1. n \in 0 .. Len(p)
      BY <2>1
    <3> QED
      BY <1>1, <1>3, <2>1, <3>1
  <2>3. i \in 1 .. 15
    BY <1>3, <2>2
  <2>4. \A k \in 1 .. 15 :
          /\ p[k].unit \in {"etm", "cluster0_funnel", "main_funnel", "etf0"}
          /\ p[k].op \in Config =>
            FALSE
          /\ p[k].op = "dump" =>
            \/ k = 13 /\ p[k].unit = "etf0"
          /\ p[k].op = "disable" =>
            \/ k = 3 /\ p[k].unit = "etm"
            \/ k = 6 /\ p[k].unit = "cluster0_funnel"
            \/ k = 7 /\ p[k].unit = "main_funnel"
            \/ k = 14 /\ p[k].unit = "etf0"
    BY JunoStopCall, JunoStopAccesses
  <2>5. Tmcs = {"etf0"}
    BY JunoUnits
  <2>6. /\ i = 13 => JunoStop(12)
        /\ i = 14 => JunoStop(13)
    <3>1. i = 13 => n = 12
      OBVIOUS
    <3>2. i = 14 => n = 13
      OBVIOUS
    <3> QED
      BY <1>3, <3>1, <3>2
  <2> HIDE DEF p, i, x
  <2>7. /\ x.unit \in {"etm", "cluster0_funnel", "main_funnel", "etf0"}
        /\ x.op \in Config =>
          FALSE
        /\ x.op = "dump" =>
          \/ i = 13 /\ x.unit = "etf0"
        /\ x.op = "disable" =>
          \/ i = 3 /\ x.unit = "etm"
          \/ i = 6 /\ x.unit = "cluster0_funnel"
          \/ i = 7 /\ x.unit = "main_funnel"
          \/ i = 14 /\ x.unit = "etf0"
    BY <2>2, <2>3, <2>4
  <2>8. x.op \in Config =>
          \/ x.unit = "etf0" /\ (JunoInit(2) \/ JunoContinue(2))
          \/ x.unit = "etm" /\ JunoInit(18)
    BY <2>6, <2>7
  <2> QED
    BY <2>2, <2>5, <2>6, <2>7, <2>8 DEF JunoAccess
<1>4. ASSUME NEW n \in 0 .. 14, todo = Rest(interrupt_junor2, n),
             JunoStop(n)
      PROVE  JunoAccess(x)
  <2> DEFINE p == interrupt_junor2
             i == n + 1
  <2>1. Len(p) = 32
    BY JunoInterruptCall
  <2>2. i \in 1 .. 32 /\ x = p[i] /\ x \in Access /\ x.unit \in Units
    <3>1. n \in 0 .. Len(p)
      BY <2>1
    <3> QED
      BY <1>1, <1>4, <2>1, <3>1
  <2>3. i \in 1 .. 15
    BY <1>4, <2>2
  <2>4. \A k \in 1 .. 15 :
          /\ p[k].unit \in {"etm", "cluster0_funnel", "main_funnel", "etf0"}
          /\ p[k].op \in Config =>
            FALSE
          /\ p[k].op = "dump" =>
            \/ k = 13 /\ p[k].unit = "etf0"
          /\ p[k].op = "disable" =>
            \/ k = 3 /\ p[k].unit = "etm"
            \/ k = 6 /\ p[k].unit = "cluster0_funnel"
            \/ k = 7 /\ p[k].unit = "main_funnel"
            \/ k = 14 /\ p[k].unit = "etf0"
    BY JunoInterruptCall, JunoStopAccesses
  <2>5. Tmcs = {"etf0"}
    BY JunoUnits
  <2>6. /\ i = 13 => JunoStop(12)
        /\ i = 14 => JunoStop(13)
    <3>1. i = 13 => n = 12
      OBVIOUS
    <3>2. i = 14 => n = 13
      OBVIOUS
    <3> QED
      BY <1>4, <3>1, <3>2
  <2> HIDE DEF p, i, x
  <2>7. /\ x.unit \in {"etm", "cluster0_funnel", "main_funnel", "etf0"}
        /\ x.op \in Config =>
          FALSE
        /\ x.op = "dump" =>
          \/ i = 13 /\ x.unit = "etf0"
        /\ x.op = "disable" =>
          \/ i = 3 /\ x.unit = "etm"
          \/ i = 6 /\ x.unit = "cluster0_funnel"
          \/ i = 7 /\ x.unit = "main_funnel"
          \/ i = 14 /\ x.unit = "etf0"
    BY <2>2, <2>3, <2>4
  <2>8. x.op \in Config =>
          \/ x.unit = "etf0" /\ (JunoInit(2) \/ JunoContinue(2))
          \/ x.unit = "etm" /\ JunoInit(18)
    BY <2>6, <2>7
  <2> QED
    BY <2>2, <2>5, <2>6, <2>7, <2>8 DEF JunoAccess
<1>5. ASSUME NEW n \in 15 .. 32, todo = Rest(interrupt_junor2, n),
             JunoContinue(n - 15)
      PROVE  JunoAccess(x)
  <2> DEFINE p == interrupt_junor2
             i == n + 1
  <2>1. Len(p) = 32
    BY JunoInterruptCall
  <2>2. i \in 1 .. 32 /\ x = p[i] /\ x \in Access /\ x.unit \in Units
    <3>1. n \in 0 .. Len(p)
      BY <2>1
    <3> QED
      BY <1>1, <1>5, <2>1, <3>1
  <2>3. i \in 16 .. 32
    BY <1>5, <2>2
  <2>4. \A k \in 16 .. 32 :
          /\ p[k].unit \in {"etf0", "main_funnel", "cluster0_funnel", "etm"}
          /\ p[k].op \in Config =>
            \/ k = 18 /\ p[k].unit = "etf0"
          /\ p[k].op = "dump" =>
            FALSE
          /\ p[k].op = "disable" =>
            FALSE
    BY JunoInterruptCall, JunoContinueAccesses
  <2>5. Tmcs = {"etf0"}
    BY JunoUnits
  <2>6. /\ i = 18 => JunoContinue(2)
    <3>1. i = 18 => n - 15 = 2
      OBVIOUS
    <3> QED
      BY <1>5, <3>1
  <2> HIDE DEF p, i, x
  <2>7. /\ x.unit \in {"etf0", "main_funnel", "cluster0_funnel", "etm"}
        /\ x.op \in Config =>
          \/ i = 18 /\ x.unit = "etf0"
        /\ x.op = "dump" =>
          FALSE
        /\ x.op = "disable" =>
          FALSE
    BY <2>2, <2>3, <2>4
  <2>8. x.op \in Config =>
          \/ x.unit = "etf0" /\ (JunoInit(2) \/ JunoContinue(2))
          \/ x.unit = "etm" /\ JunoInit(18)
    BY <2>6, <2>7
  <2> QED
    BY <2>2, <2>5, <2>6, <2>7, <2>8 DEF JunoAccess
<1> HIDE DEF x
<1> QED
  BY <1>2, <1>3, <1>4, <1>5 DEF JunoInv, x

LEMMA HikeyNext ==
  ASSUME platform # "JUNOR2", HikeyInv, ~Idle
  PROVE  HikeyAccess(Head(todo))
<1> DEFINE x == Head(todo)
<1>1. ASSUME NEW p \in {enable_hikey970_trace, disable_hikey970_trace},
             NEW n \in 0 .. Len(p), todo = Rest(p, n)
      PROVE  /\ n + 1 \in 1 .. Len(p) /\ x = p[n + 1]
             /\ x \in Access /\ x.unit \in Units
  <2>1. p \in Seq(Access)
    BY HikeyInitCall, HikeyStopCall
  <2>2. n + 1 \in 1 .. Len(p) /\ x = p[n + 1]
    BY <1>1, <2>1, RestNext DEF Idle
  <2>3. x \in Access
    BY <2>1, <2>2
  <2>4. x.unit \in Units
    BY <2>2, HikeyCallUnits
  <2> QED
    BY <2>2, <2>3, <2>4
<1>2. ASSUME NEW n \in 0 .. 31, todo = Rest(enable_hikey970_trace, n),
             HikeyInit(n)
      PROVE  HikeyAccess(x)
  <2> DEFINE p == enable_hikey970_trace
             i == n + 1
  <2>1. Len(p) = 31
    BY HikeyInitCall
  <2>2. i \in 1 .. 31 /\ x = p[i] /\ x \in Access /\ x.unit \in Units
    <3>1. n \in 0 .. Len(p)
      BY <2>1
    <3> QED
      BY <1>1, <1>2, <2>1, <3>1
  <2>3. i \in 1 .. 31
    BY <1>2, <2>2
  <2>4. \A k \in 1 .. 31 :
          /\ p[k].unit \in {"etr0", "etb2", "funnel2", "etb1", "funnel1",
                            "etm"}
          /\ p[k].op \in Config =>
            \/ k = 3 /\ p[k].unit = "etr0"
            \/ k = 9 /\ p[k].unit = "etb2"
            \/ k = 18 /\ p[k].unit = "etb1"
            \/ k = 28 /\ p[k].unit = "etm"
          /\ p[k].op = "dump" =>
            FALSE
          /\ p[k].op = "disable" =>
            \/ k = 27 /\ p[k].unit = "etm"
    BY HikeyInitCall, HikeyInitAccesses
  <2>5. Tmcs = {"etb1", "etb2", "etr0"}
    BY HikeyUnits
  <2>6. /\ i = 3 => HikeyInit(2)
        /\ i = 9 => HikeyInit(8)
        /\ i = 18 => HikeyInit(17)
        /\ i = 28 => HikeyInit(27)
    <3>1. i = 3 => n = 2
      OBVIOUS
    <3>2. i = 9 => n = 8
      OBVIOUS
    <3>3. i = 18 => n = 17
      OBVIOUS
    <3>4. i = 28 => n = 27
      OBVIOUS
    <3> QED
      BY <1>2, <3>1, <3>2, <3>3, <3>4
  <2> HIDE DEF p, i, x
  <2>7. /\ x.unit \in {"etr0", "etb2", "funnel2", "etb1", "funnel1", "etm"}
        /\ x.op \in Config =>
          \/ i = 3 /\ x.unit = "etr0"
          \/ i = 9 /\ x.unit = "etb2"
          \/ i = 18 /\ x.unit = "etb1"
          \/ i = 28 /\ x.unit = "etm"
        /\ x.op = "dump" =>
          FALSE
        /\ x.op = "disable" =>
          \/ i = 27 /\ x.unit = "etm"
    BY <2>2, <2>3, <2>4
  <2>8. x.op \in Config =>
          \/ x.unit = "etr0" /\ HikeyInit(2)
          \/ x.unit = "etb2" /\ HikeyInit(8)
          \/ x.unit = "etb1" /\ HikeyInit(17)
          \/ x.unit = "etm" /\ HikeyInit(27)
    BY <2>6, <2>7
  <2> QED
    BY <2>2, <2>5, <2>6, <2>7, <2>8 DEF HikeyAccess
<1>3. ASSUME NEW n \in 0 .. 29, todo = Rest(disable_hikey970_trace, n),
             HikeyStop(n)
      PROVE  HikeyAccess(x)
  <2> DEFINE p == disable_hikey970_trace
             i == n + 1
  <2>1. Len(p) = 29
    BY HikeyStopCall
  <2>2. i \in 1 .. 29 /\ x = p[i] /\ x \in Access /\ x.unit \in Units
    <3>1. n \in 0 .. Len(p)
      BY <2>1
    <3> QED
      BY <1>1, <1>3, <2>1, <3>1
  <2>3. i \in 1 .. 29
    BY <1>3, <2>2
  <2>4. \A k \in 1 .. 29 :
          /\ p[k].unit \in {"etm", "funnel1", "etb1", "funnel2", "etb2",
                            "etr0"}
          /\ p[k].op \in Config =>
            FALSE
          /\ p[k].op = "dump" =>
            \/ k = 27 /\ p[k].unit = "etr0"
          /\ p[k].op = "disable" =>
            \/ k = 3 /\ p[k].unit = "etm"
            \/ k = 6 /\ p[k].unit = "funnel1"
            \/ k = 12 /\ p[k].unit = "etb1"
            \/ k = 14 /\ p[k].unit = "funnel2"
            \/ k = 20 /\ p[k].unit = "etb2"
            \/ k = 28 /\ p[k].unit = "etr0"
    BY HikeyStopCall, HikeyStopAccesses
  <2>5. Tmcs = {"etb1", "etb2", "etr0"}
    BY HikeyUnits
  <2>6. /\ i = 12 => HikeyStop(11)
        /\ i = 20 => HikeyStop(19)
        /\ i = 27 => HikeyStop(26)
        /\ i = 28 => HikeyStop(27)
    <3>1. i = 12 => n = 11
      OBVIOUS
    <3>2. i = 20 => n = 19
      OBVIOUS
    <3>3. i = 27 => n = 26
      OBVIOUS
    <3>4. i = 28 => n = 27
      OBVIOUS
    <3> QED
      BY <1>3, <3>1, <3>2, <3>3, <3>4
  <2> HIDE DEF p, i, x
  <2>7. /\ x.unit \in {"etm", "funnel1", "etb1", "funnel2", "etb2", "etr0"}
        /\ x.op \in Config =>
          FALSE
        /\ x.op = "dump" =>
          \/ i = 27 /\ x.unit = "etr0"
        /\ x.op = "disable" =>
          \/ i = 3 /\ x.unit = "etm"
          \/ i = 6 /\ x.unit = "funnel1"
          \/ i = 12 /\ x.unit = "etb1"
          \/ i = 14 /\ x.unit = "funnel2"
          \/ i = 20 /\ x.unit = "etb2"
          \/ i = 28 /\ x.unit = "etr0"
    BY <2>2, <2>3, <2>4
  <2>8. x.op \in Config =>
          \/ x.unit = "etr0" /\ HikeyInit(2)
          \/ x.unit = "etb2" /\ HikeyInit(8)
          \/ x.unit = "etb1" /\ HikeyInit(17)
          \/ x.unit = "etm" /\ HikeyInit(27)
    BY <2>6, <2>7
  <2> QED
    BY <2>2, <2>5, <2>6, <2>7, <2>8 DEF HikeyAccess
<1> HIDE DEF x
<1> QED
  BY <1>2, <1>3 DEF HikeyInv, x

-----------------------------------------------------------------------------
(* The properties. *)

LEMMA InvType == IInv => TypeOK
<1> SUFFICES ASSUME IInv PROVE TypeOK
  OBVIOUS
<1>1. platform \in Platforms /\ loaded \in BOOLEAN /\ hw \in [Units -> UnitState]
  BY DEF IInv, HwInv
<1>2. ASSUME NEW p \in Seq(Access), NEW n \in 0 .. Len(p), todo = Rest(p, n),
             \A i \in 1 .. Len(p) : p[i].unit \in Units
      PROVE  \A i \in DOMAIN todo : todo[i].unit \in Units
  <2>1. /\ DOMAIN todo = 1 .. Len(p) - n
        /\ \A i \in 1 .. Len(p) - n : todo[i] = p[n + i]
    BY <1>2, RestEnds
  <2> QED
    BY <1>2, <2>1
<1>3. CASE platform = "JUNOR2"
  <2>1. PICK p \in {enable_junor2_trace, disable_junor2_trace,
                    interrupt_junor2} :
          \E n \in 0 .. Len(p) : todo = Rest(p, n)
    <3>1. /\ Len(enable_junor2_trace) = 22 /\ Len(disable_junor2_trace) = 15
          /\ Len(interrupt_junor2) = 32
      BY JunoInitCall, JunoStopCall, JunoInterruptCall
    <3>2. /\ \A n \in 0 .. 14 : n \in 0 .. 32
          /\ \A n \in 15 .. 32 : n \in 0 .. 32
      OBVIOUS
    <3> QED
      BY <1>3, <3>1, <3>2 DEF IInv, JunoInv
  <2>2. p \in Seq(Access) /\ \A i \in 1 .. Len(p) : p[i].unit \in Units
    BY <1>3, JunoInitCall, JunoStopCall, JunoInterruptCall, JunoCallUnits
  <2> QED
    BY <1>1, <1>2, <2>1, <2>2 DEF TypeOK
<1>4. CASE platform # "JUNOR2"
  <2>1. PICK p \in {enable_hikey970_trace, disable_hikey970_trace} :
          \E n \in 0 .. Len(p) : todo = Rest(p, n)
    <3>1. Len(enable_hikey970_trace) = 31 /\ Len(disable_hikey970_trace) = 29
      BY HikeyInitCall, HikeyStopCall
    <3> QED
      BY <1>4, <3>1 DEF IInv, HikeyInv
  <2>2. p \in Seq(Access) /\ \A i \in 1 .. Len(p) : p[i].unit \in Units
    BY <1>4, HikeyInitCall, HikeyStopCall, HikeyCallUnits
  <2> QED
    BY <1>1, <1>2, <2>1, <2>2 DEF TypeOK
<1> QED
  BY <1>3, <1>4

(* Types and capacities: the driver only touches units of its platform,    *)
(* and no store ever holds more than it can.                               *)
THEOREM TypeCorrect == Spec => []TypeOK
  BY Invariant, InvType, PTL

-----------------------------------------------------------------------------
(* When the trace unit traces, the calls that enable it have enabled all   *)
(* that comes after it, and those that stop it have stopped nothing yet.   *)

LEMMA JunoTraces ==
  ASSUME JunoInv, hw["etm"].on
  PROVE  /\ hw["etm"].cfg = "flow"
         /\ hw["cluster0_funnel"].on /\ hw["main_funnel"].on
         /\ hw["etf0"].tmc = "capturing" /\ ~hw["etf0"].stop_on_flush
         /\ hw["etf0"].cfg = "circular"
         /\ hw["pmu"].on
<1> DEFINE Ready == /\ hw["etm"].cfg = "flow"
                    /\ hw["cluster0_funnel"].on /\ hw["main_funnel"].on
                    /\ hw["etf0"].tmc = "capturing" /\ ~hw["etf0"].stop_on_flush
                    /\ hw["etf0"].cfg = "circular"
                    /\ hw["pmu"].on
<1>1. ASSUME NEW n \in 0 .. 22, JunoInit(n) PROVE Ready
  <2>1. Done(n, 15, 7) >= 5
    BY <1>1 DEF JunoInit, EtmOn
  <2>2. n >= 20
    BY <2>1 DEF Done
  <2>3. /\ Done(n, 0, 6) = 6 /\ Done(n, 6, 3) = 3 /\ Done(n, 9, 3) = 3
        /\ Done(n, 12, 3) = 3 /\ Done(n, 15, 7) \in 5 .. 7
    BY <2>2 DEF Done
  <2> QED
    BY <1>1, <2>3 DEF JunoInit, TmcOn, FunnelOn, PmuOn, EtmOn
<1>2. ASSUME NEW n \in 0 .. 15, JunoStop(n) PROVE Ready
  <2>1. Done(n, 0, 5) < 3
    BY <1>2 DEF JunoStop, EtmOff
  <2>2. n < 3
    BY <2>1 DEF Done
  <2>3. Done(n, 5, 1) = 0 /\ Done(n, 6, 1) = 0 /\ Done(n, 7, 8) = 0
    BY <2>2 DEF Done
  <2> QED
    BY <1>2, <2>1, <2>2, <2>3
    DEF JunoStop, EtmOff, FunnelOff, SinkOff, TmcOff
<1>3. ASSUME NEW n \in 15 .. 32, JunoContinue(n - 15) PROVE Ready
  <2> DEFINE m == n - 15
  <2>1. m \in 0 .. 17 /\ JunoContinue(m)
    BY <1>3
  <2> HIDE DEF m
  <2>2. Done(m, 12, 5) >= 3
    BY <2>1 DEF JunoContinue, EtmContinue
  <2>3. m >= 15
    BY <2>1, <2>2 DEF Done
  <2>4. Done(m, 0, 6) = 6 /\ Done(m, 6, 3) = 3 /\ Done(m, 9, 3) = 3
    BY <2>1, <2>3 DEF Done
  <2> QED
    BY <2>1, <2>4 DEF JunoContinue, TmcOn, FunnelOn, EtmContinue
<1>4. \A n \in 0 .. 14 : n \in 0 .. 15
  OBVIOUS
<1> HIDE DEF Ready
<1>5. Ready
  BY <1>1, <1>2, <1>3, <1>4 DEF JunoInv
<1> QED
  BY <1>5 DEF Ready

LEMMA HikeyTraces ==
  ASSUME HikeyInv, hw["etm"].on
  PROVE  /\ hw["etm"].cfg = "flow"
         /\ hw["funnel1"].on /\ hw["funnel2"].on
         /\ \A t \in {"etb1", "etb2"} :
              /\ hw[t].tmc = "capturing" /\ ~hw[t].stop_on_flush
              /\ hw[t].cfg = "fifo"
         /\ hw["etr0"].tmc = "capturing" /\ ~hw["etr0"].stop_on_flush
         /\ hw["etr0"].cfg = "circular"
<1> DEFINE Ready == /\ hw["etm"].cfg = "flow"
                    /\ hw["funnel1"].on /\ hw["funnel2"].on
                    /\ \A t \in {"etb1", "etb2"} :
                         /\ hw[t].tmc = "capturing" /\ ~hw[t].stop_on_flush
                         /\ hw[t].cfg = "fifo"
                    /\ hw["etr0"].tmc = "capturing" /\ ~hw["etr0"].stop_on_flush
                    /\ hw["etr0"].cfg = "circular"
<1>1. ASSUME NEW n \in 0 .. 31, HikeyInit(n) PROVE Ready
  <2>1. Done(n, 24, 7) >= 5
    BY <1>1 DEF HikeyInit, EtmOn
  <2>2. n >= 29
    BY <2>1 DEF Done
  <2>3. /\ Done(n, 0, 6) = 6 /\ Done(n, 6, 6) = 6 /\ Done(n, 12, 3) = 3
        /\ Done(n, 15, 6) = 6 /\ Done(n, 21, 3) = 3
        /\ Done(n, 24, 7) \in 5 .. 7
    BY <2>2 DEF Done
  <2> QED
    BY <1>1, <2>3 DEF HikeyInit, TmcOn, FunnelOn, EtmOn
<1>2. ASSUME NEW n \in 0 .. 29, HikeyStop(n) PROVE Ready
  <2>1. Done(n, 0, 5) < 3
    BY <1>2 DEF HikeyStop, EtmOff
  <2>2. n < 3
    BY <2>1 DEF Done
  <2>3. /\ Done(n, 5, 1) = 0 /\ Done(n, 6, 7) = 0 /\ Done(n, 13, 1) = 0
        /\ Done(n, 14, 7) = 0 /\ Done(n, 21, 8) = 0
    BY <2>2 DEF Done
  <2> QED
    BY <1>2, <2>1, <2>2, <2>3
    DEF HikeyStop, EtmOff, FunnelOff, SinkOff, LinkOff, TmcOff
<1> HIDE DEF Ready
<1>3. Ready
  BY <1>1, <1>2 DEF HikeyInv
<1> QED
  BY <1>3 DEF Ready

LEMMA InvPathReady == IInv => PathReady
<1> SUFFICES ASSUME IInv, hw[Etm].on PROVE PathReady
  BY DEF PathReady
<1>1. CASE platform = "JUNOR2"
  <2>1. /\ Etm = "etm" /\ Sink = "etf0" /\ Links = {} /\ Tmcs = {"etf0"}
        /\ Funnels = {"cluster0_funnel", "main_funnel"}
    BY <1>1, JunoUnits
  <2>2. JunoInv /\ hw["etm"].on
    BY <1>1, <2>1 DEF IInv
  <2> QED
    BY <2>1, <2>2, JunoTraces DEF PathReady
<1>2. CASE platform # "JUNOR2"
  <2>1. /\ Etm = "etm" /\ Sink = "etr0" /\ Links = {"etb1", "etb2"}
        /\ Tmcs = {"etb1", "etb2", "etr0"} /\ Funnels = {"funnel1", "funnel2"}
    BY <1>2, HikeyUnits
  <2>2. HikeyInv /\ hw["etm"].on
    BY <1>2, <2>1 DEF IInv
  <2> QED
    BY <2>1, <2>2, HikeyTraces DEF PathReady
<1> QED
  BY <1>1, <1>2

(* At no point between two register accesses is the trace unit enabled     *)
(* while the path is not ready to take its trace: connect.c starts the     *)
(* path from the sink and stops it from the source.                        *)
THEOREM PathIsReady == Spec => []PathReady
  BY Invariant, InvPathReady, PTL

LEMMA InvPmuBeforeEtm == IInv => PmuBeforeEtm
<1> SUFFICES ASSUME IInv, platform = "JUNOR2", hw[Etm].on PROVE hw["pmu"].on
  BY DEF PmuBeforeEtm
<1>1. JunoInv /\ hw["etm"].on
  BY JunoUnits DEF IInv
<1> QED
  BY <1>1, JunoTraces

(* On Juno the PMU exports its events whenever the trace unit is enabled,  *)
(* as etm.c:102 asks for.                                                     *)
THEOREM PmuIsFirst == Spec => []PmuBeforeEtm
  BY Invariant, InvPmuBeforeEtm, PTL

LEMMA InvEnabled == IInv => EnabledBetweenCalls
<1> SUFFICES ASSUME IInv, Idle, loaded PROVE hw[Etm].on
  BY InvPathReady DEF EnabledBetweenCalls, PathReady
<1>1. CASE platform = "JUNOR2"
  <2>1. JunoInit(22) \/ JunoContinue(17)
    BY <1>1, JunoIdle DEF IInv
  <2>2. Done(22, 15, 7) = 7 /\ Done(17, 12, 5) = 5
    BY DEF Done
  <2>3. hw["etm"].on
    BY <2>1, <2>2 DEF JunoInit, JunoContinue, EtmOn, EtmContinue
  <2> QED
    BY <1>1, <2>3, JunoUnits
<1>2. CASE platform # "JUNOR2"
  <2>1. HikeyInit(31)
    BY <1>2, HikeyIdle DEF IInv
  <2>2. Done(31, 24, 7) = 7
    BY DEF Done
  <2>3. hw["etm"].on
    BY <2>1, <2>2 DEF HikeyInit, EtmOn
  <2> QED
    BY <1>2, <2>3, HikeyUnits
<1> QED
  BY <1>1, <1>2

(* After trace_init, and after each interrupt that paused and continued    *)
(* it, the trace unit is enabled, in the configuration of trace_init.      *)
THEOREM EnabledAfterCalls == Spec => []EnabledBetweenCalls
  BY Invariant, InvEnabled, PTL

-----------------------------------------------------------------------------
(* What the software locks are for: a unit that is not unlocked ignores    *)
(* writes, so that funnel_disable, which unlocks nothing, leaves the way   *)
(* open for the flush.                                                     *)

LEMMA InvComplete ==
  ASSUME LockGates
  PROVE  IInv => TraceComplete
<1> SUFFICES ASSUME IInv, ~Idle, Head(todo).op = "dump"
             PROVE  /\ hw[Sink].on /\ hw[Sink].tmc = "ready"
                    /\ \A u \in Stores \ {Sink} : hw[u].held = 0
  BY DEF TraceComplete
<1>1. CASE platform = "JUNOR2"
  <2>1. JunoStop(12)
    BY <1>1, JunoNext DEF IInv, JunoAccess
  <2>2. Done(12, 0, 5) = 5 /\ Done(12, 7, 8) = 5
    BY DEF Done
  <2>3. hw["etf0"].on /\ hw["etf0"].tmc = "ready" /\ hw["etm"].held = 0
    BY <2>1, <2>2 DEF JunoStop, SinkOff, TmcOff, Flushed
  <2> QED
    BY <1>1, <2>3, JunoUnits
<1>2. CASE platform # "JUNOR2"
  <2>1. HikeyStop(26)
    BY <1>2, HikeyNext DEF IInv, HikeyAccess
  <2>2. Done(26, 6, 7) = 7 /\ Done(26, 14, 7) = 7 /\ Done(26, 21, 8) = 5
    BY DEF Done
  <2>3. /\ hw["etr0"].on /\ hw["etr0"].tmc = "ready" /\ hw["etm"].held = 0
        /\ hw["etb1"].held = 0 /\ hw["etb2"].held = 0
    BY <2>1, <2>2 DEF HikeyStop, LinkOff, SinkOff, TmcOff, Flushed
  <2> QED
    BY <1>2, <2>3, HikeyUnits
<1> QED
  BY <1>1, <1>2

(* When the sink is read out it is enabled and has stopped, and everything *)
(* the trace unit produced is in it, though etm_disable does not wait for  *)
(* the unit to drain.                                                      *)
THEOREM TraceIsComplete ==
  ASSUME LockGates
  PROVE  Spec => []TraceComplete
  BY Invariant, InvComplete, PTL

LEMMA InvQuiet ==
  ASSUME LockGates
  PROVE  IInv => QuietConfig
<1> DEFINE Quiet(s) == ~s.locked /\ ~s.on /\ s.tmc = "ready" /\ s.held = 0
<1> SUFFICES ASSUME IInv, ~Idle, Head(todo).op \in Config
             PROVE  Quiet(hw[Head(todo).unit])
  BY DEF QuietConfig
<1>1. /\ Done(2, 0, 6) = 2 /\ Done(18, 15, 7) = 3 /\ Done(8, 6, 6) = 2
      /\ Done(17, 15, 6) = 2 /\ Done(27, 24, 7) = 3
  BY DEF Done
<1>2. ASSUME NEW u, NEW mode, TmcOn(hw[u], 2, mode) PROVE Quiet(hw[u])
  BY <1>2 DEF TmcOn
<1>3. hw["etm"].tmc = "ready"
  BY ChainFacts, JunoUnits, HikeyUnits DEF IInv, HwInv
<1>4. ASSUME EtmOn(hw["etm"], 3) PROVE Quiet(hw["etm"])
  BY <1>3, <1>4 DEF EtmOn
<1>5. CASE platform = "JUNOR2"
  <2>1. \/ Head(todo).unit = "etf0" /\ TmcOn(hw["etf0"], 2, "circular")
        \/ Head(todo).unit = "etm" /\ EtmOn(hw["etm"], 3)
    BY <1>1, <1>5, JunoNext DEF IInv, JunoAccess, JunoInit, JunoContinue
  <2> QED
    BY <1>2, <1>4, <2>1
<1>6. CASE platform # "JUNOR2"
  <2>1. \/ Head(todo).unit = "etr0" /\ TmcOn(hw["etr0"], 2, "circular")
        \/ Head(todo).unit = "etb2" /\ TmcOn(hw["etb2"], 2, "fifo")
        \/ Head(todo).unit = "etb1" /\ TmcOn(hw["etb1"], 2, "fifo")
        \/ Head(todo).unit = "etm" /\ EtmOn(hw["etm"], 3)
    BY <1>1, <1>6, HikeyNext DEF IInv, HikeyAccess, HikeyInit
  <2> QED
    BY <1>2, <1>4, <2>1
<1> QED
  BY <1>5, <1>6

(* A TMC is configured only while it is disabled and ready, the trace unit *)
(* only while it is disabled and drained.                                  *)
THEOREM ConfiguresQuietUnits ==
  ASSUME LockGates
  PROVE  Spec => []QuietConfig
  BY Invariant, InvQuiet, PTL

-----------------------------------------------------------------------------
LEMMA StepReads ==
  ASSUME IInv, [Next]_vars, NEW t \in Tmcs, hw[t].on, ~hw'[t].on
  PROVE  hw[t].held = 0
<1>1. t \in Units /\ HwInv
  BY ChainFacts DEF IInv
<1>2. CASE trace_init \/ trace_exit \/ pmu_irq_handler \/ UNCHANGED vars
  BY <1>2 DEF trace_init, trace_exit, pmu_irq_handler, vars
<1>3. CASE Hardware
  BY <1>1, <1>3, HardwareFacts DEF HardwareMakes
<1>4. CASE Driver
  <2> DEFINE x == Head(todo)
  <2>1. ~Idle
    BY <1>4 DEF Driver, WaitReady, WaitFlush, Dump, Write
  <2>2. /\ platform = "JUNOR2" => JunoAccess(x)
        /\ platform # "JUNOR2" => HikeyAccess(x)
    BY <2>1, JunoNext, HikeyNext DEF IInv
  <2>3. x \in Access /\ x.unit \in Units
    BY <2>2 DEF JunoAccess, HikeyAccess
  <2>4. /\ Makes(x.unit, x.op, hw[x.unit], hw'[x.unit])
        /\ \A w \in Units \ {x.unit} : hw'[w] = hw[w]
    BY <1>1, <1>4, <2>3, DriverMakes
  <2>5. x.unit = t
    BY <1>1, <2>4
  <2>6. x.op \in Ops /\ t \in Names /\ hw[t] \in UnitState
    BY <1>1, <2>3, ChainFacts DEF Access, HwInv
  <2> HIDE DEF x
  <2>7. Changes(t, x.op, hw[t], hw'[t])
    BY <2>4, <2>5, <2>6, AccessFacts
  <2>8. x.op = "disable"
    BY <2>7 DEF Changes
  <2>9. CASE platform = "JUNOR2"
    <3>1. t = "etf0" /\ JunoStop(13)
      BY <2>2, <2>5, <2>8, <2>9 DEF JunoAccess
    <3>2. Done(13, 7, 8) = 6
      BY DEF Done
    <3> QED
      BY <3>1, <3>2 DEF JunoStop, SinkOff
  <2>10. CASE platform # "JUNOR2"
    <3>1. \/ t = "etb1" /\ HikeyStop(11)
          \/ t = "etb2" /\ HikeyStop(19)
          \/ t = "etr0" /\ HikeyStop(27)
      BY <2>2, <2>5, <2>8, <2>10 DEF HikeyAccess
    <3>2. Done(11, 6, 7) = 5 /\ Done(19, 14, 7) = 5 /\ Done(27, 21, 8) = 6
      BY DEF Done
    <3> QED
      BY <3>1, <3>2 DEF HikeyStop, SinkOff, LinkOff, TmcOff
  <2> QED
    BY <2>9, <2>10
<1> QED
  BY <1>2, <1>3, <1>4 DEF Next

(* No TMC is disabled before its trace has been read or handed on: see     *)
(* tmc-etr.c:49.                                                           *)
THEOREM ReadsBeforeDisabling == Spec => ReadBeforeDisable
<1>1. IInv /\ [Next]_vars
        => [\A t \in Tmcs : hw[t].on /\ ~hw'[t].on => hw[t].held = 0]_vars
  BY StepReads
<1> QED
  BY <1>1, Invariant, PTL DEF Spec, ReadBeforeDisable
=============================================================================
