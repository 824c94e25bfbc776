--------------------------- MODULE TracePathCalls ---------------------------
(***************************************************************************)
(* What the driver's calls do to the trace path: the annotations of        *)
(* TracePath's calls, and the lemmas that each register access and each    *)
(* step of the hardware keeps them, for both platforms and all constants.  *)
(*                                                                         *)
(* An annotation says what state each unit is in when n of the call's      *)
(* accesses have been made.  A call is a sequence of functions and a       *)
(* function is a block of accesses to one unit, so that an annotation is   *)
(* written once for each function and used wherever a call contains it.    *)
(* TracePathProofs makes the inductive invariant of them.                  *)
(***************************************************************************)
EXTENDS TracePath, SequenceTheorems, TLAPS

(* The accesses that each function makes. *)
TmcOnOps(mode) == <<"unlock", "wait_ready", mode, "ffcr", "enable", "lock">>
LinkOffOps     == <<"unlock", "stop_on_flush", "flushman", "wait_flush",
                    "wait_ready", "disable", "lock">>
SinkOffOps     == <<"unlock", "stop_on_flush", "flushman", "wait_flush",
                    "wait_ready", "dump", "disable", "lock">>
PortOnOps      == <<"unlock", "enable", "lock">>
PortOffOps     == <<"disable">>
EtmOnOps       == <<"unlock", "os_unlock", "disable", "flow", "enable",
                    "os_lock", "lock">>
EtmOffOps      == <<"unlock", "os_unlock", "disable", "os_lock", "lock">>
EtmContinueOps == <<"unlock", "os_unlock", "enable", "os_lock", "lock">>

(* Of len accesses that come after a others, how many are among the first  *)
(* n accesses.                                                             *)
Done(n, a, len) == IF n <= a THEN 0 ELSE IF n < a + len THEN n - a ELSE len

-----------------------------------------------------------------------------
(* What is known of a unit's state s when a function has made its first k  *)
(* accesses.                                                               *)

TmcOn(s, k, mode) ==
  /\ k \in 1 .. 5 => ~s.locked
  /\ k >= 3 => s.cfg = mode
  /\ k >= 4 => ~s.stop_on_flush
  /\ k < 5 => ~s.on /\ s.tmc = "ready" /\ s.held = 0
  /\ k >= 5 => s.on /\ s.tmc = "capturing"

(* The flush that the function has asked for is over. *)
Flushed(s, k) == k >= 4 \/ (k = 3 /\ s.tmc # "flushing")

(* last: the access that disables the TMC *)
TmcOff(s, k, mode, last) ==
  /\ k \in 1 .. last => ~s.locked
  /\ s.on <=> k < last
  /\ k = 0 => s.cfg = mode /\ ~s.stop_on_flush
  /\ k \in 2 .. 4 => s.stop_on_flush
  /\ k < 3 => s.tmc = "capturing"
  /\ k = 3 => s.tmc \in {"flushing", "stopping", "ready"}
  /\ k = 4 => s.tmc \in {"stopping", "ready"}
  /\ k >= 5 => s.tmc = "ready"

SinkOff(s, k) ==
  /\ TmcOff(s, k, "circular", 7)
  /\ k >= 6 => s.held = 0

(* A link that has stopped has handed on its words. *)
LinkOff(s, k) ==
  /\ TmcOff(s, k, "fifo", 6)
  /\ k >= 3 /\ s.tmc = "ready" => s.held = 0

FunnelOn(s, k) ==
  /\ k \in {0, 3} <=> s.locked
  /\ k >= 2 => s.on

(* funnel_disable does not unlock the funnel: where locks gate writes, it  *)
(* stays open.                                                             *)
FunnelOff(s, k) ==
  /\ s.locked
  /\ k = 0 \/ LockGates => s.on

PmuOn(s, k) ==
  /\ k \in 1 .. 2 => ~s.locked
  /\ k >= 2 => s.on

EtmOn(s, k) ==
  /\ k \in 1 .. 6 => ~s.locked
  /\ k >= 4 => s.cfg = "flow"
  /\ s.on <=> k >= 5
  /\ LockGates /\ k < 5 => s.held = 0

EtmContinue(s, k) ==
  /\ k \in 1 .. 4 => ~s.locked
  /\ s.cfg = "flow"
  /\ s.on <=> k >= 3
  /\ LockGates /\ k < 3 => s.held = 0

EtmOff(s, k) ==
  /\ k \in 1 .. 4 => ~s.locked
  /\ s.on <=> k < 3
  /\ k < 3 => s.cfg = "flow"

-----------------------------------------------------------------------------
(* The annotated calls.                                                    *)

JunoInit(n) ==
  /\ TmcOn(hw["etf0"], Done(n, 0, 6), "circular")
  /\ FunnelOn(hw["main_funnel"], Done(n, 6, 3))
  /\ FunnelOn(hw["cluster0_funnel"], Done(n, 9, 3))
  /\ PmuOn(hw["pmu"], Done(n, 12, 3))
  /\ EtmOn(hw["etm"], Done(n, 15, 7))

JunoContinue(n) ==
  /\ TmcOn(hw["etf0"], Done(n, 0, 6), "circular")
  /\ FunnelOn(hw["main_funnel"], Done(n, 6, 3))
  /\ FunnelOn(hw["cluster0_funnel"], Done(n, 9, 3))
  /\ hw["pmu"].on
  /\ EtmContinue(hw["etm"], Done(n, 12, 5))

(* The end of trace_exit is also the state after power on: funnels and PMU *)
(* may be on or off.                                                       *)
JunoStop(n) ==
  /\ EtmOff(hw["etm"], Done(n, 0, 5))
  /\ hw["cluster0_funnel"].locked /\ hw["main_funnel"].locked
  /\ n < 15 => /\ FunnelOff(hw["cluster0_funnel"], Done(n, 5, 1))
               /\ FunnelOff(hw["main_funnel"], Done(n, 6, 1))
               /\ hw["pmu"].on
  /\ SinkOff(hw["etf0"], Done(n, 7, 8))
  /\ LockGates /\ Flushed(hw["etf0"], Done(n, 7, 8)) => hw["etm"].held = 0

HikeyInit(n) ==
  /\ TmcOn(hw["etr0"], Done(n, 0, 6), "circular")
  /\ TmcOn(hw["etb2"], Done(n, 6, 6), "fifo")
  /\ FunnelOn(hw["funnel2"], Done(n, 12, 3))
  /\ TmcOn(hw["etb1"], Done(n, 15, 6), "fifo")
  /\ FunnelOn(hw["funnel1"], Done(n, 21, 3))
  /\ EtmOn(hw["etm"], Done(n, 24, 7))

HikeyStop(n) ==
  /\ EtmOff(hw["etm"], Done(n, 0, 5))
  /\ hw["funnel1"].locked /\ hw["funnel2"].locked
  /\ n < 29 => /\ FunnelOff(hw["funnel1"], Done(n, 5, 1))
               /\ FunnelOff(hw["funnel2"], Done(n, 13, 1))
  /\ LinkOff(hw["etb1"], Done(n, 6, 7))
  /\ LinkOff(hw["etb2"], Done(n, 14, 7))
  /\ SinkOff(hw["etr0"], Done(n, 21, 8))
  /\ LockGates /\ Flushed(hw["etb1"], Done(n, 6, 7)) => hw["etm"].held = 0

(* The accesses of the interrupt, and what is left of a call. *)
interrupt_junor2 == pause_junor2_trace \o continue_junor2_trace

Rest(p, n) == [i \in 1 .. Len(p) - n |-> p[n + i]]

(* The registers hold what they can hold; only TMCs are ever not ready. *)
HwInv ==
  /\ hw \in [Units -> UnitState]
  /\ \A u \in Units \ Tmcs : hw[u].tmc = "ready"

-----------------------------------------------------------------------------
(* The units of each platform. *)
LEMMA JunoUnits ==
  ASSUME platform = "JUNOR2"
  PROVE  /\ Chain = <<"etm", "cluster0_funnel", "main_funnel", "etf0">>
         /\ Len(Chain) = 4 /\ DOMAIN Chain = 1 .. 4
         /\ Etm = "etm" /\ Sink = "etf0"
         /\ Links = {} /\ Tmcs = {"etf0"} /\ Stores = {"etm", "etf0"}
         /\ Funnels = {"cluster0_funnel", "main_funnel"}
         /\ Units = {"etm", "cluster0_funnel", "main_funnel", "etf0", "pmu"}
<1>1. /\ Chain = <<"etm", "cluster0_funnel", "main_funnel", "etf0">>
      /\ Len(Chain) = 4 /\ DOMAIN Chain = 1 .. 4
  BY DEF Chain
<1>2. {Chain[i] : i \in DOMAIN Chain} =
        {"etm", "cluster0_funnel", "main_funnel", "etf0"}
  BY <1>1
<1>3. Etm = "etm" /\ Sink = "etf0"
  BY <1>1 DEF Etm, Sink
<1>4. Links = {}
  BY <1>2 DEF Links
<1>5. Tmcs = {"etf0"} /\ Stores = {"etm", "etf0"}
  BY <1>3, <1>4 DEF Tmcs, Stores
<1>6. Funnels = {"cluster0_funnel", "main_funnel"}
  BY <1>2, <1>5 DEF Funnels
<1> QED
  BY <1>1, <1>3, <1>4, <1>5, <1>6 DEF Units

LEMMA HikeyUnits ==
  ASSUME platform # "JUNOR2"
  PROVE  /\ Chain = <<"etm", "funnel1", "etb1", "funnel2", "etb2", "etr0">>
         /\ Len(Chain) = 6 /\ DOMAIN Chain = 1 .. 6
         /\ Etm = "etm" /\ Sink = "etr0"
         /\ Links = {"etb1", "etb2"} /\ Tmcs = {"etb1", "etb2", "etr0"}
         /\ Stores = {"etm", "etb1", "etb2", "etr0"}
         /\ Funnels = {"funnel1", "funnel2"}
         /\ Units = {"etm", "funnel1", "etb1", "funnel2", "etb2", "etr0",
                     "pmu"}
<1>1. /\ Chain = <<"etm", "funnel1", "etb1", "funnel2", "etb2", "etr0">>
      /\ Len(Chain) = 6 /\ DOMAIN Chain = 1 .. 6
  BY DEF Chain
<1>2. {Chain[i] : i \in DOMAIN Chain} =
        {"etm", "funnel1", "etb1", "funnel2", "etb2", "etr0"}
  BY <1>1
<1>3. Etm = "etm" /\ Sink = "etr0"
  BY <1>1 DEF Etm, Sink
<1>4. Links = {"etb1", "etb2"}
  BY <1>2 DEF Links
<1>5. /\ Tmcs = {"etb1", "etb2", "etr0"}
      /\ Stores = {"etm", "etb1", "etb2", "etr0"}
  BY <1>3, <1>4 DEF Tmcs, Stores
<1>6. Funnels = {"funnel1", "funnel2"}
  BY <1>2, <1>5 DEF Funnels
<1> QED
  BY <1>1, <1>3, <1>4, <1>5, <1>6 DEF Units

-----------------------------------------------------------------------------
(* Calls as blocks of accesses: Block(p, a, u, ops) says that the accesses *)
(* of p after the first a are ops, on unit u.                              *)

Ops == {"unlock", "lock", "os_unlock", "os_lock", "flow", "circular", "fifo",
        "ffcr", "stop_on_flush", "flushman", "enable", "disable",
        "wait_ready", "wait_flush", "dump"}
Names == {"etm", "cluster0_funnel", "main_funnel", "etf0", "pmu", "funnel1",
          "etb1", "funnel2", "etb2", "etr0"}
Access == [unit : Names, op : Ops]

Block(p, a, u, ops) ==
  \A i \in a + 1 .. a + Len(ops) : p[i] = [unit |-> u, op |-> ops[i - a]]

-----------------------------------------------------------------------------
(* What each function's accesses are.                                      *)

(* Concatenations of as many elements as the functions have. *)
LEMMA ConcatIs ==
  ASSUME NEW S, NEW s \in Seq(S), NEW t \in Seq(S), NEW w \in Seq(S),
         Len(w) = Len(s) + Len(t),
         \A i \in 1 .. Len(s) : w[i] = s[i],
         \A i \in 1 .. Len(t) : w[Len(s) + i] = t[i]
  PROVE  s \o t = w
<1>1. /\ s \o t \in Seq(S) /\ Len(s \o t) = Len(s) + Len(t)
      /\ \A i \in 1 .. Len(s) + Len(t) :
           (s \o t)[i] = IF i <= Len(s) THEN s[i] ELSE t[i - Len(s)]
  BY ConcatProperties
<1>2. ASSUME NEW i \in 1 .. Len(w) PROVE w[i] = (s \o t)[i]
  <2>1. CASE i <= Len(s)
    BY <1>1, <2>1
  <2>2. CASE i > Len(s)
    <3>1. i - Len(s) \in 1 .. Len(t) /\ Len(s) + (i - Len(s)) = i
      BY <2>2
    <3> QED
      BY <1>1, <2>2, <3>1
  <2> QED
    BY <2>1, <2>2
<1> QED
  BY <1>1, <1>2, SeqEqual

LEMMA Concat1and1 ==
  ASSUME NEW a, NEW b
  PROVE  <<a>> \o <<b>> = <<a, b>>
<1> DEFINE S == {a, b}
           s == <<a>>
           t == <<b>>
           w == <<a, b>>
<1>1. s \in Seq(S) /\ t \in Seq(S) /\ w \in Seq(S)
  OBVIOUS
<1>2. Len(w) = Len(s) + Len(t)
  OBVIOUS
<1>3. \A i \in 1 .. Len(s) : w[i] = s[i]
  OBVIOUS
<1>4. \A i \in 1 .. Len(t) : w[Len(s) + i] = t[i]
  OBVIOUS
<1> HIDE DEF S, s, t, w
<1>5. s \o t = w
  BY <1>1, <1>2, <1>3, <1>4, ConcatIs
<1> QED
  BY <1>5 DEF s, t, w

LEMMA Concat2and4 ==
  ASSUME NEW a, NEW b, NEW c, NEW d, NEW e, NEW f
  PROVE  <<a, b>> \o <<c, d, e, f>> = <<a, b, c, d, e, f>>
<1> DEFINE S == {a, b, c, d, e, f}
           s == <<a, b>>
           t == <<c, d, e, f>>
           w == <<a, b, c, d, e, f>>
<1>1. s \in Seq(S) /\ t \in Seq(S) /\ w \in Seq(S)
  OBVIOUS
<1>2. Len(w) = Len(s) + Len(t)
  OBVIOUS
<1>3. \A i \in 1 .. Len(s) : w[i] = s[i]
  OBVIOUS
<1>4. \A i \in 1 .. Len(t) : w[Len(s) + i] = t[i]
  OBVIOUS
<1> HIDE DEF S, s, t, w
<1>5. s \o t = w
  BY <1>1, <1>2, <1>3, <1>4, ConcatIs
<1> QED
  BY <1>5 DEF s, t, w

LEMMA Concat3and1 ==
  ASSUME NEW a, NEW b, NEW c, NEW d
  PROVE  <<a, b, c>> \o <<d>> = <<a, b, c, d>>
<1> DEFINE S == {a, b, c, d}
           s == <<a, b, c>>
           t == <<d>>
           w == <<a, b, c, d>>
<1>1. s \in Seq(S) /\ t \in Seq(S) /\ w \in Seq(S)
  OBVIOUS
<1>2. Len(w) = Len(s) + Len(t)
  OBVIOUS
<1>3. \A i \in 1 .. Len(s) : w[i] = s[i]
  OBVIOUS
<1>4. \A i \in 1 .. Len(t) : w[Len(s) + i] = t[i]
  OBVIOUS
<1> HIDE DEF S, s, t, w
<1>5. s \o t = w
  BY <1>1, <1>2, <1>3, <1>4, ConcatIs
<1> QED
  BY <1>5 DEF s, t, w

LEMMA Concat1and4 ==
  ASSUME NEW a, NEW b, NEW c, NEW d, NEW e
  PROVE  <<a>> \o <<b, c, d, e>> = <<a, b, c, d, e>>
<1> DEFINE S == {a, b, c, d, e}
           s == <<a>>
           t == <<b, c, d, e>>
           w == <<a, b, c, d, e>>
<1>1. s \in Seq(S) /\ t \in Seq(S) /\ w \in Seq(S)
  OBVIOUS
<1>2. Len(w) = Len(s) + Len(t)
  OBVIOUS
<1>3. \A i \in 1 .. Len(s) : w[i] = s[i]
  OBVIOUS
<1>4. \A i \in 1 .. Len(t) : w[Len(s) + i] = t[i]
  OBVIOUS
<1> HIDE DEF S, s, t, w
<1>5. s \o t = w
  BY <1>1, <1>2, <1>3, <1>4, ConcatIs
<1> QED
  BY <1>5 DEF s, t, w

LEMMA Concat5and3 ==
  ASSUME NEW a, NEW b, NEW c, NEW d, NEW e, NEW f, NEW g, NEW h
  PROVE  <<a, b, c, d, e>> \o <<f, g, h>> = <<a, b, c, d, e, f, g, h>>
<1> DEFINE S == {a, b, c, d, e, f, g, h}
           s == <<a, b, c, d, e>>
           t == <<f, g, h>>
           w == <<a, b, c, d, e, f, g, h>>
<1>1. s \in Seq(S) /\ t \in Seq(S) /\ w \in Seq(S)
  OBVIOUS
<1>2. Len(w) = Len(s) + Len(t)
  OBVIOUS
<1>3. \A i \in 1 .. Len(s) : w[i] = s[i]
  OBVIOUS
<1>4. \A i \in 1 .. Len(t) : w[Len(s) + i] = t[i]
  OBVIOUS
<1> HIDE DEF S, s, t, w
<1>5. s \o t = w
  BY <1>1, <1>2, <1>3, <1>4, ConcatIs
<1> QED
  BY <1>5 DEF s, t, w

LEMMA Concat5and2 ==
  ASSUME NEW a, NEW b, NEW c, NEW d, NEW e, NEW f, NEW g
  PROVE  <<a, b, c, d, e>> \o <<f, g>> = <<a, b, c, d, e, f, g>>
<1> DEFINE S == {a, b, c, d, e, f, g}
           s == <<a, b, c, d, e>>
           t == <<f, g>>
           w == <<a, b, c, d, e, f, g>>
<1>1. s \in Seq(S) /\ t \in Seq(S) /\ w \in Seq(S)
  OBVIOUS
<1>2. Len(w) = Len(s) + Len(t)
  OBVIOUS
<1>3. \A i \in 1 .. Len(s) : w[i] = s[i]
  OBVIOUS
<1>4. \A i \in 1 .. Len(t) : w[Len(s) + i] = t[i]
  OBVIOUS
<1> HIDE DEF S, s, t, w
<1>5. s \o t = w
  BY <1>1, <1>2, <1>3, <1>4, ConcatIs
<1> QED
  BY <1>5 DEF s, t, w

LEMMA OpsTypes ==
  /\ \A mode \in {"circular", "fifo"} :
       TmcOnOps(mode) \in Seq(Ops) /\ Len(TmcOnOps(mode)) = 6
  /\ LinkOffOps \in Seq(Ops) /\ Len(LinkOffOps) = 7
  /\ SinkOffOps \in Seq(Ops) /\ Len(SinkOffOps) = 8
  /\ PortOnOps \in Seq(Ops) /\ Len(PortOnOps) = 3
  /\ PortOffOps \in Seq(Ops) /\ Len(PortOffOps) = 1
  /\ EtmOnOps \in Seq(Ops) /\ Len(EtmOnOps) = 7
  /\ EtmOffOps \in Seq(Ops) /\ Len(EtmOffOps) = 5
  /\ EtmContinueOps \in Seq(Ops) /\ Len(EtmContinueOps) = 5
  BY DEF Ops, TmcOnOps, LinkOffOps, SinkOffOps, PortOnOps, PortOffOps, EtmOnOps,
         EtmOffOps, EtmContinueOps

LEMMA FunctionOps ==
  ASSUME NEW u
  PROVE  /\ tmc_enable_etf_sink(u) = On(u, TmcOnOps("circular"))
         /\ tmc_enable_etr_sink(u) = On(u, TmcOnOps("circular"))
         /\ tmc_enable_etf_link(u) = On(u, TmcOnOps("fifo"))
         /\ tmc_disable_etf_sink(u) = On(u, SinkOffOps)
         /\ tmc_disable_etr_sink(u) = On(u, SinkOffOps)
         /\ tmc_disable_etf_link(u) = On(u, LinkOffOps)
         /\ funnel_enable(u) = On(u, PortOnOps)
         /\ set_pmu_export(u) = On(u, PortOnOps)
         /\ funnel_disable(u) = On(u, PortOffOps)
         /\ etm_enable_trace_program_flow(u) = On(u, EtmOnOps)
         /\ etm_disable(u) = On(u, EtmOffOps)
         /\ etm_continue(u) = On(u, EtmContinueOps)
<1>1. ASSUME NEW mode \in {"circular", "fifo"}
      PROVE  <<"unlock">> \o tmc_wait_for_tmcready
               \o <<mode, "ffcr", "enable", "lock">> = TmcOnOps(mode)
  <2>1. <<"unlock">> \o <<"wait_ready">> = <<"unlock", "wait_ready">>
    BY Concat1and1
  <2>2. <<"unlock", "wait_ready">> \o <<mode, "ffcr", "enable", "lock">>
          = <<"unlock", "wait_ready", mode, "ffcr", "enable", "lock">>
    BY Concat2and4
  <2> QED
    BY <2>1, <2>2 DEF TmcOnOps, tmc_wait_for_tmcready
<1>2. tmc_flush_and_stop =
        <<"stop_on_flush", "flushman", "wait_flush", "wait_ready">>
  BY Concat3and1 DEF tmc_flush_and_stop, tmc_wait_for_tmcready
<1>3. <<"unlock">> \o tmc_flush_and_stop =
        <<"unlock", "stop_on_flush", "flushman", "wait_flush", "wait_ready">>
  BY <1>2, Concat1and4
<1>4. <<"unlock", "stop_on_flush", "flushman", "wait_flush", "wait_ready">>
        \o <<"dump", "disable", "lock">> = SinkOffOps
  BY Concat5and3 DEF SinkOffOps
<1>5. <<"unlock", "stop_on_flush", "flushman", "wait_flush", "wait_ready">>
        \o <<"disable", "lock">> = LinkOffOps
  BY Concat5and2 DEF LinkOffOps
<1> QED
  BY <1>1, <1>3, <1>4, <1>5
  DEF tmc_enable_etf_sink, tmc_enable_etr_sink, tmc_enable_etf_link,
      tmc_disable_etf_sink, tmc_disable_etr_sink, tmc_disable_etf_link,
      funnel_enable, set_pmu_export, funnel_disable,
      etm_enable_trace_program_flow, etm_disable, etm_continue, PortOnOps,
      PortOffOps, EtmOnOps, EtmOffOps, EtmContinueOps

(* p goes on after s with the accesses o to unit v. *)
Extends(p, s, v, o) ==
  /\ p \in Seq(Access) /\ Len(p) = Len(s) + Len(o)
  /\ \A i \in 1 .. Len(s) : p[i] = s[i]
  /\ \A i \in Len(s) + 1 .. Len(s) + Len(o) :
       p[i] = [unit |-> v, op |-> o[i - Len(s)]]

LEMMA OnOps ==
  ASSUME NEW u \in Names, NEW ops \in Seq(Ops)
  PROVE  /\ On(u, ops) \in Seq(Access) /\ Len(On(u, ops)) = Len(ops)
         /\ \A i \in 1 .. Len(ops) : On(u, ops)[i] = [unit |-> u, op |-> ops[i]]
<1>1. On(u, ops) = [i \in 1 .. Len(ops) |-> [unit |-> u, op |-> ops[i]]]
  BY DEF On
<1>2. \A i \in 1 .. Len(ops) : [unit |-> u, op |-> ops[i]] \in Access
  BY DEF Access
<1>3. On(u, ops) \in Seq(Access) /\ Len(On(u, ops)) = Len(ops)
  BY <1>1, <1>2
<1> QED
  BY <1>1, <1>3

LEMMA AppendFunction ==
  ASSUME NEW s \in Seq(Access), NEW v \in Names, NEW o \in Seq(Ops)
  PROVE  s \o On(v, o) \in Seq(Access) /\ Extends(s \o On(v, o), s, v, o)
<1>1. /\ On(v, o) \in Seq(Access) /\ Len(On(v, o)) = Len(o)
      /\ \A k \in 1 .. Len(o) : On(v, o)[k] = [unit |-> v, op |-> o[k]]
  BY OnOps
<1>2. Len(s) \in Nat /\ Len(o) \in Nat
  OBVIOUS
<1> DEFINE t == On(v, o)
<1> HIDE DEF t
<1>3. /\ s \o t \in Seq(Access) /\ Len(s \o t) = Len(s) + Len(t)
      /\ \A i \in 1 .. Len(s) : (s \o t)[i] = s[i]
      /\ \A i \in Len(s) + 1 .. Len(s) + Len(t) :
           (s \o t)[i] = t[i - Len(s)]
  BY <1>1 DEF t
<1>4. \A i \in Len(s) + 1 .. Len(s) + Len(t) : i - Len(s) \in 1 .. Len(t)
  BY <1>1, <1>2 DEF t
<1> QED
  BY <1>1, <1>2, <1>3, <1>4 DEF t, Extends

(* The calls, block by block: p makes these accesses after its first a. *)
JunoInitBlocks(p, a) ==
  /\ Block(p, a, "etf0", TmcOnOps("circular"))
  /\ Block(p, a + 6, "main_funnel", PortOnOps)
  /\ Block(p, a + 9, "cluster0_funnel", PortOnOps)
  /\ Block(p, a + 12, "pmu", PortOnOps)
  /\ Block(p, a + 15, "etm", EtmOnOps)

JunoStopBlocks(p, a) ==
  /\ Block(p, a, "etm", EtmOffOps)
  /\ Block(p, a + 5, "cluster0_funnel", PortOffOps)
  /\ Block(p, a + 6, "main_funnel", PortOffOps)
  /\ Block(p, a + 7, "etf0", SinkOffOps)

JunoContinueBlocks(p, a) ==
  /\ Block(p, a, "etf0", TmcOnOps("circular"))
  /\ Block(p, a + 6, "main_funnel", PortOnOps)
  /\ Block(p, a + 9, "cluster0_funnel", PortOnOps)
  /\ Block(p, a + 12, "etm", EtmContinueOps)

HikeyInitBlocks(p, a) ==
  /\ Block(p, a, "etr0", TmcOnOps("circular"))
  /\ Block(p, a + 6, "etb2", TmcOnOps("fifo"))
  /\ Block(p, a + 12, "funnel2", PortOnOps)
  /\ Block(p, a + 15, "etb1", TmcOnOps("fifo"))
  /\ Block(p, a + 21, "funnel1", PortOnOps)
  /\ Block(p, a + 24, "etm", EtmOnOps)

HikeyStopBlocks(p, a) ==
  /\ Block(p, a, "etm", EtmOffOps)
  /\ Block(p, a + 5, "funnel1", PortOffOps)
  /\ Block(p, a + 6, "etb1", LinkOffOps)
  /\ Block(p, a + 13, "funnel2", PortOffOps)
  /\ Block(p, a + 14, "etb2", LinkOffOps)
  /\ Block(p, a + 21, "etr0", SinkOffOps)

LEMMA JunoInitCall ==
  /\ enable_junor2_trace \in Seq(Access) /\ Len(enable_junor2_trace) = 22
  /\ JunoInitBlocks(enable_junor2_trace, 0)
<1> DEFINE CircularOps == TmcOnOps("circular")
           a == On("etf0", CircularOps)
           b == a \o On("main_funnel", PortOnOps)
           c == b \o On("cluster0_funnel", PortOnOps)
           d == c \o On("pmu", PortOnOps)
           e == d \o On("etm", EtmOnOps)
<1>1. e = enable_junor2_trace
  BY FunctionOps DEF enable_junor2_trace
<1>2. /\ CircularOps \in Seq(Ops) /\ Len(CircularOps) = 6
      /\ PortOnOps \in Seq(Ops) /\ Len(PortOnOps) = 3
      /\ EtmOnOps \in Seq(Ops) /\ Len(EtmOnOps) = 7
  BY OpsTypes
<1> HIDE DEF CircularOps
<1>3. a \in Seq(Access) /\ Len(a) = 6 /\ Block(a, 0, "etf0", CircularOps)
  BY <1>2, OnOps DEF Block, Names
<1> HIDE DEF a
<1>4. b \in Seq(Access) /\ Extends(b, a, "main_funnel", PortOnOps)
  BY <1>2, <1>3, AppendFunction DEF Names
<1> HIDE DEF b
<1>5. c \in Seq(Access) /\ Extends(c, b, "cluster0_funnel", PortOnOps)
  BY <1>2, <1>4, AppendFunction DEF Names
<1> HIDE DEF c
<1>6. d \in Seq(Access) /\ Extends(d, c, "pmu", PortOnOps)
  BY <1>2, <1>5, AppendFunction DEF Names
<1> HIDE DEF d
<1>7. e \in Seq(Access) /\ Extends(e, d, "etm", EtmOnOps)
  BY <1>2, <1>6, AppendFunction DEF Names
<1> HIDE DEF e
<1>8. /\ Len(b) = 9
      /\ Block(b, 0, "etf0", CircularOps)
      /\ Block(b, 6, "main_funnel", PortOnOps)
  BY <1>2, <1>3, <1>4 DEF Block, Extends
<1>9. /\ Len(c) = 12
      /\ Block(c, 0, "etf0", CircularOps)
      /\ Block(c, 6, "main_funnel", PortOnOps)
      /\ Block(c, 9, "cluster0_funnel", PortOnOps)
  BY <1>2, <1>8, <1>5 DEF Block, Extends
<1>10. /\ Len(d) = 15
       /\ Block(d, 0, "etf0", CircularOps)
       /\ Block(d, 6, "main_funnel", PortOnOps)
       /\ Block(d, 9, "cluster0_funnel", PortOnOps)
       /\ Block(d, 12, "pmu", PortOnOps)
  BY <1>2, <1>9, <1>6 DEF Block, Extends
<1>11. /\ Len(e) = 22
       /\ Block(e, 0, "etf0", CircularOps)
       /\ Block(e, 6, "main_funnel", PortOnOps)
       /\ Block(e, 9, "cluster0_funnel", PortOnOps)
       /\ Block(e, 12, "pmu", PortOnOps)
       /\ Block(e, 15, "etm", EtmOnOps)
  BY <1>2, <1>10, <1>7 DEF Block, Extends
<1> QED
  BY <1>1, <1>7, <1>11 DEF JunoInitBlocks, CircularOps

LEMMA JunoStopCall ==
  /\ disable_junor2_trace \in Seq(Access) /\ Len(disable_junor2_trace) = 15
  /\ JunoStopBlocks(disable_junor2_trace, 0)
<1> DEFINE a == On("etm", EtmOffOps)
           b == a \o On("cluster0_funnel", PortOffOps)
           c == b \o On("main_funnel", PortOffOps)
           d == c \o On("etf0", SinkOffOps)
<1>1. d = disable_junor2_trace
  BY FunctionOps DEF disable_junor2_trace
<1>2. /\ EtmOffOps \in Seq(Ops) /\ Len(EtmOffOps) = 5
      /\ PortOffOps \in Seq(Ops) /\ Len(PortOffOps) = 1
      /\ SinkOffOps \in Seq(Ops) /\ Len(SinkOffOps) = 8
  BY OpsTypes
<1>3. a \in Seq(Access) /\ Len(a) = 5 /\ Block(a, 0, "etm", EtmOffOps)
  BY <1>2, OnOps DEF Block, Names
<1> HIDE DEF a
<1>4. b \in Seq(Access) /\ Extends(b, a, "cluster0_funnel", PortOffOps)
  BY <1>2, <1>3, AppendFunction DEF Names
<1> HIDE DEF b
<1>5. c \in Seq(Access) /\ Extends(c, b, "main_funnel", PortOffOps)
  BY <1>2, <1>4, AppendFunction DEF Names
<1> HIDE DEF c
<1>6. d \in Seq(Access) /\ Extends(d, c, "etf0", SinkOffOps)
  BY <1>2, <1>5, AppendFunction DEF Names
<1> HIDE DEF d
<1>7. /\ Len(b) = 6
      /\ Block(b, 0, "etm", EtmOffOps)
      /\ Block(b, 5, "cluster0_funnel", PortOffOps)
  BY <1>2, <1>3, <1>4 DEF Block, Extends
<1>8. /\ Len(c) = 7
      /\ Block(c, 0, "etm", EtmOffOps)
      /\ Block(c, 5, "cluster0_funnel", PortOffOps)
      /\ Block(c, 6, "main_funnel", PortOffOps)
  BY <1>2, <1>7, <1>5 DEF Block, Extends
<1>9. /\ Len(d) = 15
      /\ Block(d, 0, "etm", EtmOffOps)
      /\ Block(d, 5, "cluster0_funnel", PortOffOps)
      /\ Block(d, 6, "main_funnel", PortOffOps)
      /\ Block(d, 7, "etf0", SinkOffOps)
  BY <1>2, <1>8, <1>6 DEF Block, Extends
<1> QED
  BY <1>1, <1>6, <1>9 DEF JunoStopBlocks

LEMMA JunoContinueCall ==
  /\ continue_junor2_trace \in Seq(Access) /\ Len(continue_junor2_trace) = 17
  /\ JunoContinueBlocks(continue_junor2_trace, 0)
<1> DEFINE CircularOps == TmcOnOps("circular")
           a == On("etf0", CircularOps)
           b == a \o On("main_funnel", PortOnOps)
           c == b \o On("cluster0_funnel", PortOnOps)
           d == c \o On("etm", EtmContinueOps)
<1>1. d = continue_junor2_trace
  BY FunctionOps DEF continue_junor2_trace
<1>2. /\ CircularOps \in Seq(Ops) /\ Len(CircularOps) = 6
      /\ PortOnOps \in Seq(Ops) /\ Len(PortOnOps) = 3
      /\ EtmContinueOps \in Seq(Ops) /\ Len(EtmContinueOps) = 5
  BY OpsTypes
<1> HIDE DEF CircularOps
<1>3. a \in Seq(Access) /\ Len(a) = 6 /\ Block(a, 0, "etf0", CircularOps)
  BY <1>2, OnOps DEF Block, Names
<1> HIDE DEF a
<1>4. b \in Seq(Access) /\ Extends(b, a, "main_funnel", PortOnOps)
  BY <1>2, <1>3, AppendFunction DEF Names
<1> HIDE DEF b
<1>5. c \in Seq(Access) /\ Extends(c, b, "cluster0_funnel", PortOnOps)
  BY <1>2, <1>4, AppendFunction DEF Names
<1> HIDE DEF c
<1>6. d \in Seq(Access) /\ Extends(d, c, "etm", EtmContinueOps)
  BY <1>2, <1>5, AppendFunction DEF Names
<1> HIDE DEF d
<1>7. /\ Len(b) = 9
      /\ Block(b, 0, "etf0", CircularOps)
      /\ Block(b, 6, "main_funnel", PortOnOps)
  BY <1>2, <1>3, <1>4 DEF Block, Extends
<1>8. /\ Len(c) = 12
      /\ Block(c, 0, "etf0", CircularOps)
      /\ Block(c, 6, "main_funnel", PortOnOps)
      /\ Block(c, 9, "cluster0_funnel", PortOnOps)
  BY <1>2, <1>7, <1>5 DEF Block, Extends
<1>9. /\ Len(d) = 17
      /\ Block(d, 0, "etf0", CircularOps)
      /\ Block(d, 6, "main_funnel", PortOnOps)
      /\ Block(d, 9, "cluster0_funnel", PortOnOps)
      /\ Block(d, 12, "etm", EtmContinueOps)
  BY <1>2, <1>8, <1>6 DEF Block, Extends
<1> QED
  BY <1>1, <1>6, <1>9 DEF JunoContinueBlocks, CircularOps

LEMMA HikeyInitCall ==
  /\ enable_hikey970_trace \in Seq(Access) /\ Len(enable_hikey970_trace) = 31
  /\ HikeyInitBlocks(enable_hikey970_trace, 0)
<1> DEFINE CircularOps == TmcOnOps("circular")
           FifoOps == TmcOnOps("fifo")
           a == On("etr0", CircularOps)
           b == a \o On("etb2", FifoOps)
           c == b \o On("funnel2", PortOnOps)
           d == c \o On("etb1", FifoOps)
           e == d \o On("funnel1", PortOnOps)
           f == e \o On("etm", EtmOnOps)
<1>1. f = enable_hikey970_trace
  BY FunctionOps DEF enable_hikey970_trace
<1>2. /\ CircularOps \in Seq(Ops) /\ Len(CircularOps) = 6
      /\ FifoOps \in Seq(Ops) /\ Len(FifoOps) = 6
      /\ PortOnOps \in Seq(Ops) /\ Len(PortOnOps) = 3
      /\ EtmOnOps \in Seq(Ops) /\ Len(EtmOnOps) = 7
  BY OpsTypes
<1> HIDE DEF CircularOps, FifoOps
<1>3. a \in Seq(Access) /\ Len(a) = 6 /\ Block(a, 0, "etr0", CircularOps)
  BY <1>2, OnOps DEF Block, Names
<1> HIDE DEF a
<1>4. b \in Seq(Access) /\ Extends(b, a, "etb2", FifoOps)
  BY <1>2, <1>3, AppendFunction DEF Names
<1> HIDE DEF b
<1>5. c \in Seq(Access) /\ Extends(c, b, "funnel2", PortOnOps)
  BY <1>2, <1>4, AppendFunction DEF Names
<1> HIDE DEF c
<1>6. d \in Seq(Access) /\ Extends(d, c, "etb1", FifoOps)
  BY <1>2, <1>5, AppendFunction DEF Names
<1> HIDE DEF d
<1>7. e \in Seq(Access) /\ Extends(e, d, "funnel1", PortOnOps)
  BY <1>2, <1>6, AppendFunction DEF Names
<1> HIDE DEF e
<1>8. f \in Seq(Access) /\ Extends(f, e, "etm", EtmOnOps)
  BY <1>2, <1>7, AppendFunction DEF Names
<1> HIDE DEF f
<1>9. /\ Len(b) = 12
      /\ Block(b, 0, "etr0", CircularOps)
      /\ Block(b, 6, "etb2", FifoOps)
  BY <1>2, <1>3, <1>4 DEF Block, Extends
<1>10. /\ Len(c) = 15
       /\ Block(c, 0, "etr0", CircularOps)
       /\ Block(c, 6, "etb2", FifoOps)
       /\ Block(c, 12, "funnel2", PortOnOps)
  BY <1>2, <1>9, <1>5 DEF Block, Extends
<1>11. /\ Len(d) = 21
       /\ Block(d, 0, "etr0", CircularOps)
       /\ Block(d, 6, "etb2", FifoOps)
       /\ Block(d, 12, "funnel2", PortOnOps)
       /\ Block(d, 15, "etb1", FifoOps)
  BY <1>2, <1>10, <1>6 DEF Block, Extends
<1>12. /\ Len(e) = 24
       /\ Block(e, 0, "etr0", CircularOps)
       /\ Block(e, 6, "etb2", FifoOps)
       /\ Block(e, 12, "funnel2", PortOnOps)
       /\ Block(e, 15, "etb1", FifoOps)
       /\ Block(e, 21, "funnel1", PortOnOps)
  BY <1>2, <1>11, <1>7 DEF Block, Extends
<1>13. /\ Len(f) = 31
       /\ Block(f, 0, "etr0", CircularOps)
       /\ Block(f, 6, "etb2", FifoOps)
       /\ Block(f, 12, "funnel2", PortOnOps)
       /\ Block(f, 15, "etb1", FifoOps)
       /\ Block(f, 21, "funnel1", PortOnOps)
       /\ Block(f, 24, "etm", EtmOnOps)
  BY <1>2, <1>12, <1>8 DEF Block, Extends
<1> QED
  BY <1>1, <1>8, <1>13 DEF HikeyInitBlocks, CircularOps, FifoOps

LEMMA HikeyStopCall ==
  /\ disable_hikey970_trace \in Seq(Access) /\ Len(disable_hikey970_trace) = 29
  /\ HikeyStopBlocks(disable_hikey970_trace, 0)
<1> DEFINE a == On("etm", EtmOffOps)
           b == a \o On("funnel1", PortOffOps)
           c == b \o On("etb1", LinkOffOps)
           d == c \o On("funnel2", PortOffOps)
           e == d \o On("etb2", LinkOffOps)
           f == e \o On("etr0", SinkOffOps)
<1>1. f = disable_hikey970_trace
  BY FunctionOps DEF disable_hikey970_trace
<1>2. /\ EtmOffOps \in Seq(Ops) /\ Len(EtmOffOps) = 5
      /\ PortOffOps \in Seq(Ops) /\ Len(PortOffOps) = 1
      /\ LinkOffOps \in Seq(Ops) /\ Len(LinkOffOps) = 7
      /\ SinkOffOps \in Seq(Ops) /\ Len(SinkOffOps) = 8
  BY OpsTypes
<1>3. a \in Seq(Access) /\ Len(a) = 5 /\ Block(a, 0, "etm", EtmOffOps)
  BY <1>2, OnOps DEF Block, Names
<1> HIDE DEF a
<1>4. b \in Seq(Access) /\ Extends(b, a, "funnel1", PortOffOps)
  BY <1>2, <1>3, AppendFunction DEF Names
<1> HIDE DEF b
<1>5. c \in Seq(Access) /\ Extends(c, b, "etb1", LinkOffOps)
  BY <1>2, <1>4, AppendFunction DEF Names
<1> HIDE DEF c
<1>6. d \in Seq(Access) /\ Extends(d, c, "funnel2", PortOffOps)
  BY <1>2, <1>5, AppendFunction DEF Names
<1> HIDE DEF d
<1>7. e \in Seq(Access) /\ Extends(e, d, "etb2", LinkOffOps)
  BY <1>2, <1>6, AppendFunction DEF Names
<1> HIDE DEF e
<1>8. f \in Seq(Access) /\ Extends(f, e, "etr0", SinkOffOps)
  BY <1>2, <1>7, AppendFunction DEF Names
<1> HIDE DEF f
<1>9. /\ Len(b) = 6
      /\ Block(b, 0, "etm", EtmOffOps)
      /\ Block(b, 5, "funnel1", PortOffOps)
  BY <1>2, <1>3, <1>4 DEF Block, Extends
<1>10. /\ Len(c) = 13
       /\ Block(c, 0, "etm", EtmOffOps)
       /\ Block(c, 5, "funnel1", PortOffOps)
       /\ Block(c, 6, "etb1", LinkOffOps)
  BY <1>2, <1>9, <1>5 DEF Block, Extends
<1>11. /\ Len(d) = 14
       /\ Block(d, 0, "etm", EtmOffOps)
       /\ Block(d, 5, "funnel1", PortOffOps)
       /\ Block(d, 6, "etb1", LinkOffOps)
       /\ Block(d, 13, "funnel2", PortOffOps)
  BY <1>2, <1>10, <1>6 DEF Block, Extends
<1>12. /\ Len(e) = 21
       /\ Block(e, 0, "etm", EtmOffOps)
       /\ Block(e, 5, "funnel1", PortOffOps)
       /\ Block(e, 6, "etb1", LinkOffOps)
       /\ Block(e, 13, "funnel2", PortOffOps)
       /\ Block(e, 14, "etb2", LinkOffOps)
  BY <1>2, <1>11, <1>7 DEF Block, Extends
<1>13. /\ Len(f) = 29
       /\ Block(f, 0, "etm", EtmOffOps)
       /\ Block(f, 5, "funnel1", PortOffOps)
       /\ Block(f, 6, "etb1", LinkOffOps)
       /\ Block(f, 13, "funnel2", PortOffOps)
       /\ Block(f, 14, "etb2", LinkOffOps)
       /\ Block(f, 21, "etr0", SinkOffOps)
  BY <1>2, <1>12, <1>8 DEF Block, Extends
<1> QED
  BY <1>1, <1>8, <1>13 DEF HikeyStopBlocks

(* The interrupt pauses as trace_exit disables, then continues. *)
LEMMA JunoInterruptCall ==
  /\ interrupt_junor2 \in Seq(Access) /\ Len(interrupt_junor2) = 32
  /\ JunoStopBlocks(interrupt_junor2, 0)
  /\ JunoContinueBlocks(interrupt_junor2, 15)
<1> DEFINE CircularOps == TmcOnOps("circular")
           s == disable_junor2_trace
           t == continue_junor2_trace
           p == s \o t
<1>1. p = interrupt_junor2
  BY DEF interrupt_junor2, pause_junor2_trace, disable_junor2_trace
<1>2. /\ s \in Seq(Access) /\ Len(s) = 15 /\ JunoStopBlocks(s, 0)
      /\ t \in Seq(Access) /\ Len(t) = 17 /\ JunoContinueBlocks(t, 0)
  BY JunoStopCall, JunoContinueCall
<1> HIDE DEF s, t
<1>3. p \in Seq(Access) /\ Len(p) = Len(s) + Len(t)
  <2>1. s \in Seq(Access) /\ t \in Seq(Access)
    BY <1>2
  <2> QED
    BY <2>1
<1>7. /\ \A i \in 1 .. Len(s) : p[i] = s[i]
      /\ \A i \in Len(s) + 1 .. Len(s) + Len(t) : p[i] = t[i - Len(s)]
  <2>1. s \in Seq(Access) /\ t \in Seq(Access)
    BY <1>2
  <2> QED
    BY <2>1
<1>4. /\ EtmOffOps \in Seq(Ops) /\ Len(EtmOffOps) = 5
      /\ PortOffOps \in Seq(Ops) /\ Len(PortOffOps) = 1
      /\ SinkOffOps \in Seq(Ops) /\ Len(SinkOffOps) = 8
      /\ CircularOps \in Seq(Ops) /\ Len(CircularOps) = 6
      /\ PortOnOps \in Seq(Ops) /\ Len(PortOnOps) = 3
      /\ EtmContinueOps \in Seq(Ops) /\ Len(EtmContinueOps) = 5
  BY OpsTypes
<1> HIDE DEF CircularOps
<1>5. /\ Block(s, 0, "etm", EtmOffOps)
      /\ Block(s, 5, "cluster0_funnel", PortOffOps)
      /\ Block(s, 6, "main_funnel", PortOffOps)
      /\ Block(s, 7, "etf0", SinkOffOps)
  BY <1>2 DEF JunoStopBlocks
<1>6. /\ Block(t, 0, "etf0", CircularOps)
      /\ Block(t, 6, "main_funnel", PortOnOps)
      /\ Block(t, 9, "cluster0_funnel", PortOnOps)
      /\ Block(t, 12, "etm", EtmContinueOps)
  BY <1>2 DEF JunoContinueBlocks, CircularOps
<1> HIDE DEF p
<1>8. JunoStopBlocks(p, 0)
  <2>1. \A i \in 1 .. 15 : p[i] = s[i]
    BY <1>2, <1>7
  <2> QED
    BY <1>4, <1>5, <2>1 DEF JunoStopBlocks, Block
<1>9. JunoContinueBlocks(p, 15)
  <2>1. \A i \in 16 .. 32 : p[i] = t[i - 15]
    <3> SUFFICES ASSUME NEW i \in 16 .. 32
                 PROVE  p[i] = t[i - 15]
      OBVIOUS
    <3>1. Len(s) = 15 /\ Len(t) = 17
      BY <1>2
    <3>2. i \in Len(s) + 1 .. Len(s) + Len(t)
      BY <3>1
    <3> QED
      BY <1>7, <3>1, <3>2
  <2>2. Block(p, 15, "etf0", CircularOps)
    <3> SUFFICES ASSUME NEW i \in 16 .. 21
                 PROVE  p[i] = [unit |-> "etf0", op |-> CircularOps[i - 15]]
      BY <1>4 DEF Block
    <3>1. i - 15 \in 1 .. 6 /\ i \in 16 .. 32 /\ (i - 15) - 0 = i - 15
      OBVIOUS
    <3>2. t[i - 15] = [unit |-> "etf0", op |-> CircularOps[(i - 15) - 0]]
      BY <1>4, <1>6, <3>1 DEF Block
    <3> QED
      BY <2>1, <3>1, <3>2
  <2>3. Block(p, 21, "main_funnel", PortOnOps)
    <3> SUFFICES ASSUME NEW i \in 22 .. 24
                 PROVE  p[i] = [unit |-> "main_funnel", op |-> PortOnOps[i - 21]]
      BY <1>4 DEF Block
    <3>1. i - 15 \in 7 .. 9 /\ i \in 16 .. 32 /\ (i - 15) - 6 = i - 21
      OBVIOUS
    <3>2. t[i - 15] = [unit |-> "main_funnel", op |-> PortOnOps[(i - 15) - 6]]
      BY <1>4, <1>6, <3>1 DEF Block
    <3> QED
      BY <2>1, <3>1, <3>2
  <2>4. Block(p, 24, "cluster0_funnel", PortOnOps)
    <3> SUFFICES ASSUME NEW i \in 25 .. 27
                 PROVE  p[i] = [unit |-> "cluster0_funnel", op |-> PortOnOps[i - 24]]
      BY <1>4 DEF Block
    <3>1. i - 15 \in 10 .. 12 /\ i \in 16 .. 32 /\ (i - 15) - 9 = i - 24
      OBVIOUS
    <3>2. t[i - 15] = [unit |-> "cluster0_funnel", op |-> PortOnOps[(i - 15) - 9]]
      BY <1>4, <1>6, <3>1 DEF Block
    <3> QED
      BY <2>1, <3>1, <3>2
  <2>5. Block(p, 27, "etm", EtmContinueOps)
    <3> SUFFICES ASSUME NEW i \in 28 .. 32
                 PROVE  p[i] = [unit |-> "etm", op |-> EtmContinueOps[i - 27]]
      BY <1>4 DEF Block
    <3>1. i - 15 \in 13 .. 17 /\ i \in 16 .. 32 /\ (i - 15) - 12 = i - 27
      OBVIOUS
    <3>2. t[i - 15] = [unit |-> "etm", op |-> EtmContinueOps[(i - 15) - 12]]
      BY <1>4, <1>6, <3>1 DEF Block
    <3> QED
      BY <2>1, <3>1, <3>2
  <2> QED
    BY <2>2, <2>3, <2>4, <2>5 DEF JunoContinueBlocks, CircularOps
<1> QED
  BY <1>1, <1>2, <1>3, <1>8, <1>9

-----------------------------------------------------------------------------
(* The rest of a call. *)

(* While a call has accesses left, its next one is access n + 1, and making *)
(* it leaves the rest after n + 1.                                          *)
LEMMA RestNext ==
  ASSUME NEW p \in Seq(Access), NEW n \in 0 .. Len(p), Rest(p, n) # << >>
  PROVE  /\ n + 1 \in 1 .. Len(p)
         /\ Head(Rest(p, n)) = p[n + 1]
         /\ Tail(Rest(p, n)) = Rest(p, n + 1)
<1>1. Len(p) \in Nat /\ n \in Nat /\ \A i \in 1 .. Len(p) : p[i] \in Access
  OBVIOUS
<1> DEFINE l == Len(p)
           m == l - n
           r == Rest(p, n)
<1>2. m \in Nat /\ m + n = l
  BY <1>1
<1>3. r = [i \in 1 .. m |-> p[n + i]]
  BY DEF Rest
<1>4. \A i \in 1 .. m : p[n + i] \in Access
  BY <1>1, <1>2
<1> HIDE DEF m, r
<1>5. r \in Seq(Access) /\ Len(r) = m
  BY <1>2, <1>3, <1>4
<1>6. m # 0
  <2> SUFFICES ASSUME m = 0 PROVE FALSE
    OBVIOUS
  <2>1. r = << >>
    BY <1>5, EmptySeq
  <2> QED
    BY <2>1 DEF r
<1>7. n + 1 \in 1 .. l /\ 1 \in 1 .. m
  BY <1>1, <1>2, <1>6
<1>8. Head(r) = p[n + 1]
  BY <1>3, <1>5, <1>7
<1>9. Tail(r) = Rest(p, n + 1)
  <2> DEFINE q == Rest(p, n + 1)
  <2>1. r # << >>
    BY DEF r
  <2>2. /\ Tail(r) \in Seq(Access) /\ Len(Tail(r)) = m - 1
        /\ \A i \in 1 .. Len(Tail(r)) : Tail(r)[i] = r[i + 1]
    BY <1>5, <2>1, HeadTailProperties
  <2>3. l - (n + 1) = m - 1 /\ m - 1 \in Nat
    BY <1>1, <1>2, <1>6
  <2>4. q = [i \in 1 .. m - 1 |-> p[(n + 1) + i]]
    BY <2>3 DEF Rest
  <2>5. \A i \in 1 .. m - 1 : p[(n + 1) + i] \in Access
    BY <1>1, <1>2
  <2> HIDE DEF q
  <2>6. q \in Seq(Access) /\ Len(q) = m - 1
    BY <2>3, <2>4, <2>5
  <2>7. \A i \in 1 .. m - 1 : Tail(r)[i] = q[i]
    BY <1>1, <1>2, <1>3, <2>2, <2>4
  <2>8. Tail(r) = q
    BY <2>2, <2>6, <2>7, SeqEqual
  <2> QED
    BY <2>8 DEF q
<1> QED
  BY <1>7, <1>8, <1>9 DEF r

-----------------------------------------------------------------------------
(* One access.  Makes(u, op, s, t): the access op to unit u finds the unit *)
(* in state s and leaves it in state t.                                    *)

Makes(u, op, s, t) ==
  \/ op = "wait_ready" /\ s.tmc = "ready" /\ t = s
  \/ op = "wait_flush" /\ s.tmc # "flushing" /\ t = s
  \/ op = "dump" /\ t = [s EXCEPT !.held = 0]
  \/ op \notin {"wait_ready", "wait_flush", "dump"} /\ t = Effect(u, op, s)

(* What an access changes, field by field. *)
Changes(u, op, s, t) ==
  /\ op = "unlock" => ~t.locked
  /\ op = "lock" => t.locked
  /\ op \notin {"unlock", "lock"} => (t.locked <=> s.locked)
  /\ op = "wait_ready" => s.tmc = "ready"
  /\ op = "wait_flush" => s.tmc # "flushing"
  /\ op = "dump" => t.held = 0
  /\ op # "dump" => t.held = s.held
  /\ op \notin Config => t.cfg = s.cfg
  /\ op \notin {"ffcr", "stop_on_flush"}
       => (t.stop_on_flush <=> s.stop_on_flush)
  /\ op \notin {"enable", "disable"} => (t.on <=> s.on)
  /\ op \notin {"enable", "disable", "flushman"} => t.tmc = s.tmc
  /\ s.locked /\ LockGates => (t.on <=> s.on) /\ t.tmc = s.tmc
  /\ ~s.locked \/ ~LockGates =>
       /\ op \in Config => t.cfg = op
       /\ op = "ffcr" => ~t.stop_on_flush
       /\ op = "stop_on_flush" => t.stop_on_flush
       /\ op = "enable" => t.on
       /\ op = "disable" => ~t.on
       /\ op = "flushman" => t.tmc = IF s.tmc = "capturing"
                                    THEN "flushing" ELSE s.tmc
       /\ op = "enable" => t.tmc = IF u \in Tmcs THEN "capturing" ELSE s.tmc
       /\ op = "disable" => t.tmc = "ready"

(* An access leaves a unit in a state of its type, and changes just this. *)
LEMMA AccessFacts ==
  ASSUME NEW u \in Names, NEW s \in UnitState, NEW op \in Ops, NEW t,
         Makes(u, op, s, t)
  PROVE  t \in UnitState /\ Changes(u, op, s, t)
<1>1. CASE op \in {"wait_ready", "wait_flush", "dump"}
  BY <1>1, PathAssumption DEF Makes, Changes, UnitState, Config
<1>2. CASE op \notin {"wait_ready", "wait_flush", "dump"}
  <2>1. t = Effect(u, op, s)
    BY <1>2 DEF Makes
  <2>2. op \in Ops \ {"wait_ready", "wait_flush", "dump"}
    BY <1>2
  <2>3. CASE op \notin {"unlock", "lock"} /\ LockGates /\ s.locked
    <3>1. t = s
      BY <2>1, <2>3 DEF Effect, Config
    <3> QED
      BY <2>2, <2>3, <3>1 DEF Changes
  <2>4. CASE op = "unlock"
    <3>1. t = [s EXCEPT !.locked = FALSE]
      BY <2>1, <2>4 DEF Effect, Config
    <3> QED
      BY <2>4, <3>1, PathAssumption DEF Changes, UnitState, Config
  <2>5. CASE op = "lock"
    <3>1. t = [s EXCEPT !.locked = TRUE]
      BY <2>1, <2>5 DEF Effect, Config
    <3> QED
      BY <2>5, <3>1, PathAssumption DEF Changes, UnitState, Config
  <2> DEFINE acts == ~s.locked \/ ~LockGates
  <2>6. CASE op \in Config /\ acts
    <3>1. t = [s EXCEPT !.cfg = op]
      BY <2>1, <2>6 DEF Effect, Config
    <3> QED
      BY <2>6, <3>1, PathAssumption DEF Changes, UnitState, Config
  <2>7. CASE op = "ffcr" /\ acts
    <3>1. t = [s EXCEPT !.stop_on_flush = FALSE]
      BY <2>1, <2>7 DEF Effect, Config
    <3> QED
      BY <2>7, <3>1, PathAssumption DEF Changes, UnitState, Config
  <2>8. CASE op = "stop_on_flush" /\ acts
    <3>1. t = [s EXCEPT !.stop_on_flush = TRUE]
      BY <2>1, <2>8 DEF Effect, Config
    <3> QED
      BY <2>8, <3>1, PathAssumption DEF Changes, UnitState, Config
  <2>9. CASE op = "flushman" /\ acts
    <3>1. t = [s EXCEPT !.tmc = IF s.tmc = "capturing"
                                THEN "flushing" ELSE s.tmc]
      BY <2>1, <2>9 DEF Effect, Config
    <3> QED
      BY <2>9, <3>1, PathAssumption DEF Changes, UnitState, Config
  <2>10. CASE op = "enable" /\ acts
    <3>1. t = [s EXCEPT !.on = TRUE, !.tmc = IF u \in Tmcs
                                             THEN "capturing" ELSE s.tmc]
      BY <2>1, <2>10 DEF Effect, Config
    <3> QED
      BY <2>10, <3>1, PathAssumption DEF Changes, UnitState, Config
  <2>11. CASE op = "disable" /\ acts
    <3>1. t = [s EXCEPT !.on = FALSE, !.tmc = "ready"]
      BY <2>1, <2>11 DEF Effect, Config
    <3> QED
      BY <2>11, <3>1, PathAssumption DEF Changes, UnitState, Config
  <2>12. CASE op \in {"os_unlock", "os_lock"} /\ acts
    <3>1. \E b \in BOOLEAN : t = [s EXCEPT !.os_locked = b]
      BY <2>1, <2>12 DEF Effect, Config
    <3> QED
      BY <2>12, <3>1, PathAssumption DEF Changes, UnitState, Config
  <2> QED
    BY <2>2, <2>3, <2>4, <2>5, <2>6, <2>7, <2>8, <2>9, <2>10, <2>11, <2>12
    DEF Ops, Config
<1> QED
  BY <1>1, <1>2

(* The functions: from what is known after k accesses, access k + 1 leads  *)
(* to what is known after k + 1.                                           *)

LEMMA TmcOnStep ==
  ASSUME NEW u \in Names, u \in Tmcs, NEW mode \in {"circular", "fifo"},
         NEW s \in UnitState, NEW t, NEW k \in 0 .. 5,
         TmcOn(s, k, mode), Makes(u, TmcOnOps(mode)[k + 1], s, t)
  PROVE  TmcOn(t, k + 1, mode)
<1>1. CASE k = 0
  <2>1. Makes(u, "unlock", s, t)
    BY <1>1 DEF TmcOnOps
  <2>2. Changes(u, "unlock", s, t)
    BY <2>1, AccessFacts DEF Ops
  <2> QED
    BY <1>1, <2>2 DEF Changes, TmcOn, Config
<1>2. CASE k = 1
  <2>1. Makes(u, "wait_ready", s, t)
    BY <1>2 DEF TmcOnOps
  <2>2. Changes(u, "wait_ready", s, t)
    BY <2>1, AccessFacts DEF Ops
  <2> QED
    BY <1>2, <2>2 DEF Changes, TmcOn, Config
<1>3. CASE k = 2
  <2>1. Makes(u, mode, s, t)
    BY <1>3 DEF TmcOnOps
  <2>2. Changes(u, mode, s, t)
    BY <2>1, AccessFacts DEF Ops
  <2> QED
    BY <1>3, <2>2 DEF Changes, TmcOn, Config
<1>4. CASE k = 3
  <2>1. Makes(u, "ffcr", s, t)
    BY <1>4 DEF TmcOnOps
  <2>2. Changes(u, "ffcr", s, t)
    BY <2>1, AccessFacts DEF Ops
  <2> QED
    BY <1>4, <2>2 DEF Changes, TmcOn, Config
<1>5. CASE k = 4
  <2>1. Makes(u, "enable", s, t)
    BY <1>5 DEF TmcOnOps
  <2>2. Changes(u, "enable", s, t)
    BY <2>1, AccessFacts DEF Ops
  <2> QED
    BY <1>5, <2>2 DEF Changes, TmcOn, Config
<1>6. CASE k = 5
  <2>1. Makes(u, "lock", s, t)
    BY <1>6 DEF TmcOnOps
  <2>2. Changes(u, "lock", s, t)
    BY <2>1, AccessFacts DEF Ops
  <2> QED
    BY <1>6, <2>2 DEF Changes, TmcOn, Config
<1> QED
  BY <1>1, <1>2, <1>3, <1>4, <1>5, <1>6

LEMMA SinkOffStep ==
  ASSUME NEW u \in Names, u \in Tmcs,
         NEW s \in UnitState, NEW t, NEW k \in 0 .. 7,
         SinkOff(s, k), Makes(u, SinkOffOps[k + 1], s, t)
  PROVE  SinkOff(t, k + 1)
<1>1. CASE k = 0
  <2>1. Makes(u, "unlock", s, t)
    BY <1>1 DEF SinkOffOps
  <2>2. Changes(u, "unlock", s, t)
    BY <2>1, AccessFacts DEF Ops
  <2> QED
    BY <1>1, <2>2 DEF Changes, SinkOff, TmcOff, Config
<1>2. CASE k = 1
  <2>1. Makes(u, "stop_on_flush", s, t)
    BY <1>2 DEF SinkOffOps
  <2>2. Changes(u, "stop_on_flush", s, t)
    BY <2>1, AccessFacts DEF Ops
  <2> QED
    BY <1>2, <2>2 DEF Changes, SinkOff, TmcOff, Config
<1>3. CASE k = 2
  <2>1. Makes(u, "flushman", s, t)
    BY <1>3 DEF SinkOffOps
  <2>2. Changes(u, "flushman", s, t)
    BY <2>1, AccessFacts DEF Ops
  <2> QED
    BY <1>3, <2>2 DEF Changes, SinkOff, TmcOff, Config
<1>4. CASE k = 3
  <2>1. Makes(u, "wait_flush", s, t)
    BY <1>4 DEF SinkOffOps
  <2>2. Changes(u, "wait_flush", s, t)
    BY <2>1, AccessFacts DEF Ops
  <2> QED
    BY <1>4, <2>2 DEF Changes, SinkOff, TmcOff, Config
<1>5. CASE k = 4
  <2>1. Makes(u, "wait_ready", s, t)
    BY <1>5 DEF SinkOffOps
  <2>2. Changes(u, "wait_ready", s, t)
    BY <2>1, AccessFacts DEF Ops
  <2> QED
    BY <1>5, <2>2 DEF Changes, SinkOff, TmcOff, Config
<1>6. CASE k = 5
  <2>1. Makes(u, "dump", s, t)
    BY <1>6 DEF SinkOffOps
  <2>2. Changes(u, "dump", s, t)
    BY <2>1, AccessFacts DEF Ops
  <2> QED
    BY <1>6, <2>2 DEF Changes, SinkOff, TmcOff, Config
<1>7. CASE k = 6
  <2>1. Makes(u, "disable", s, t)
    BY <1>7 DEF SinkOffOps
  <2>2. Changes(u, "disable", s, t)
    BY <2>1, AccessFacts DEF Ops
  <2> QED
    BY <1>7, <2>2 DEF Changes, SinkOff, TmcOff, Config
<1>8. CASE k = 7
  <2>1. Makes(u, "lock", s, t)
    BY <1>8 DEF SinkOffOps
  <2>2. Changes(u, "lock", s, t)
    BY <2>1, AccessFacts DEF Ops
  <2> QED
    BY <1>8, <2>2 DEF Changes, SinkOff, TmcOff, Config
<1> QED
  BY <1>1, <1>2, <1>3, <1>4, <1>5, <1>6, <1>7, <1>8

LEMMA LinkOffStep ==
  ASSUME NEW u \in Names, u \in Tmcs,
         NEW s \in UnitState, NEW t, NEW k \in 0 .. 6,
         LinkOff(s, k), Makes(u, LinkOffOps[k + 1], s, t)
  PROVE  LinkOff(t, k + 1)
<1>1. CASE k = 0
  <2>1. Makes(u, "unlock", s, t)
    BY <1>1 DEF LinkOffOps
  <2>2. Changes(u, "unlock", s, t)
    BY <2>1, AccessFacts DEF Ops
  <2> QED
    BY <1>1, <2>2 DEF Changes, LinkOff, TmcOff, Config
<1>2. CASE k = 1
  <2>1. Makes(u, "stop_on_flush", s, t)
    BY <1>2 DEF LinkOffOps
  <2>2. Changes(u, "stop_on_flush", s, t)
    BY <2>1, AccessFacts DEF Ops
  <2> QED
    BY <1>2, <2>2 DEF Changes, LinkOff, TmcOff, Config
<1>3. CASE k = 2
  <2>1. Makes(u, "flushman", s, t)
    BY <1>3 DEF LinkOffOps
  <2>2. Changes(u, "flushman", s, t)
    BY <2>1, AccessFacts DEF Ops
  <2> QED
    BY <1>3, <2>2 DEF Changes, LinkOff, TmcOff, Config
<1>4. CASE k = 3
  <2>1. Makes(u, "wait_flush", s, t)
    BY <1>4 DEF LinkOffOps
  <2>2. Changes(u, "wait_flush", s, t)
    BY <2>1, AccessFacts DEF Ops
  <2> QED
    BY <1>4, <2>2 DEF Changes, LinkOff, TmcOff, Config
<1>5. CASE k = 4
  <2>1. Makes(u, "wait_ready", s, t)
    BY <1>5 DEF LinkOffOps
  <2>2. Changes(u, "wait_ready", s, t)
    BY <2>1, AccessFacts DEF Ops
  <2> QED
    BY <1>5, <2>2 DEF Changes, LinkOff, TmcOff, Config
<1>6. CASE k = 5
  <2>1. Makes(u, "disable", s, t)
    BY <1>6 DEF LinkOffOps
  <2>2. Changes(u, "disable", s, t)
    BY <2>1, AccessFacts DEF Ops
  <2> QED
    BY <1>6, <2>2 DEF Changes, LinkOff, TmcOff, Config
<1>7. CASE k = 6
  <2>1. Makes(u, "lock", s, t)
    BY <1>7 DEF LinkOffOps
  <2>2. Changes(u, "lock", s, t)
    BY <2>1, AccessFacts DEF Ops
  <2> QED
    BY <1>7, <2>2 DEF Changes, LinkOff, TmcOff, Config
<1> QED
  BY <1>1, <1>2, <1>3, <1>4, <1>5, <1>6, <1>7

LEMMA FunnelOnStep ==
  ASSUME NEW u \in Names,
         NEW s \in UnitState, NEW t, NEW k \in 0 .. 2,
         FunnelOn(s, k), Makes(u, PortOnOps[k + 1], s, t)
  PROVE  FunnelOn(t, k + 1)
<1>1. CASE k = 0
  <2>1. Makes(u, "unlock", s, t)
    BY <1>1 DEF PortOnOps
  <2>2. Changes(u, "unlock", s, t)
    BY <2>1, AccessFacts DEF Ops
  <2> QED
    BY <1>1, <2>2 DEF Changes, FunnelOn, Config
<1>2. CASE k = 1
  <2>1. Makes(u, "enable", s, t)
    BY <1>2 DEF PortOnOps
  <2>2. Changes(u, "enable", s, t)
    BY <2>1, AccessFacts DEF Ops
  <2> QED
    BY <1>2, <2>2 DEF Changes, FunnelOn, Config
<1>3. CASE k = 2
  <2>1. Makes(u, "lock", s, t)
    BY <1>3 DEF PortOnOps
  <2>2. Changes(u, "lock", s, t)
    BY <2>1, AccessFacts DEF Ops
  <2> QED
    BY <1>3, <2>2 DEF Changes, FunnelOn, Config
<1> QED
  BY <1>1, <1>2, <1>3

LEMMA FunnelOffStep ==
  ASSUME NEW u \in Names,
         NEW s \in UnitState, NEW t, NEW k \in 0 .. 0,
         FunnelOff(s, k), Makes(u, PortOffOps[k + 1], s, t)
  PROVE  FunnelOff(t, k + 1)
<1>1. CASE k = 0
  <2>1. Makes(u, "disable", s, t)
    BY <1>1 DEF PortOffOps
  <2>2. Changes(u, "disable", s, t)
    BY <2>1, AccessFacts DEF Ops
  <2> QED
    BY <1>1, <2>2 DEF Changes, FunnelOff, Config
<1> QED
  BY <1>1

LEMMA PmuOnStep ==
  ASSUME NEW u \in Names,
         NEW s \in UnitState, NEW t, NEW k \in 0 .. 2,
         PmuOn(s, k), Makes(u, PortOnOps[k + 1], s, t)
  PROVE  PmuOn(t, k + 1)
<1>1. CASE k = 0
  <2>1. Makes(u, "unlock", s, t)
    BY <1>1 DEF PortOnOps
  <2>2. Changes(u, "unlock", s, t)
    BY <2>1, AccessFacts DEF Ops
  <2> QED
    BY <1>1, <2>2 DEF Changes, PmuOn, Config
<1>2. CASE k = 1
  <2>1. Makes(u, "enable", s, t)
    BY <1>2 DEF PortOnOps
  <2>2. Changes(u, "enable", s, t)
    BY <2>1, AccessFacts DEF Ops
  <2> QED
    BY <1>2, <2>2 DEF Changes, PmuOn, Config
<1>3. CASE k = 2
  <2>1. Makes(u, "lock", s, t)
    BY <1>3 DEF PortOnOps
  <2>2. Changes(u, "lock", s, t)
    BY <2>1, AccessFacts DEF Ops
  <2> QED
    BY <1>3, <2>2 DEF Changes, PmuOn, Config
<1> QED
  BY <1>1, <1>2, <1>3

LEMMA EtmOnStep ==
  ASSUME NEW u \in Names,
         NEW s \in UnitState, NEW t, NEW k \in 0 .. 6,
         EtmOn(s, k), Makes(u, EtmOnOps[k + 1], s, t)
  PROVE  EtmOn(t, k + 1)
<1>1. CASE k = 0
  <2>1. Makes(u, "unlock", s, t)
    BY <1>1 DEF EtmOnOps
  <2>2. Changes(u, "unlock", s, t)
    BY <2>1, AccessFacts DEF Ops
  <2> QED
    BY <1>1, <2>2 DEF Changes, EtmOn, Config
<1>2. CASE k = 1
  <2>1. Makes(u, "os_unlock", s, t)
    BY <1>2 DEF EtmOnOps
  <2>2. Changes(u, "os_unlock", s, t)
    BY <2>1, AccessFacts DEF Ops
  <2> QED
    BY <1>2, <2>2 DEF Changes, EtmOn, Config
<1>3. CASE k = 2
  <2>1. Makes(u, "disable", s, t)
    BY <1>3 DEF EtmOnOps
  <2>2. Changes(u, "disable", s, t)
    BY <2>1, AccessFacts DEF Ops
  <2> QED
    BY <1>3, <2>2 DEF Changes, EtmOn, Config
<1>4. CASE k = 3
  <2>1. Makes(u, "flow", s, t)
    BY <1>4 DEF EtmOnOps
  <2>2. Changes(u, "flow", s, t)
    BY <2>1, AccessFacts DEF Ops
  <2> QED
    BY <1>4, <2>2 DEF Changes, EtmOn, Config
<1>5. CASE k = 4
  <2>1. Makes(u, "enable", s, t)
    BY <1>5 DEF EtmOnOps
  <2>2. Changes(u, "enable", s, t)
    BY <2>1, AccessFacts DEF Ops
  <2> QED
    BY <1>5, <2>2 DEF Changes, EtmOn, Config
<1>6. CASE k = 5
  <2>1. Makes(u, "os_lock", s, t)
    BY <1>6 DEF EtmOnOps
  <2>2. Changes(u, "os_lock", s, t)
    BY <2>1, AccessFacts DEF Ops
  <2> QED
    BY <1>6, <2>2 DEF Changes, EtmOn, Config
<1>7. CASE k = 6
  <2>1. Makes(u, "lock", s, t)
    BY <1>7 DEF EtmOnOps
  <2>2. Changes(u, "lock", s, t)
    BY <2>1, AccessFacts DEF Ops
  <2> QED
    BY <1>7, <2>2 DEF Changes, EtmOn, Config
<1> QED
  BY <1>1, <1>2, <1>3, <1>4, <1>5, <1>6, <1>7

LEMMA EtmContinueStep ==
  ASSUME NEW u \in Names,
         NEW s \in UnitState, NEW t, NEW k \in 0 .. 4,
         EtmContinue(s, k), Makes(u, EtmContinueOps[k + 1], s, t)
  PROVE  EtmContinue(t, k + 1)
<1>1. CASE k = 0
  <2>1. Makes(u, "unlock", s, t)
    BY <1>1 DEF EtmContinueOps
  <2>2. Changes(u, "unlock", s, t)
    BY <2>1, AccessFacts DEF Ops
  <2> QED
    BY <1>1, <2>2 DEF Changes, EtmContinue, Config
<1>2. CASE k = 1
  <2>1. Makes(u, "os_unlock", s, t)
    BY <1>2 DEF EtmContinueOps
  <2>2. Changes(u, "os_unlock", s, t)
    BY <2>1, AccessFacts DEF Ops
  <2> QED
    BY <1>2, <2>2 DEF Changes, EtmContinue, Config
<1>3. CASE k = 2
  <2>1. Makes(u, "enable", s, t)
    BY <1>3 DEF EtmContinueOps
  <2>2. Changes(u, "enable", s, t)
    BY <2>1, AccessFacts DEF Ops
  <2> QED
    BY <1>3, <2>2 DEF Changes, EtmContinue, Config
<1>4. CASE k = 3
  <2>1. Makes(u, "os_lock", s, t)
    BY <1>4 DEF EtmContinueOps
  <2>2. Changes(u, "os_lock", s, t)
    BY <2>1, AccessFacts DEF Ops
  <2> QED
    BY <1>4, <2>2 DEF Changes, EtmContinue, Config
<1>5. CASE k = 4
  <2>1. Makes(u, "lock", s, t)
    BY <1>5 DEF EtmContinueOps
  <2>2. Changes(u, "lock", s, t)
    BY <2>1, AccessFacts DEF Ops
  <2> QED
    BY <1>5, <2>2 DEF Changes, EtmContinue, Config
<1> QED
  BY <1>1, <1>2, <1>3, <1>4, <1>5

LEMMA EtmOffStep ==
  ASSUME NEW u \in Names,
         NEW s \in UnitState, NEW t, NEW k \in 0 .. 4,
         EtmOff(s, k), Makes(u, EtmOffOps[k + 1], s, t)
  PROVE  EtmOff(t, k + 1)
<1>1. CASE k = 0
  <2>1. Makes(u, "unlock", s, t)
    BY <1>1 DEF EtmOffOps
  <2>2. Changes(u, "unlock", s, t)
    BY <2>1, AccessFacts DEF Ops
  <2> QED
    BY <1>1, <2>2 DEF Changes, EtmOff, Config
<1>2. CASE k = 1
  <2>1. Makes(u, "os_unlock", s, t)
    BY <1>2 DEF EtmOffOps
  <2>2. Changes(u, "os_unlock", s, t)
    BY <2>1, AccessFacts DEF Ops
  <2> QED
    BY <1>2, <2>2 DEF Changes, EtmOff, Config
<1>3. CASE k = 2
  <2>1. Makes(u, "disable", s, t)
    BY <1>3 DEF EtmOffOps
  <2>2. Changes(u, "disable", s, t)
    BY <2>1, AccessFacts DEF Ops
  <2> QED
    BY <1>3, <2>2 DEF Changes, EtmOff, Config
<1>4. CASE k = 3
  <2>1. Makes(u, "os_lock", s, t)
    BY <1>4 DEF EtmOffOps
  <2>2. Changes(u, "os_lock", s, t)
    BY <2>1, AccessFacts DEF Ops
  <2> QED
    BY <1>4, <2>2 DEF Changes, EtmOff, Config
<1>5. CASE k = 4
  <2>1. Makes(u, "lock", s, t)
    BY <1>5 DEF EtmOffOps
  <2>2. Changes(u, "lock", s, t)
    BY <2>1, AccessFacts DEF Ops
  <2> QED
    BY <1>5, <2>2 DEF Changes, EtmOff, Config
<1> QED
  BY <1>1, <1>2, <1>3, <1>4, <1>5

-----------------------------------------------------------------------------
(* One step of the hardware.  HardwareMakes(u, s, t): it finds unit u in   *)
(* state s and leaves it in state t.                                       *)

HardwareMakes(u, s, t) ==
  /\ t.locked <=> s.locked
  /\ t.on <=> s.on
  /\ t.stop_on_flush <=> s.stop_on_flush
  /\ t.cfg = s.cfg
  /\ t.tmc # s.tmc =>
       /\ u \in Tmcs /\ t.held = s.held
       /\ \/ s.tmc = "flushing" /\ s.stop_on_flush /\ t.tmc = "stopping"
          \/ s.tmc = "flushing" /\ ~s.stop_on_flush /\ t.tmc = "capturing"
          \/ s.tmc = "stopping" /\ t.tmc = "ready" /\ (u = Sink \/ s.held = 0)
  /\ t.held # s.held =>
       \/ u = Etm /\ s.on
       \/ u \in Tmcs /\ s.tmc \in {"capturing", "flushing"}
       \/ s.held # 0

(* The chain visits each unit once; stores and funnels are units. *)
LEMMA ChainFacts ==
  /\ DOMAIN Chain \subseteq Places /\ 1 \in DOMAIN Chain /\ Etm = Chain[1]
  /\ \A j \in DOMAIN Chain : \A i \in 1 .. j : i \in DOMAIN Chain
  /\ \A i, j \in DOMAIN Chain : Chain[i] = Chain[j] => i = j
  /\ \A i \in DOMAIN Chain : Chain[i] \in Units
  /\ Etm \in Units /\ Etm \notin Tmcs
  /\ Tmcs \subseteq Stores /\ Stores \subseteq Units
  /\ Sink \in Tmcs /\ Links = Tmcs \ {Sink}
  /\ Stores = Tmcs \union {Etm}
  /\ Units \subseteq Names
<1>1. CASE platform = "JUNOR2"
  BY <1>1, JunoUnits DEF Places, Names
<1>2. CASE platform # "JUNOR2"
  BY <1>2, HikeyUnits DEF Places, Names
<1> QED
  BY <1>1, <1>2

(* Each unit takes part in a step of the hardware as HardwareMakes says.   *)
LEMMA HardwareFacts ==
  ASSUME HwInv, Hardware
  PROVE  /\ UNCHANGED <<platform, loaded, todo>>
         /\ hw' \in [Units -> UnitState]
         /\ \A u \in Units : HardwareMakes(u, hw[u], hw'[u])
<1>1. /\ hw \in [Units -> UnitState]
      /\ \A u \in Units \ Tmcs : hw[u].tmc = "ready"
  BY DEF HwInv
<1>2. \A u \in Units : hw[u].held \in Nat
  BY <1>1, PathAssumption DEF UnitState
<1> DEFINE Facts == /\ UNCHANGED <<platform, loaded, todo>>
                    /\ hw' \in [Units -> UnitState]
                    /\ \A u \in Units : HardwareMakes(u, hw[u], hw'[u])
<1>3. ASSUME NEW v \in Units, NEW t \in UnitState, hw' = [hw EXCEPT ![v] = t],
             UNCHANGED <<platform, loaded, todo>>, HardwareMakes(v, hw[v], t)
      PROVE  Facts
  <2>1. \A u \in Units \ {v} : hw'[u] = hw[u]
    BY <1>1, <1>3
  <2>2. hw'[v] = t
    BY <1>1, <1>3
  <2>3. hw' \in [Units -> UnitState]
    BY <1>1, <1>3
  <2>4. \A u \in Units \ {v} : HardwareMakes(u, hw[u], hw'[u])
    BY <2>1 DEF HardwareMakes
  <2> QED
    BY <1>3, <2>2, <2>3, <2>4
<1>4. CASE Emit
  <2> DEFINE s == hw[Etm]
             t == [s EXCEPT !.held = s.held + 1]
  <2>1. Etm \in Units /\ s \in UnitState
    BY <1>1, ChainFacts
  <2>2. s.on /\ s.held < FifoWords /\ hw' = [hw EXCEPT ![Etm] = t]
        /\ UNCHANGED <<platform, loaded, todo>>
    BY <1>4 DEF Emit, Tracing
  <2> HIDE DEF s
  <2>3. t \in UnitState /\ HardwareMakes(Etm, s, t)
    BY <2>1, <2>2, PathAssumption DEF UnitState, HardwareMakes
  <2> HIDE DEF t
  <2> QED
    BY <1>3, <2>1, <2>2, <2>3 DEF s
<1>5. ASSUME NEW i \in Places, NEW j \in Places, Move(i, j)
      PROVE  Facts
  <2> DEFINE u == Chain[i]
             v == Chain[j]
             s == hw[u]
             t == hw[v]
             s2 == [s EXCEPT !.held = s.held - 1]
             t2 == [t EXCEPT !.held = IF t.held < RamWords THEN t.held + 1
                                      ELSE t.held]
  <2>1. u \in Units /\ v \in Units /\ v \in Tmcs /\ u # v
    BY <1>5, ChainFacts DEF Move, Places
  <2>2. s \in UnitState /\ t \in UnitState /\ s.held \in Nat /\ t.held \in Nat
    BY <1>1, <1>2, <2>1
  <2>3. /\ s.held > 0 /\ t.tmc \in {"capturing", "flushing"}
        /\ hw' = [hw EXCEPT ![u] = s2, ![v] = t2]
        /\ UNCHANGED <<platform, loaded, todo>>
    <3>1. hw' = [hw EXCEPT
                   ![u].held = @ - 1,
                   ![v].held = IF @ < RamWords THEN @ + 1 ELSE @]
      BY <1>5 DEF Move
    <3> HIDE DEF u, v
    <3>2. hw' = [hw EXCEPT ![u] = s2, ![v] = t2]
      BY <1>1, <2>1, <3>1
    <3> QED
      BY <1>5, <3>2 DEF Move, u, v
  <2> HIDE DEF u, v
  <2>4. /\ hw'[u] = s2 /\ hw'[v] = t2
        /\ \A w \in Units \ {u, v} : hw'[w] = hw[w]
        /\ hw' \in [Units -> {hw'[w] : w \in Units}]
    BY <1>1, <2>1, <2>3
  <2> HIDE DEF s, t
  <2>5. s2 \in UnitState /\ HardwareMakes(u, s, s2)
    BY <2>2, <2>3, PathAssumption DEF UnitState, HardwareMakes
  <2>6. t2 \in UnitState /\ HardwareMakes(v, t, t2)
    BY <2>1, <2>2, <2>3, PathAssumption DEF UnitState, HardwareMakes
  <2>7. \A w \in Units \ {u, v} :
          hw'[w] \in UnitState /\ HardwareMakes(w, hw[w], hw'[w])
    BY <1>1, <2>4 DEF HardwareMakes
  <2> HIDE DEF s2, t2
  <2>8. \A w \in Units : hw'[w] \in UnitState /\ HardwareMakes(w, hw[w], hw'[w])
    BY <2>1, <2>4, <2>5, <2>6, <2>7 DEF s, t
  <2> QED
    BY <2>3, <2>4, <2>8
<1>6. ASSUME NEW j \in Places, FlushDone(j)
      PROVE  Facts
  <2> DEFINE v == Chain[j]
             s == hw[v]
             t == [s EXCEPT !.tmc = IF s.stop_on_flush THEN "stopping"
                                                       ELSE "capturing"]
  <2>1. v \in Units /\ v \in Tmcs /\ s \in UnitState
    BY <1>1, <1>6, ChainFacts DEF FlushDone
  <2>2. /\ s.tmc = "flushing" /\ hw' = [hw EXCEPT ![v] = t]
        /\ UNCHANGED <<platform, loaded, todo>>
    BY <1>6 DEF FlushDone
  <2> HIDE DEF v, s
  <2>3. t \in UnitState /\ HardwareMakes(v, s, t)
    BY <2>1, <2>2 DEF UnitState, HardwareMakes
  <2> HIDE DEF t
  <2> QED
    BY <1>3, <2>1, <2>2, <2>3 DEF s
<1>7. ASSUME NEW j \in Places, Stopped(j)
      PROVE  Facts
  <2> DEFINE v == Chain[j]
             s == hw[v]
             t == [s EXCEPT !.tmc = "ready"]
  <2>1. v \in Units /\ s \in UnitState
    BY <1>1, <1>7, ChainFacts DEF Stopped
  <2>2. /\ s.tmc = "stopping" /\ (v = Sink \/ s.held = 0)
        /\ hw' = [hw EXCEPT ![v] = t]
        /\ UNCHANGED <<platform, loaded, todo>>
    BY <1>7 DEF Stopped
  <2>3. v \in Tmcs
    BY <1>1, <2>1, <2>2
  <2> HIDE DEF v, s
  <2>4. t \in UnitState /\ HardwareMakes(v, s, t)
    BY <2>1, <2>2, <2>3 DEF UnitState, HardwareMakes
  <2> HIDE DEF t
  <2> QED
    BY <1>3, <2>1, <2>2, <2>4 DEF s
<1> QED
  BY <1>4, <1>5, <1>6, <1>7 DEF Hardware

(* When a flush is over, the stores connected upstream are empty. *)
LEMMA FlushEnds ==
  ASSUME HwInv, Hardware,
         NEW j \in DOMAIN Chain, NEW i \in 1 .. j - 1,
         Chain[i] \in Stores, Connected(i, j),
         hw[Chain[j]].tmc = "flushing", hw'[Chain[j]].tmc # "flushing"
  PROVE  hw'[Chain[i]].held = 0
<1>1. /\ hw \in [Units -> UnitState]
      /\ i \in DOMAIN Chain /\ i # j /\ j \in Places /\ i \in Places
      /\ Chain[i] \in Units /\ Chain[j] \in Units /\ Chain[i] # Chain[j]
  BY ChainFacts DEF HwInv, Places
<1>2. \A u \in Units : HardwareMakes(u, hw[u], hw'[u])
  BY HardwareFacts
<1>3. HardwareMakes(Chain[j], hw[Chain[j]], hw'[Chain[j]])
  BY <1>1, <1>2
<1> DEFINE u == Chain[i]
           v == Chain[j]
<1>4. CASE Emit
  <2>1. hw'[v].tmc = hw[v].tmc
    <3>1. hw' = [hw EXCEPT ![Etm].held = @ + 1] /\ Etm \in Units
      BY <1>4, ChainFacts DEF Emit
    <3> HIDE DEF v
    <3>2. hw'[v] = IF v = Etm THEN [hw[Etm] EXCEPT !.held = @ + 1] ELSE hw[v]
      BY <1>1, <3>1 DEF v
    <3>3. hw[Etm] \in UnitState
      BY <1>1, <3>1
    <3> QED
      BY <3>2, <3>3 DEF UnitState
  <2> QED
    BY <2>1
<1>5. ASSUME NEW a \in Places, NEW b \in Places, Move(a, b)
      PROVE  FALSE
  <2> DEFINE x == Chain[a]
             y == Chain[b]
  <2>1. x \in Units /\ y \in Units /\ x # y
    BY <1>5, ChainFacts DEF Move, Places
  <2>2. hw' = [hw EXCEPT
                 ![x].held = @ - 1,
                 ![y].held = IF @ < RamWords THEN @ + 1 ELSE @]
    BY <1>5 DEF Move
  <2> HIDE DEF u, v, x, y
  <2>3. /\ hw'[x] = [hw[x] EXCEPT !.held = @ - 1]
        /\ hw'[y] = [hw[y] EXCEPT !.held = IF @ < RamWords THEN @ + 1 ELSE @]
        /\ \A w \in Units \ {x, y} : hw'[w] = hw[w]
    BY <1>1, <2>1, <2>2
  <2>4. hw[x] \in UnitState /\ hw[y] \in UnitState
    BY <1>1, <2>1
  <2>5. hw'[x].tmc = hw[x].tmc /\ hw'[y].tmc = hw[y].tmc
    BY <2>3, <2>4 DEF UnitState
  <2>6. hw'[v].tmc = hw[v].tmc
    BY <1>1, <2>3, <2>5 DEF v
  <2> QED
    BY <2>6 DEF v
<1>6. ASSUME NEW b \in Places, FlushDone(b)
      PROVE  hw'[u].held = 0
  <2> DEFINE y == Chain[b]
             t == IF hw[y].stop_on_flush THEN "stopping" ELSE "capturing"
  <2>1. y \in Units /\ hw' = [hw EXCEPT ![y].tmc = t] /\ b \in DOMAIN Chain
    BY <1>6, ChainFacts DEF FlushDone
  <2>2. b = j
    <3> SUFFICES ASSUME b # j PROVE FALSE
      OBVIOUS
    <3>1. y # v
      BY <2>1, ChainFacts
    <3> HIDE DEF y, v, t
    <3> QED
      BY <1>1, <2>1, <3>1 DEF v
  <2>3. hw[u].held = 0
    BY <1>6, <2>2 DEF FlushDone
  <2>4. hw'[u] = hw[u]
    <3> HIDE DEF t
    <3> QED
      BY <1>1, <2>1, <2>2
  <2> QED
    BY <2>3, <2>4
<1>7. ASSUME NEW b \in Places, Stopped(b)
      PROVE  FALSE
  <2> DEFINE y == Chain[b]
  <2>1. y \in Units /\ hw' = [hw EXCEPT ![y].tmc = "ready"] /\ y # v
    BY <1>7, ChainFacts DEF Stopped
  <2> HIDE DEF y, v
  <2>2. hw'[v] = hw[v]
    BY <1>1, <2>1 DEF v
  <2> QED
    BY <2>2 DEF v
<1> QED
  BY <1>4, <1>5, <1>6, <1>7 DEF Hardware

(* The hardware keeps what is known of a unit. *)

LEMMA TmcOnHardware ==
  ASSUME NEW u \in Units, u \in Tmcs,
         NEW k \in 0 .. 6, NEW mode,
         NEW s \in UnitState, NEW t \in UnitState,
         TmcOn(s, k, mode), HardwareMakes(u, s, t)
  PROVE  TmcOn(t, k, mode)
  BY DEF HardwareMakes, TmcOn

LEMMA SinkOffHardware ==
  ASSUME NEW u \in Units, u \in Tmcs,
         NEW k \in 0 .. 8,
         NEW s \in UnitState, NEW t \in UnitState,
         SinkOff(s, k), HardwareMakes(u, s, t)
  PROVE  SinkOff(t, k)
<1>1. u # Etm
  BY ChainFacts
<1> QED
  BY <1>1 DEF HardwareMakes, SinkOff, TmcOff

LEMMA LinkOffHardware ==
  ASSUME NEW u \in Units, u \in Tmcs, u # Sink,
         NEW k \in 0 .. 7,
         NEW s \in UnitState, NEW t \in UnitState,
         LinkOff(s, k), HardwareMakes(u, s, t)
  PROVE  LinkOff(t, k)
<1>1. u # Etm
  BY ChainFacts
<1> QED
  BY <1>1 DEF HardwareMakes, LinkOff, TmcOff

LEMMA FunnelOnHardware ==
  ASSUME NEW u \in Units, NEW k \in 0 .. 3,
         NEW s \in UnitState, NEW t \in UnitState,
         FunnelOn(s, k), HardwareMakes(u, s, t)
  PROVE  FunnelOn(t, k)
  BY DEF HardwareMakes, FunnelOn

LEMMA FunnelOffHardware ==
  ASSUME NEW u \in Units, NEW k \in 0 .. 1,
         NEW s \in UnitState, NEW t \in UnitState,
         FunnelOff(s, k), HardwareMakes(u, s, t)
  PROVE  FunnelOff(t, k)
  BY DEF HardwareMakes, FunnelOff

LEMMA PmuOnHardware ==
  ASSUME NEW u \in Units, NEW k \in 0 .. 3,
         NEW s \in UnitState, NEW t \in UnitState,
         PmuOn(s, k), HardwareMakes(u, s, t)
  PROVE  PmuOn(t, k)
  BY DEF HardwareMakes, PmuOn

LEMMA EtmOnHardware ==
  ASSUME NEW u \in Units, u \notin Tmcs,
         NEW k \in 0 .. 7,
         NEW s \in UnitState, NEW t \in UnitState,
         EtmOn(s, k), HardwareMakes(u, s, t)
  PROVE  EtmOn(t, k)
  BY DEF HardwareMakes, EtmOn

LEMMA EtmContinueHardware ==
  ASSUME NEW u \in Units, u \notin Tmcs,
         NEW k \in 0 .. 5,
         NEW s \in UnitState, NEW t \in UnitState,
         EtmContinue(s, k), HardwareMakes(u, s, t)
  PROVE  EtmContinue(t, k)
  BY DEF HardwareMakes, EtmContinue

LEMMA EtmOffHardware ==
  ASSUME NEW u \in Units, NEW k \in 0 .. 5,
         NEW s \in UnitState, NEW t \in UnitState,
         EtmOff(s, k), HardwareMakes(u, s, t)
  PROVE  EtmOff(t, k)
  BY DEF HardwareMakes, EtmOff

-----------------------------------------------------------------------------
(* The annotated calls: one access leads from one annotation to the next,  *)
(* and the hardware keeps each of them.                                    *)

(* Access n + 1 of the call p is made. *)
Step(p, n) ==
  LET u  == p[n + 1].unit
      op == p[n + 1].op
  IN /\ hw' \in [Units -> UnitState]
     /\ Makes(u, op, hw[u], hw'[u])
     /\ \A w \in Units \ {u} : hw'[w] = hw[w]

(* The access is the next one of the block it falls in. *)
LEMMA BlockStep ==
  ASSUME NEW p, NEW a \in Nat, NEW v \in Names, NEW ops \in Seq(Ops),
         Block(p, a, v, ops), NEW k \in 0 .. Len(ops) - 1, Step(p, a + k)
  PROVE  /\ hw' \in [Units -> UnitState]
         /\ Makes(v, ops[k + 1], hw[v], hw'[v])
         /\ \A w \in Units \ {v} : hw'[w] = hw[w]
<1>1. (a + k) + 1 \in a + 1 .. a + Len(ops) /\ ((a + k) + 1) - a = k + 1
  OBVIOUS
<1>2. p[(a + k) + 1] = [unit |-> v, op |-> ops[((a + k) + 1) - a]]
  BY <1>1 DEF Block
<1>3. p[(a + k) + 1].unit = v /\ p[(a + k) + 1].op = ops[k + 1]
  BY <1>1, <1>2
<1> QED
  BY <1>3 DEF Step

LEMMA JunoInitStep ==
  ASSUME platform = "JUNOR2", HwInv, NEW p, NEW off \in Nat,
         JunoInitBlocks(p, off),
         NEW n \in 0 .. 21, JunoInit(n), Step(p, off + n)
  PROVE  JunoInit(n + 1)'
<1>1. hw \in [Units -> UnitState]
  BY DEF HwInv
<1> DEFINE CircularOps == TmcOnOps("circular")
<1>2. /\ CircularOps \in Seq(Ops) /\ Len(CircularOps) = 6
      /\ PortOnOps \in Seq(Ops) /\ Len(PortOnOps) = 3
      /\ EtmOnOps \in Seq(Ops) /\ Len(EtmOnOps) = 7
  BY OpsTypes
<1>3. CASE n \in 0 .. 5
  <2> DEFINE k == n - 0
             b == off
  <2>1. /\ b \in Nat /\ k \in 0 .. 5 /\ off + n = b + k
        /\ Done(n, 0, 6) = k /\ Done(n + 1, 0, 6) = k + 1
    BY <1>3 DEF Done
  <2>2. Block(p, b, "etf0", CircularOps)
    BY DEF JunoInitBlocks
  <2> HIDE DEF b, k, CircularOps
  <2>3. /\ hw' \in [Units -> UnitState]
        /\ Makes("etf0", CircularOps[k + 1], hw["etf0"], hw'["etf0"])
        /\ \A w \in Units \ {"etf0"} : hw'[w] = hw[w]
    <3>1. Step(p, b + k)
      BY <2>1
    <3>2. k \in 0 .. Len(CircularOps) - 1
      BY <1>2, <2>1
    <3> QED
      BY <1>2, <2>1, <2>2, <3>1, <3>2, BlockStep DEF Names
  <2>4. TmcOn(hw["etf0"], k, "circular")
    BY <1>3, <2>1 DEF JunoInit
  <2>5. TmcOn(hw'["etf0"], k + 1, "circular")
    <3>1. hw["etf0"] \in UnitState /\ "etf0" \in Tmcs
      BY <1>1, JunoUnits
    <3> QED
      BY <2>1, <2>3, <2>4, <3>1, TmcOnStep DEF Names, CircularOps
  <2>6. \A w \in {"main_funnel", "cluster0_funnel", "pmu",
                  "etm"} : hw'[w] = hw[w]
    BY <2>3, JunoUnits
  <2>7. /\ Done(n + 1, 6, 3) = Done(n, 6, 3)
        /\ Done(n + 1, 9, 3) = Done(n, 9, 3)
        /\ Done(n + 1, 12, 3) = Done(n, 12, 3)
        /\ Done(n + 1, 15, 7) = Done(n, 15, 7)
    BY <1>3 DEF Done
  <2> QED
    BY <2>1, <2>5, <2>6, <2>7 DEF JunoInit
<1>4. CASE n \in 6 .. 8
  <2> DEFINE k == n - 6
             b == off + 6
  <2>1. /\ b \in Nat /\ k \in 0 .. 2 /\ off + n = b + k
        /\ Done(n, 6, 3) = k /\ Done(n + 1, 6, 3) = k + 1
    BY <1>4 DEF Done
  <2>2. Block(p, b, "main_funnel", PortOnOps)
    BY DEF JunoInitBlocks
  <2> HIDE DEF b, k, CircularOps
  <2>3. /\ hw' \in [Units -> UnitState]
        /\ Makes("main_funnel", PortOnOps[k + 1],
                 hw["main_funnel"], hw'["main_funnel"])
        /\ \A w \in Units \ {"main_funnel"} : hw'[w] = hw[w]
    <3>1. Step(p, b + k)
      BY <2>1
    <3>2. k \in 0 .. Len(PortOnOps) - 1
      BY <1>2, <2>1
    <3> QED
      BY <1>2, <2>1, <2>2, <3>1, <3>2, BlockStep DEF Names
  <2>4. FunnelOn(hw["main_funnel"], k)
    BY <1>4, <2>1 DEF JunoInit
  <2>5. FunnelOn(hw'["main_funnel"], k + 1)
    <3>1. hw["main_funnel"] \in UnitState
      BY <1>1, JunoUnits
    <3> QED
      BY <2>1, <2>3, <2>4, <3>1, FunnelOnStep DEF Names
  <2>6. \A w \in {"etf0", "cluster0_funnel", "pmu", "etm"} : hw'[w] = hw[w]
    BY <2>3, JunoUnits
  <2>7. /\ Done(n + 1, 0, 6) = Done(n, 0, 6)
        /\ Done(n + 1, 9, 3) = Done(n, 9, 3)
        /\ Done(n + 1, 12, 3) = Done(n, 12, 3)
        /\ Done(n + 1, 15, 7) = Done(n, 15, 7)
    BY <1>4 DEF Done
  <2> QED
    BY <2>1, <2>5, <2>6, <2>7 DEF JunoInit
<1>5. CASE n \in 9 .. 11
  <2> DEFINE k == n - 9
             b == off + 9
  <2>1. /\ b \in Nat /\ k \in 0 .. 2 /\ off + n = b + k
        /\ Done(n, 9, 3) = k /\ Done(n + 1, 9, 3) = k + 1
    BY <1>5 DEF Done
  <2>2. Block(p, b, "cluster0_funnel", PortOnOps)
    BY DEF JunoInitBlocks
  <2> HIDE DEF b, k, CircularOps
  <2>3. /\ hw' \in [Units -> UnitState]
        /\ Makes("cluster0_funnel", PortOnOps[k + 1],
                 hw["cluster0_funnel"], hw'["cluster0_funnel"])
        /\ \A w \in Units \ {"cluster0_funnel"} : hw'[w] = hw[w]
    <3>1. Step(p, b + k)
      BY <2>1
    <3>2. k \in 0 .. Len(PortOnOps) - 1
      BY <1>2, <2>1
    <3> QED
      BY <1>2, <2>1, <2>2, <3>1, <3>2, BlockStep DEF Names
  <2>4. FunnelOn(hw["cluster0_funnel"], k)
    BY <1>5, <2>1 DEF JunoInit
  <2>5. FunnelOn(hw'["cluster0_funnel"], k + 1)
    <3>1. hw["cluster0_funnel"] \in UnitState
      BY <1>1, JunoUnits
    <3> QED
      BY <2>1, <2>3, <2>4, <3>1, FunnelOnStep DEF Names
  <2>6. \A w \in {"etf0", "main_funnel", "pmu", "etm"} : hw'[w] = hw[w]
    BY <2>3, JunoUnits
  <2>7. /\ Done(n + 1, 0, 6) = Done(n, 0, 6)
        /\ Done(n + 1, 6, 3) = Done(n, 6, 3)
        /\ Done(n + 1, 12, 3) = Done(n, 12, 3)
        /\ Done(n + 1, 15, 7) = Done(n, 15, 7)
    BY <1>5 DEF Done
  <2> QED
    BY <2>1, <2>5, <2>6, <2>7 DEF JunoInit
<1>6. CASE n \in 12 .. 14
  <2> DEFINE k == n - 12
             b == off + 12
  <2>1. /\ b \in Nat /\ k \in 0 .. 2 /\ off + n = b + k
        /\ Done(n, 12, 3) = k /\ Done(n + 1, 12, 3) = k + 1
    BY <1>6 DEF Done
  <2>2. Block(p, b, "pmu", PortOnOps)
    BY DEF JunoInitBlocks
  <2> HIDE DEF b, k, CircularOps
  <2>3. /\ hw' \in [Units -> UnitState]
        /\ Makes("pmu", PortOnOps[k + 1], hw["pmu"], hw'["pmu"])
        /\ \A w \in Units \ {"pmu"} : hw'[w] = hw[w]
    <3>1. Step(p, b + k)
      BY <2>1
    <3>2. k \in 0 .. Len(PortOnOps) - 1
      BY <1>2, <2>1
    <3> QED
      BY <1>2, <2>1, <2>2, <3>1, <3>2, BlockStep DEF Names
  <2>4. PmuOn(hw["pmu"], k)
    BY <1>6, <2>1 DEF JunoInit
  <2>5. PmuOn(hw'["pmu"], k + 1)
    <3>1. hw["pmu"] \in UnitState
      BY <1>1, JunoUnits
    <3> QED
      BY <2>1, <2>3, <2>4, <3>1, PmuOnStep DEF Names
  <2>6. \A w \in {"etf0", "main_funnel", "cluster0_funnel",
                  "etm"} : hw'[w] = hw[w]
    BY <2>3, JunoUnits
  <2>7. /\ Done(n + 1, 0, 6) = Done(n, 0, 6)
        /\ Done(n + 1, 6, 3) = Done(n, 6, 3)
        /\ Done(n + 1, 9, 3) = Done(n, 9, 3)
        /\ Done(n + 1, 15, 7) = Done(n, 15, 7)
    BY <1>6 DEF Done
  <2> QED
    BY <2>1, <2>5, <2>6, <2>7 DEF JunoInit
<1>7. CASE n \in 15 .. 21
  <2> DEFINE k == n - 15
             b == off + 15
  <2>1. /\ b \in Nat /\ k \in 0 .. 6 /\ off + n = b + k
        /\ Done(n, 15, 7) = k /\ Done(n + 1, 15, 7) = k + 1
    BY <1>7 DEF Done
  <2>2. Block(p, b, "etm", EtmOnOps)
    BY DEF JunoInitBlocks
  <2> HIDE DEF b, k, CircularOps
  <2>3. /\ hw' \in [Units -> UnitState]
        /\ Makes("etm", EtmOnOps[k + 1], hw["etm"], hw'["etm"])
        /\ \A w \in Units \ {"etm"} : hw'[w] = hw[w]
    <3>1. Step(p, b + k)
      BY <2>1
    <3>2. k \in 0 .. Len(EtmOnOps) - 1
      BY <1>2, <2>1
    <3> QED
      BY <1>2, <2>1, <2>2, <3>1, <3>2, BlockStep DEF Names
  <2>4. EtmOn(hw["etm"], k)
    BY <1>7, <2>1 DEF JunoInit
  <2>5. EtmOn(hw'["etm"], k + 1)
    <3>1. hw["etm"] \in UnitState
      BY <1>1, JunoUnits
    <3> QED
      BY <2>1, <2>3, <2>4, <3>1, EtmOnStep DEF Names
  <2>6. \A w \in {"etf0", "main_funnel", "cluster0_funnel",
                  "pmu"} : hw'[w] = hw[w]
    BY <2>3, JunoUnits
  <2>7. /\ Done(n + 1, 0, 6) = Done(n, 0, 6)
        /\ Done(n + 1, 6, 3) = Done(n, 6, 3)
        /\ Done(n + 1, 9, 3) = Done(n, 9, 3)
        /\ Done(n + 1, 12, 3) = Done(n, 12, 3)
    BY <1>7 DEF Done
  <2> QED
    BY <2>1, <2>5, <2>6, <2>7 DEF JunoInit
<1> QED
  BY <1>3, <1>4, <1>5, <1>6, <1>7

LEMMA JunoStopStep ==
  ASSUME platform = "JUNOR2", HwInv, NEW p, NEW off \in Nat,
         JunoStopBlocks(p, off),
         NEW n \in 0 .. 14, JunoStop(n), Step(p, off + n)
  PROVE  JunoStop(n + 1)'
<1>1. hw \in [Units -> UnitState]
  BY DEF HwInv
<1>2. /\ EtmOffOps \in Seq(Ops) /\ Len(EtmOffOps) = 5
      /\ PortOffOps \in Seq(Ops) /\ Len(PortOffOps) = 1
      /\ SinkOffOps \in Seq(Ops) /\ Len(SinkOffOps) = 8
  BY OpsTypes
<1>3. CASE n \in 0 .. 4
  <2> DEFINE k == n - 0
             b == off
  <2>1. /\ b \in Nat /\ k \in 0 .. 4 /\ off + n = b + k
        /\ Done(n, 0, 5) = k /\ Done(n + 1, 0, 5) = k + 1
    BY <1>3 DEF Done
  <2>2. Block(p, b, "etm", EtmOffOps)
    BY DEF JunoStopBlocks
  <2> HIDE DEF b, k
  <2>3. /\ hw' \in [Units -> UnitState]
        /\ Makes("etm", EtmOffOps[k + 1], hw["etm"], hw'["etm"])
        /\ \A w \in Units \ {"etm"} : hw'[w] = hw[w]
    <3>1. Step(p, b + k)
      BY <2>1
    <3>2. k \in 0 .. Len(EtmOffOps) - 1
      BY <1>2, <2>1
    <3> QED
      BY <1>2, <2>1, <2>2, <3>1, <3>2, BlockStep DEF Names
  <2>4. EtmOff(hw["etm"], k)
    BY <1>3, <2>1 DEF JunoStop
  <2>5. EtmOff(hw'["etm"], k + 1)
    <3>1. hw["etm"] \in UnitState
      BY <1>1, JunoUnits
    <3> QED
      BY <2>1, <2>3, <2>4, <3>1, EtmOffStep DEF Names
  <2>6. \A w \in {"cluster0_funnel", "main_funnel", "etf0",
                  "pmu"} : hw'[w] = hw[w]
    BY <2>3, JunoUnits
  <2>7. /\ Done(n + 1, 5, 1) = Done(n, 5, 1)
        /\ Done(n + 1, 6, 1) = Done(n, 6, 1)
        /\ Done(n + 1, 7, 8) = Done(n, 7, 8)
    BY <1>3 DEF Done
  <2>8. /\ LockGates /\ Flushed(hw["etf0"], Done(n, 7, 8))
             => hw["etm"].held = 0
    BY DEF JunoStop
  <2>9. LockGates /\ Flushed(hw'["etf0"], Done(n + 1, 7, 8))
          => hw'["etm"].held = 0
    <3>1. Done(n + 1, 7, 8) = 0
      BY <1>3 DEF Done
    <3> QED
      BY <3>1 DEF Flushed
  <2> QED
    BY <2>1, <2>5, <2>6, <2>7, <2>9 DEF JunoStop, FunnelOff
<1>4. CASE n \in 5 .. 5
  <2> DEFINE k == n - 5
             b == off + 5
  <2>1. /\ b \in Nat /\ k \in 0 .. 0 /\ off + n = b + k
        /\ Done(n, 5, 1) = k /\ Done(n + 1, 5, 1) = k + 1
    BY <1>4 DEF Done
  <2>2. Block(p, b, "cluster0_funnel", PortOffOps)
    BY DEF JunoStopBlocks
  <2> HIDE DEF b, k
  <2>3. /\ hw' \in [Units -> UnitState]
        /\ Makes("cluster0_funnel", PortOffOps[k + 1],
                 hw["cluster0_funnel"], hw'["cluster0_funnel"])
        /\ \A w \in Units \ {"cluster0_funnel"} : hw'[w] = hw[w]
    <3>1. Step(p, b + k)
      BY <2>1
    <3>2. k \in 0 .. Len(PortOffOps) - 1
      BY <1>2, <2>1
    <3> QED
      BY <1>2, <2>1, <2>2, <3>1, <3>2, BlockStep DEF Names
  <2>4. FunnelOff(hw["cluster0_funnel"], k)
    BY <1>4, <2>1 DEF JunoStop
  <2>5. FunnelOff(hw'["cluster0_funnel"], k + 1)
    <3>1. hw["cluster0_funnel"] \in UnitState
      BY <1>1, JunoUnits
    <3> QED
      BY <2>1, <2>3, <2>4, <3>1, FunnelOffStep DEF Names
  <2>6. \A w \in {"etm", "main_funnel", "etf0", "pmu"} : hw'[w] = hw[w]
    BY <2>3, JunoUnits
  <2>7. /\ Done(n + 1, 0, 5) = Done(n, 0, 5)
        /\ Done(n + 1, 6, 1) = Done(n, 6, 1)
        /\ Done(n + 1, 7, 8) = Done(n, 7, 8)
    BY <1>4 DEF Done
  <2>8. /\ LockGates /\ Flushed(hw["etf0"], Done(n, 7, 8))
             => hw["etm"].held = 0
    BY DEF JunoStop
  <2>9. LockGates /\ Flushed(hw'["etf0"], Done(n + 1, 7, 8))
          => hw'["etm"].held = 0
    BY <2>6, <2>7, <2>8
  <2> QED
    BY <2>1, <2>5, <2>6, <2>7, <2>9 DEF JunoStop, FunnelOff
<1>5. CASE n \in 6 .. 6
  <2> DEFINE k == n - 6
             b == off + 6
  <2>1. /\ b \in Nat /\ k \in 0 .. 0 /\ off + n = b + k
        /\ Done(n, 6, 1) = k /\ Done(n + 1, 6, 1) = k + 1
    BY <1>5 DEF Done
  <2>2. Block(p, b, "main_funnel", PortOffOps)
    BY DEF JunoStopBlocks
  <2> HIDE DEF b, k
  <2>3. /\ hw' \in [Units -> UnitState]
        /\ Makes("main_funnel", PortOffOps[k + 1],
                 hw["main_funnel"], hw'["main_funnel"])
        /\ \A w \in Units \ {"main_funnel"} : hw'[w] = hw[w]
    <3>1. Step(p, b + k)
      BY <2>1
    <3>2. k \in 0 .. Len(PortOffOps) - 1
      BY <1>2, <2>1
    <3> QED
      BY <1>2, <2>1, <2>2, <3>1, <3>2, BlockStep DEF Names
  <2>4. FunnelOff(hw["main_funnel"], k)
    BY <1>5, <2>1 DEF JunoStop
  <2>5. FunnelOff(hw'["main_funnel"], k + 1)
    <3>1. hw["main_funnel"] \in UnitState
      BY <1>1, JunoUnits
    <3> QED
      BY <2>1, <2>3, <2>4, <3>1, FunnelOffStep DEF Names
  <2>6. \A w \in {"etm", "cluster0_funnel", "etf0", "pmu"} : hw'[w] = hw[w]
    BY <2>3, JunoUnits
  <2>7. /\ Done(n + 1, 0, 5) = Done(n, 0, 5)
        /\ Done(n + 1, 5, 1) = Done(n, 5, 1)
        /\ Done(n + 1, 7, 8) = Done(n, 7, 8)
    BY <1>5 DEF Done
  <2>8. /\ LockGates /\ Flushed(hw["etf0"], Done(n, 7, 8))
             => hw["etm"].held = 0
    BY DEF JunoStop
  <2>9. LockGates /\ Flushed(hw'["etf0"], Done(n + 1, 7, 8))
          => hw'["etm"].held = 0
    BY <2>6, <2>7, <2>8
  <2> QED
    BY <2>1, <2>5, <2>6, <2>7, <2>9 DEF JunoStop, FunnelOff
<1>6. CASE n \in 7 .. 14
  <2> DEFINE k == n - 7
             b == off + 7
  <2>1. /\ b \in Nat /\ k \in 0 .. 7 /\ off + n = b + k
        /\ Done(n, 7, 8) = k /\ Done(n + 1, 7, 8) = k + 1
    BY <1>6 DEF Done
  <2>2. Block(p, b, "etf0", SinkOffOps)
    BY DEF JunoStopBlocks
  <2> HIDE DEF b, k
  <2>3. /\ hw' \in [Units -> UnitState]
        /\ Makes("etf0", SinkOffOps[k + 1], hw["etf0"], hw'["etf0"])
        /\ \A w \in Units \ {"etf0"} : hw'[w] = hw[w]
    <3>1. Step(p, b + k)
      BY <2>1
    <3>2. k \in 0 .. Len(SinkOffOps) - 1
      BY <1>2, <2>1
    <3> QED
      BY <1>2, <2>1, <2>2, <3>1, <3>2, BlockStep DEF Names
  <2>4. SinkOff(hw["etf0"], k)
    BY <1>6, <2>1 DEF JunoStop
  <2>5. SinkOff(hw'["etf0"], k + 1)
    <3>1. hw["etf0"] \in UnitState /\ "etf0" \in Tmcs
      BY <1>1, JunoUnits
    <3> QED
      BY <2>1, <2>3, <2>4, <3>1, SinkOffStep DEF Names
  <2>6. \A w \in {"etm", "cluster0_funnel", "main_funnel",
                  "pmu"} : hw'[w] = hw[w]
    BY <2>3, JunoUnits
  <2>7. /\ Done(n + 1, 0, 5) = Done(n, 0, 5)
        /\ Done(n + 1, 5, 1) = Done(n, 5, 1)
        /\ Done(n + 1, 6, 1) = Done(n, 6, 1)
    BY <1>6 DEF Done
  <2>8. /\ LockGates /\ Flushed(hw["etf0"], Done(n, 7, 8))
             => hw["etm"].held = 0
    BY DEF JunoStop
  <2>9. LockGates /\ Flushed(hw'["etf0"], Done(n + 1, 7, 8))
          => hw'["etm"].held = 0
    <3>1. ASSUME Flushed(hw'["etf0"], k + 1) PROVE Flushed(hw["etf0"], k)
      <4>1. CASE k \in 0 .. 1
        BY <3>1, <4>1 DEF Flushed
      <4>2. CASE k = 2
        <5>1. Makes("etf0", "flushman", hw["etf0"], hw'["etf0"])
          BY <2>3, <4>2 DEF SinkOffOps
        <5>2. hw["etf0"] \in UnitState
          BY <1>1, JunoUnits
        <5>3. Changes("etf0", "flushman", hw["etf0"], hw'["etf0"])
          BY <5>1, <5>2, AccessFacts DEF Names, Ops
        <5>4. hw["etf0"].tmc = "capturing" /\ ~hw["etf0"].locked
          BY <2>4, <4>2 DEF SinkOff, TmcOff
        <5>5. hw'["etf0"].tmc = "flushing"
          BY <5>3, <5>4 DEF Changes, Config
        <5> QED
          BY <3>1, <4>2, <5>5 DEF Flushed
      <4>3. CASE k = 3
        <5>1. Makes("etf0", "wait_flush", hw["etf0"], hw'["etf0"])
          BY <2>3, <4>3 DEF SinkOffOps
        <5> QED
          BY <4>3, <5>1 DEF Flushed, Makes
      <4>4. CASE k > 3
        BY <2>1, <4>4 DEF Flushed
      <4> QED
        BY <2>1, <4>1, <4>2, <4>3, <4>4
    <3> QED
      BY <2>1, <2>6, <2>8, <3>1
  <2> QED
    BY <2>1, <2>5, <2>6, <2>7, <2>9 DEF JunoStop, FunnelOff
<1> QED
  BY <1>3, <1>4, <1>5, <1>6

LEMMA JunoContinueStep ==
  ASSUME platform = "JUNOR2", HwInv, NEW p, NEW off \in Nat,
         JunoContinueBlocks(p, off),
         NEW n \in 0 .. 16, JunoContinue(n), Step(p, off + n)
  PROVE  JunoContinue(n + 1)'
<1>1. hw \in [Units -> UnitState]
  BY DEF HwInv
<1> DEFINE CircularOps == TmcOnOps("circular")
<1>2. /\ CircularOps \in Seq(Ops) /\ Len(CircularOps) = 6
      /\ PortOnOps \in Seq(Ops) /\ Len(PortOnOps) = 3
      /\ EtmContinueOps \in Seq(Ops) /\ Len(EtmContinueOps) = 5
  BY OpsTypes
<1>3. CASE n \in 0 .. 5
  <2> DEFINE k == n - 0
             b == off
  <2>1. /\ b \in Nat /\ k \in 0 .. 5 /\ off + n = b + k
        /\ Done(n, 0, 6) = k /\ Done(n + 1, 0, 6) = k + 1
    BY <1>3 DEF Done
  <2>2. Block(p, b, "etf0", CircularOps)
    BY DEF JunoContinueBlocks
  <2> HIDE DEF b, k, CircularOps
  <2>3. /\ hw' \in [Units -> UnitState]
        /\ Makes("etf0", CircularOps[k + 1], hw["etf0"], hw'["etf0"])
        /\ \A w \in Units \ {"etf0"} : hw'[w] = hw[w]
    <3>1. Step(p, b + k)
      BY <2>1
    <3>2. k \in 0 .. Len(CircularOps) - 1
      BY <1>2, <2>1
    <3> QED
      BY <1>2, <2>1, <2>2, <3>1, <3>2, BlockStep DEF Names
  <2>4. TmcOn(hw["etf0"], k, "circular")
    BY <1>3, <2>1 DEF JunoContinue
  <2>5. TmcOn(hw'["etf0"], k + 1, "circular")
    <3>1. hw["etf0"] \in UnitState /\ "etf0" \in Tmcs
      BY <1>1, JunoUnits
    <3> QED
      BY <2>1, <2>3, <2>4, <3>1, TmcOnStep DEF Names, CircularOps
  <2>6. \A w \in {"main_funnel", "cluster0_funnel", "etm",
                  "pmu"} : hw'[w] = hw[w]
    BY <2>3, JunoUnits
  <2>7. /\ Done(n + 1, 6, 3) = Done(n, 6, 3)
        /\ Done(n + 1, 9, 3) = Done(n, 9, 3)
        /\ Done(n + 1, 12, 5) = Done(n, 12, 5)
    BY <1>3 DEF Done
  <2> QED
    BY <2>1, <2>5, <2>6, <2>7 DEF JunoContinue
<1>4. CASE n \in 6 .. 8
  <2> DEFINE k == n - 6
             b == off + 6
  <2>1. /\ b \in Nat /\ k \in 0 .. 2 /\ off + n = b + k
        /\ Done(n, 6, 3) = k /\ Done(n + 1, 6, 3) = k + 1
    BY <1>4 DEF Done
  <2>2. Block(p, b, "main_funnel", PortOnOps)
    BY DEF JunoContinueBlocks
  <2> HIDE DEF b, k, CircularOps
  <2>3. /\ hw' \in [Units -> UnitState]
        /\ Makes("main_funnel", PortOnOps[k + 1],
                 hw["main_funnel"], hw'["main_funnel"])
        /\ \A w \in Units \ {"main_funnel"} : hw'[w] = hw[w]
    <3>1. Step(p, b + k)
      BY <2>1
    <3>2. k \in 0 .. Len(PortOnOps) - 1
      BY <1>2, <2>1
    <3> QED
      BY <1>2, <2>1, <2>2, <3>1, <3>2, BlockStep DEF Names
  <2>4. FunnelOn(hw["main_funnel"], k)
    BY <1>4, <2>1 DEF JunoContinue
  <2>5. FunnelOn(hw'["main_funnel"], k + 1)
    <3>1. hw["main_funnel"] \in UnitState
      BY <1>1, JunoUnits
    <3> QED
      BY <2>1, <2>3, <2>4, <3>1, FunnelOnStep DEF Names
  <2>6. \A w \in {"etf0", "cluster0_funnel", "etm", "pmu"} : hw'[w] = hw[w]
    BY <2>3, JunoUnits
  <2>7. /\ Done(n + 1, 0, 6) = Done(n, 0, 6)
        /\ Done(n + 1, 9, 3) = Done(n, 9, 3)
        /\ Done(n + 1, 12, 5) = Done(n, 12, 5)
    BY <1>4 DEF Done
  <2> QED
    BY <2>1, <2>5, <2>6, <2>7 DEF JunoContinue
<1>5. CASE n \in 9 .. 11
  <2> DEFINE k == n - 9
             b == off + 9
  <2>1. /\ b \in Nat /\ k \in 0 .. 2 /\ off + n = b + k
        /\ Done(n, 9, 3) = k /\ Done(n + 1, 9, 3) = k + 1
    BY <1>5 DEF Done
  <2>2. Block(p, b, "cluster0_funnel", PortOnOps)
    BY DEF JunoContinueBlocks
  <2> HIDE DEF b, k, CircularOps
  <2>3. /\ hw' \in [Units -> UnitState]
        /\ Makes("cluster0_funnel", PortOnOps[k + 1],
                 hw["cluster0_funnel"], hw'["cluster0_funnel"])
        /\ \A w \in Units \ {"cluster0_funnel"} : hw'[w] = hw[w]
    <3>1. Step(p, b + k)
      BY <2>1
    <3>2. k \in 0 .. Len(PortOnOps) - 1
      BY <1>2, <2>1
    <3> QED
      BY <1>2, <2>1, <2>2, <3>1, <3>2, BlockStep DEF Names
  <2>4. FunnelOn(hw["cluster0_funnel"], k)
    BY <1>5, <2>1 DEF JunoContinue
  <2>5. FunnelOn(hw'["cluster0_funnel"], k + 1)
    <3>1. hw["cluster0_funnel"] \in UnitState
      BY <1>1, JunoUnits
    <3> QED
      BY <2>1, <2>3, <2>4, <3>1, FunnelOnStep DEF Names
  <2>6. \A w \in {"etf0", "main_funnel", "etm", "pmu"} : hw'[w] = hw[w]
    BY <2>3, JunoUnits
  <2>7. /\ Done(n + 1, 0, 6) = Done(n, 0, 6)
        /\ Done(n + 1, 6, 3) = Done(n, 6, 3)
        /\ Done(n + 1, 12, 5) = Done(n, 12, 5)
    BY <1>5 DEF Done
  <2> QED
    BY <2>1, <2>5, <2>6, <2>7 DEF JunoContinue
<1>6. CASE n \in 12 .. 16
  <2> DEFINE k == n - 12
             b == off + 12
  <2>1. /\ b \in Nat /\ k \in 0 .. 4 /\ off + n = b + k
        /\ Done(n, 12, 5) = k /\ Done(n + 1, 12, 5) = k + 1
    BY <1>6 DEF Done
  <2>2. Block(p, b, "etm", EtmContinueOps)
    BY DEF JunoContinueBlocks
  <2> HIDE DEF b, k, CircularOps
  <2>3. /\ hw' \in [Units -> UnitState]
        /\ Makes("etm", EtmContinueOps[k + 1], hw["etm"], hw'["etm"])
        /\ \A w \in Units \ {"etm"} : hw'[w] = hw[w]
    <3>1. Step(p, b + k)
      BY <2>1
    <3>2. k \in 0 .. Len(EtmContinueOps) - 1
      BY <1>2, <2>1
    <3> QED
      BY <1>2, <2>1, <2>2, <3>1, <3>2, BlockStep DEF Names
  <2>4. EtmContinue(hw["etm"], k)
    BY <1>6, <2>1 DEF JunoContinue
  <2>5. EtmContinue(hw'["etm"], k + 1)
    <3>1. hw["etm"] \in UnitState
      BY <1>1, JunoUnits
    <3> QED
      BY <2>1, <2>3, <2>4, <3>1, EtmContinueStep DEF Names
  <2>6. \A w \in {"etf0", "main_funnel", "cluster0_funnel",
                  "pmu"} : hw'[w] = hw[w]
    BY <2>3, JunoUnits
  <2>7. /\ Done(n + 1, 0, 6) = Done(n, 0, 6)
        /\ Done(n + 1, 6, 3) = Done(n, 6, 3)
        /\ Done(n + 1, 9, 3) = Done(n, 9, 3)
    BY <1>6 DEF Done
  <2> QED
    BY <2>1, <2>5, <2>6, <2>7 DEF JunoContinue
<1> QED
  BY <1>3, <1>4, <1>5, <1>6

LEMMA HikeyInitStep ==
  ASSUME platform # "JUNOR2", HwInv, NEW p, NEW off \in Nat,
         HikeyInitBlocks(p, off),
         NEW n \in 0 .. 30, HikeyInit(n), Step(p, off + n)
  PROVE  HikeyInit(n + 1)'
<1>1. hw \in [Units -> UnitState]
  BY DEF HwInv
<1> DEFINE CircularOps == TmcOnOps("circular")
           FifoOps == TmcOnOps("fifo")
<1>2. /\ CircularOps \in Seq(Ops) /\ Len(CircularOps) = 6
      /\ FifoOps \in Seq(Ops) /\ Len(FifoOps) = 6
      /\ PortOnOps \in Seq(Ops) /\ Len(PortOnOps) = 3
      /\ EtmOnOps \in Seq(Ops) /\ Len(EtmOnOps) = 7
  BY OpsTypes
<1>3. CASE n \in 0 .. 5
  <2> DEFINE k == n - 0
             b == off
  <2>1. /\ b \in Nat /\ k \in 0 .. 5 /\ off + n = b + k
        /\ Done(n, 0, 6) = k /\ Done(n + 1, 0, 6) = k + 1
    BY <1>3 DEF Done
  <2>2. Block(p, b, "etr0", CircularOps)
    BY DEF HikeyInitBlocks
  <2> HIDE DEF b, k, CircularOps, FifoOps
  <2>3. /\ hw' \in [Units -> UnitState]
        /\ Makes("etr0", CircularOps[k + 1], hw["etr0"], hw'["etr0"])
        /\ \A w \in Units \ {"etr0"} : hw'[w] = hw[w]
    <3>1. Step(p, b + k)
      BY <2>1
    <3>2. k \in 0 .. Len(CircularOps) - 1
      BY <1>2, <2>1
    <3> QED
      BY <1>2, <2>1, <2>2, <3>1, <3>2, BlockStep DEF Names
  <2>4. TmcOn(hw["etr0"], k, "circular")
    BY <1>3, <2>1 DEF HikeyInit
  <2>5. TmcOn(hw'["etr0"], k + 1, "circular")
    <3>1. hw["etr0"] \in UnitState /\ "etr0" \in Tmcs
      BY <1>1, HikeyUnits
    <3> QED
      BY <2>1, <2>3, <2>4, <3>1, TmcOnStep DEF Names, CircularOps
  <2>6. \A w \in {"etb2", "funnel2", "etb1", "funnel1", "etm"} : hw'[w] = hw[w]
    BY <2>3, HikeyUnits
  <2>7. /\ Done(n + 1, 6, 6) = Done(n, 6, 6)
        /\ Done(n + 1, 12, 3) = Done(n, 12, 3)
        /\ Done(n + 1, 15, 6) = Done(n, 15, 6)
        /\ Done(n + 1, 21, 3) = Done(n, 21, 3)
        /\ Done(n + 1, 24, 7) = Done(n, 24, 7)
    BY <1>3 DEF Done
  <2> QED
    BY <2>1, <2>5, <2>6, <2>7 DEF HikeyInit
<1>4. CASE n \in 6 .. 11
  <2> DEFINE k == n - 6
             b == off + 6
  <2>1. /\ b \in Nat /\ k \in 0 .. 5 /\ off + n = b + k
        /\ Done(n, 6, 6) = k /\ Done(n + 1, 6, 6) = k + 1
    BY <1>4 DEF Done
  <2>2. Block(p, b, "etb2", FifoOps)
    BY DEF HikeyInitBlocks
  <2> HIDE DEF b, k, CircularOps, FifoOps
  <2>3. /\ hw' \in [Units -> UnitState]
        /\ Makes("etb2", FifoOps[k + 1], hw["etb2"], hw'["etb2"])
        /\ \A w \in Units \ {"etb2"} : hw'[w] = hw[w]
    <3>1. Step(p, b + k)
      BY <2>1
    <3>2. k \in 0 .. Len(FifoOps) - 1
      BY <1>2, <2>1
    <3> QED
      BY <1>2, <2>1, <2>2, <3>1, <3>2, BlockStep DEF Names
  <2>4. TmcOn(hw["etb2"], k, "fifo")
    BY <1>4, <2>1 DEF HikeyInit
  <2>5. TmcOn(hw'["etb2"], k + 1, "fifo")
    <3>1. hw["etb2"] \in UnitState /\ "etb2" \in Tmcs
      BY <1>1, HikeyUnits
    <3> QED
      BY <2>1, <2>3, <2>4, <3>1, TmcOnStep DEF Names, FifoOps
  <2>6. \A w \in {"etr0", "funnel2", "etb1", "funnel1", "etm"} : hw'[w] = hw[w]
    BY <2>3, HikeyUnits
  <2>7. /\ Done(n + 1, 0, 6) = Done(n, 0, 6)
        /\ Done(n + 1, 12, 3) = Done(n, 12, 3)
        /\ Done(n + 1, 15, 6) = Done(n, 15, 6)
        /\ Done(n + 1, 21, 3) = Done(n, 21, 3)
        /\ Done(n + 1, 24, 7) = Done(n, 24, 7)
    BY <1>4 DEF Done
  <2> QED
    BY <2>1, <2>5, <2>6, <2>7 DEF HikeyInit
<1>5. CASE n \in 12 .. 14
  <2> DEFINE k == n - 12
             b == off + 12
  <2>1. /\ b \in Nat /\ k \in 0 .. 2 /\ off + n = b + k
        /\ Done(n, 12, 3) = k /\ Done(n + 1, 12, 3) = k + 1
    BY <1>5 DEF Done
  <2>2. Block(p, b, "funnel2", PortOnOps)
    BY DEF HikeyInitBlocks
  <2> HIDE DEF b, k, CircularOps, FifoOps
  <2>3. /\ hw' \in [Units -> UnitState]
        /\ Makes("funnel2", PortOnOps[k + 1], hw["funnel2"], hw'["funnel2"])
        /\ \A w \in Units \ {"funnel2"} : hw'[w] = hw[w]
    <3>1. Step(p, b + k)
      BY <2>1
    <3>2. k \in 0 .. Len(PortOnOps) - 1
      BY <1>2, <2>1
    <3> QED
      BY <1>2, <2>1, <2>2, <3>1, <3>2, BlockStep DEF Names
  <2>4. FunnelOn(hw["funnel2"], k)
    BY <1>5, <2>1 DEF HikeyInit
  <2>5. FunnelOn(hw'["funnel2"], k + 1)
    <3>1. hw["funnel2"] \in UnitState
      BY <1>1, HikeyUnits
    <3> QED
      BY <2>1, <2>3, <2>4, <3>1, FunnelOnStep DEF Names
  <2>6. \A w \in {"etr0", "etb2", "etb1", "funnel1", "etm"} : hw'[w] = hw[w]
    BY <2>3, HikeyUnits
  <2>7. /\ Done(n + 1, 0, 6) = Done(n, 0, 6)
        /\ Done(n + 1, 6, 6) = Done(n, 6, 6)
        /\ Done(n + 1, 15, 6) = Done(n, 15, 6)
        /\ Done(n + 1, 21, 3) = Done(n, 21, 3)
        /\ Done(n + 1, 24, 7) = Done(n, 24, 7)
    BY <1>5 DEF Done
  <2> QED
    BY <2>1, <2>5, <2>6, <2>7 DEF HikeyInit
<1>6. CASE n \in 15 .. 20
  <2> DEFINE k == n - 15
             b == off + 15
  <2>1. /\ b \in Nat /\ k \in 0 .. 5 /\ off + n = b + k
        /\ Done(n, 15, 6) = k /\ Done(n + 1, 15, 6) = k + 1
    BY <1>6 DEF Done
  <2>2. Block(p, b, "etb1", FifoOps)
    BY DEF HikeyInitBlocks
  <2> HIDE DEF b, k, CircularOps, FifoOps
  <2>3. /\ hw' \in [Units -> UnitState]
        /\ Makes("etb1", FifoOps[k + 1], hw["etb1"], hw'["etb1"])
        /\ \A w \in Units \ {"etb1"} : hw'[w] = hw[w]
    <3>1. Step(p, b + k)
      BY <2>1
    <3>2. k \in 0 .. Len(FifoOps) - 1
      BY <1>2, <2>1
    <3> QED
      BY <1>2, <2>1, <2>2, <3>1, <3>2, BlockStep DEF Names
  <2>4. TmcOn(hw["etb1"], k, "fifo")
    BY <1>6, <2>1 DEF HikeyInit
  <2>5. TmcOn(hw'["etb1"], k + 1, "fifo")
    <3>1. hw["etb1"] \in UnitState /\ "etb1" \in Tmcs
      BY <1>1, HikeyUnits
    <3> QED
      BY <2>1, <2>3, <2>4, <3>1, TmcOnStep DEF Names, FifoOps
  <2>6. \A w \in {"etr0", "etb2", "funnel2", "funnel1", "etm"} : hw'[w] = hw[w]
    BY <2>3, HikeyUnits
  <2>7. /\ Done(n + 1, 0, 6) = Done(n, 0, 6)
        /\ Done(n + 1, 6, 6) = Done(n, 6, 6)
        /\ Done(n + 1, 12, 3) = Done(n, 12, 3)
        /\ Done(n + 1, 21, 3) = Done(n, 21, 3)
        /\ Done(n + 1, 24, 7) = Done(n, 24, 7)
    BY <1>6 DEF Done
  <2> QED
    BY <2>1, <2>5, <2>6, <2>7 DEF HikeyInit
<1>7. CASE n \in 21 .. 23
  <2> DEFINE k == n - 21
             b == off + 21
  <2>1. /\ b \in Nat /\ k \in 0 .. 2 /\ off + n = b + k
        /\ Done(n, 21, 3) = k /\ Done(n + 1, 21, 3) = k + 1
    BY <1>7 DEF Done
  <2>2. Block(p, b, "funnel1", PortOnOps)
    BY DEF HikeyInitBlocks
  <2> HIDE DEF b, k, CircularOps, FifoOps
  <2>3. /\ hw' \in [Units -> UnitState]
        /\ Makes("funnel1", PortOnOps[k + 1], hw["funnel1"], hw'["funnel1"])
        /\ \A w \in Units \ {"funnel1"} : hw'[w] = hw[w]
    <3>1. Step(p, b + k)
      BY <2>1
    <3>2. k \in 0 .. Len(PortOnOps) - 1
      BY <1>2, <2>1
    <3> QED
      BY <1>2, <2>1, <2>2, <3>1, <3>2, BlockStep DEF Names
  <2>4. FunnelOn(hw["funnel1"], k)
    BY <1>7, <2>1 DEF HikeyInit
  <2>5. FunnelOn(hw'["funnel1"], k + 1)
    <3>1. hw["funnel1"] \in UnitState
      BY <1>1, HikeyUnits
    <3> QED
      BY <2>1, <2>3, <2>4, <3>1, FunnelOnStep DEF Names
  <2>6. \A w \in {"etr0", "etb2", "funnel2", "etb1", "etm"} : hw'[w] = hw[w]
    BY <2>3, HikeyUnits
  <2>7. /\ Done(n + 1, 0, 6) = Done(n, 0, 6)
        /\ Done(n + 1, 6, 6) = Done(n, 6, 6)
        /\ Done(n + 1, 12, 3) = Done(n, 12, 3)
        /\ Done(n + 1, 15, 6) = Done(n, 15, 6)
        /\ Done(n + 1, 24, 7) = Done(n, 24, 7)
    BY <1>7 DEF Done
  <2> QED
    BY <2>1, <2>5, <2>6, <2>7 DEF HikeyInit
<1>8. CASE n \in 24 .. 30
  <2> DEFINE k == n - 24
             b == off + 24
  <2>1. /\ b \in Nat /\ k \in 0 .. 6 /\ off + n = b + k
        /\ Done(n, 24, 7) = k /\ Done(n + 1, 24, 7) = k + 1
    BY <1>8 DEF Done
  <2>2. Block(p, b, "etm", EtmOnOps)
    BY DEF HikeyInitBlocks
  <2> HIDE DEF b, k, CircularOps, FifoOps
  <2>3. /\ hw' \in [Units -> UnitState]
        /\ Makes("etm", EtmOnOps[k + 1], hw["etm"], hw'["etm"])
        /\ \A w \in Units \ {"etm"} : hw'[w] = hw[w]
    <3>1. Step(p, b + k)
      BY <2>1
    <3>2. k \in 0 .. Len(EtmOnOps) - 1
      BY <1>2, <2>1
    <3> QED
      BY <1>2, <2>1, <2>2, <3>1, <3>2, BlockStep DEF Names
  <2>4. EtmOn(hw["etm"], k)
    BY <1>8, <2>1 DEF HikeyInit
  <2>5. EtmOn(hw'["etm"], k + 1)
    <3>1. hw["etm"] \in UnitState
      BY <1>1, HikeyUnits
    <3> QED
      BY <2>1, <2>3, <2>4, <3>1, EtmOnStep DEF Names
  <2>6. \A w \in {"etr0", "etb2", "funnel2", "etb1",
                  "funnel1"} : hw'[w] = hw[w]
    BY <2>3, HikeyUnits
  <2>7. /\ Done(n + 1, 0, 6) = Done(n, 0, 6)
        /\ Done(n + 1, 6, 6) = Done(n, 6, 6)
        /\ Done(n + 1, 12, 3) = Done(n, 12, 3)
        /\ Done(n + 1, 15, 6) = Done(n, 15, 6)
        /\ Done(n + 1, 21, 3) = Done(n, 21, 3)
    BY <1>8 DEF Done
  <2> QED
    BY <2>1, <2>5, <2>6, <2>7 DEF HikeyInit
<1> QED
  BY <1>3, <1>4, <1>5, <1>6, <1>7, <1>8

LEMMA HikeyStopStep ==
  ASSUME platform # "JUNOR2", HwInv, NEW p, NEW off \in Nat,
         HikeyStopBlocks(p, off),
         NEW n \in 0 .. 28, HikeyStop(n), Step(p, off + n)
  PROVE  HikeyStop(n + 1)'
<1>1. hw \in [Units -> UnitState]
  BY DEF HwInv
<1>2. /\ EtmOffOps \in Seq(Ops) /\ Len(EtmOffOps) = 5
      /\ PortOffOps \in Seq(Ops) /\ Len(PortOffOps) = 1
      /\ LinkOffOps \in Seq(Ops) /\ Len(LinkOffOps) = 7
      /\ SinkOffOps \in Seq(Ops) /\ Len(SinkOffOps) = 8
  BY OpsTypes
<1>3. CASE n \in 0 .. 4
  <2> DEFINE k == n - 0
             b == off
  <2>1. /\ b \in Nat /\ k \in 0 .. 4 /\ off + n = b + k
        /\ Done(n, 0, 5) = k /\ Done(n + 1, 0, 5) = k + 1
    BY <1>3 DEF Done
  <2>2. Block(p, b, "etm", EtmOffOps)
    BY DEF HikeyStopBlocks
  <2> HIDE DEF b, k
  <2>3. /\ hw' \in [Units -> UnitState]
        /\ Makes("etm", EtmOffOps[k + 1], hw["etm"], hw'["etm"])
        /\ \A w \in Units \ {"etm"} : hw'[w] = hw[w]
    <3>1. Step(p, b + k)
      BY <2>1
    <3>2. k \in 0 .. Len(EtmOffOps) - 1
      BY <1>2, <2>1
    <3> QED
      BY <1>2, <2>1, <2>2, <3>1, <3>2, BlockStep DEF Names
  <2>4. EtmOff(hw["etm"], k)
    BY <1>3, <2>1 DEF HikeyStop
  <2>5. EtmOff(hw'["etm"], k + 1)
    <3>1. hw["etm"] \in UnitState
      BY <1>1, HikeyUnits
    <3> QED
      BY <2>1, <2>3, <2>4, <3>1, EtmOffStep DEF Names
  <2>6. \A w \in {"funnel1", "etb1", "funnel2", "etb2",
                  "etr0"} : hw'[w] = hw[w]
    BY <2>3, HikeyUnits
  <2>7. /\ Done(n + 1, 5, 1) = Done(n, 5, 1)
        /\ Done(n + 1, 6, 7) = Done(n, 6, 7)
        /\ Done(n + 1, 13, 1) = Done(n, 13, 1)
        /\ Done(n + 1, 14, 7) = Done(n, 14, 7)
        /\ Done(n + 1, 21, 8) = Done(n, 21, 8)
    BY <1>3 DEF Done
  <2>8. /\ LockGates /\ Flushed(hw["etb1"], Done(n, 6, 7))
             => hw["etm"].held = 0
    BY DEF HikeyStop
  <2>9. LockGates /\ Flushed(hw'["etb1"], Done(n + 1, 6, 7))
          => hw'["etm"].held = 0
    <3>1. Done(n + 1, 6, 7) = 0
      BY <1>3 DEF Done
    <3> QED
      BY <3>1 DEF Flushed
  <2> QED
    BY <2>1, <2>5, <2>6, <2>7, <2>9 DEF HikeyStop, FunnelOff
<1>4. CASE n \in 5 .. 5
  <2> DEFINE k == n - 5
             b == off + 5
  <2>1. /\ b \in Nat /\ k \in 0 .. 0 /\ off + n = b + k
        /\ Done(n, 5, 1) = k /\ Done(n + 1, 5, 1) = k + 1
    BY <1>4 DEF Done
  <2>2. Block(p, b, "funnel1", PortOffOps)
    BY DEF HikeyStopBlocks
  <2> HIDE DEF b, k
  <2>3. /\ hw' \in [Units -> UnitState]
        /\ Makes("funnel1", PortOffOps[k + 1], hw["funnel1"], hw'["funnel1"])
        /\ \A w \in Units \ {"funnel1"} : hw'[w] = hw[w]
    <3>1. Step(p, b + k)
      BY <2>1
    <3>2. k \in 0 .. Len(PortOffOps) - 1
      BY <1>2, <2>1
    <3> QED
      BY <1>2, <2>1, <2>2, <3>1, <3>2, BlockStep DEF Names
  <2>4. FunnelOff(hw["funnel1"], k)
    BY <1>4, <2>1 DEF HikeyStop
  <2>5. FunnelOff(hw'["funnel1"], k + 1)
    <3>1. hw["funnel1"] \in UnitState
      BY <1>1, HikeyUnits
    <3> QED
      BY <2>1, <2>3, <2>4, <3>1, FunnelOffStep DEF Names
  <2>6. \A w \in {"etm", "etb1", "funnel2", "etb2", "etr0"} : hw'[w] = hw[w]
    BY <2>3, HikeyUnits
  <2>7. /\ Done(n + 1, 0, 5) = Done(n, 0, 5)
        /\ Done(n + 1, 6, 7) = Done(n, 6, 7)
        /\ Done(n + 1, 13, 1) = Done(n, 13, 1)
        /\ Done(n + 1, 14, 7) = Done(n, 14, 7)
        /\ Done(n + 1, 21, 8) = Done(n, 21, 8)
    BY <1>4 DEF Done
  <2>8. /\ LockGates /\ Flushed(hw["etb1"], Done(n, 6, 7))
             => hw["etm"].held = 0
    BY DEF HikeyStop
  <2>9. LockGates /\ Flushed(hw'["etb1"], Done(n + 1, 6, 7))
          => hw'["etm"].held = 0
    BY <2>6, <2>7, <2>8
  <2> QED
    BY <2>1, <2>5, <2>6, <2>7, <2>9 DEF HikeyStop, FunnelOff
<1>5. CASE n \in 6 .. 12
  <2> DEFINE k == n - 6
             b == off + 6
  <2>1. /\ b \in Nat /\ k \in 0 .. 6 /\ off + n = b + k
        /\ Done(n, 6, 7) = k /\ Done(n + 1, 6, 7) = k + 1
    BY <1>5 DEF Done
  <2>2. Block(p, b, "etb1", LinkOffOps)
    BY DEF HikeyStopBlocks
  <2> HIDE DEF b, k
  <2>3. /\ hw' \in [Units -> UnitState]
        /\ Makes("etb1", LinkOffOps[k + 1], hw["etb1"], hw'["etb1"])
        /\ \A w \in Units \ {"etb1"} : hw'[w] = hw[w]
    <3>1. Step(p, b + k)
      BY <2>1
    <3>2. k \in 0 .. Len(LinkOffOps) - 1
      BY <1>2, <2>1
    <3> QED
      BY <1>2, <2>1, <2>2, <3>1, <3>2, BlockStep DEF Names
  <2>4. LinkOff(hw["etb1"], k)
    BY <1>5, <2>1 DEF HikeyStop
  <2>5. LinkOff(hw'["etb1"], k + 1)
    <3>1. hw["etb1"] \in UnitState /\ "etb1" \in Tmcs
      BY <1>1, HikeyUnits
    <3> QED
      BY <2>1, <2>3, <2>4, <3>1, LinkOffStep DEF Names
  <2>6. \A w \in {"etm", "funnel1", "funnel2", "etb2", "etr0"} : hw'[w] = hw[w]
    BY <2>3, HikeyUnits
  <2>7. /\ Done(n + 1, 0, 5) = Done(n, 0, 5)
        /\ Done(n + 1, 5, 1) = Done(n, 5, 1)
        /\ Done(n + 1, 13, 1) = Done(n, 13, 1)
        /\ Done(n + 1, 14, 7) = Done(n, 14, 7)
        /\ Done(n + 1, 21, 8) = Done(n, 21, 8)
    BY <1>5 DEF Done
  <2>8. /\ LockGates /\ Flushed(hw["etb1"], Done(n, 6, 7))
             => hw["etm"].held = 0
    BY DEF HikeyStop
  <2>9. LockGates /\ Flushed(hw'["etb1"], Done(n + 1, 6, 7))
          => hw'["etm"].held = 0
    <3>1. ASSUME Flushed(hw'["etb1"], k + 1) PROVE Flushed(hw["etb1"], k)
      <4>1. CASE k \in 0 .. 1
        BY <3>1, <4>1 DEF Flushed
      <4>2. CASE k = 2
        <5>1. Makes("etb1", "flushman", hw["etb1"], hw'["etb1"])
          BY <2>3, <4>2 DEF LinkOffOps
        <5>2. hw["etb1"] \in UnitState
          BY <1>1, HikeyUnits
        <5>3. Changes("etb1", "flushman", hw["etb1"], hw'["etb1"])
          BY <5>1, <5>2, AccessFacts DEF Names, Ops
        <5>4. hw["etb1"].tmc = "capturing" /\ ~hw["etb1"].locked
          BY <2>4, <4>2 DEF LinkOff, TmcOff
        <5>5. hw'["etb1"].tmc = "flushing"
          BY <5>3, <5>4 DEF Changes, Config
        <5> QED
          BY <3>1, <4>2, <5>5 DEF Flushed
      <4>3. CASE k = 3
        <5>1. Makes("etb1", "wait_flush", hw["etb1"], hw'["etb1"])
          BY <2>3, <4>3 DEF LinkOffOps
        <5> QED
          BY <4>3, <5>1 DEF Flushed, Makes
      <4>4. CASE k > 3
        BY <2>1, <4>4 DEF Flushed
      <4> QED
        BY <2>1, <4>1, <4>2, <4>3, <4>4
    <3> QED
      BY <2>1, <2>6, <2>8, <3>1
  <2> QED
    BY <2>1, <2>5, <2>6, <2>7, <2>9 DEF HikeyStop, FunnelOff
<1>6. CASE n \in 13 .. 13
  <2> DEFINE k == n - 13
             b == off + 13
  <2>1. /\ b \in Nat /\ k \in 0 .. 0 /\ off + n = b + k
        /\ Done(n, 13, 1) = k /\ Done(n + 1, 13, 1) = k + 1
    BY <1>6 DEF Done
  <2>2. Block(p, b, "funnel2", PortOffOps)
    BY DEF HikeyStopBlocks
  <2> HIDE DEF b, k
  <2>3. /\ hw' \in [Units -> UnitState]
        /\ Makes("funnel2", PortOffOps[k + 1], hw["funnel2"], hw'["funnel2"])
        /\ \A w \in Units \ {"funnel2"} : hw'[w] = hw[w]
    <3>1. Step(p, b + k)
      BY <2>1
    <3>2. k \in 0 .. Len(PortOffOps) - 1
      BY <1>2, <2>1
    <3> QED
      BY <1>2, <2>1, <2>2, <3>1, <3>2, BlockStep DEF Names
  <2>4. FunnelOff(hw["funnel2"], k)
    BY <1>6, <2>1 DEF HikeyStop
  <2>5. FunnelOff(hw'["funnel2"], k + 1)
    <3>1. hw["funnel2"] \in UnitState
      BY <1>1, HikeyUnits
    <3> QED
      BY <2>1, <2>3, <2>4, <3>1, FunnelOffStep DEF Names
  <2>6. \A w \in {"etm", "funnel1", "etb1", "etb2", "etr0"} : hw'[w] = hw[w]
    BY <2>3, HikeyUnits
  <2>7. /\ Done(n + 1, 0, 5) = Done(n, 0, 5)
        /\ Done(n + 1, 5, 1) = Done(n, 5, 1)
        /\ Done(n + 1, 6, 7) = Done(n, 6, 7)
        /\ Done(n + 1, 14, 7) = Done(n, 14, 7)
        /\ Done(n + 1, 21, 8) = Done(n, 21, 8)
    BY <1>6 DEF Done
  <2>8. /\ LockGates /\ Flushed(hw["etb1"], Done(n, 6, 7))
             => hw["etm"].held = 0
    BY DEF HikeyStop
  <2>9. LockGates /\ Flushed(hw'["etb1"], Done(n + 1, 6, 7))
          => hw'["etm"].held = 0
    BY <2>6, <2>7, <2>8
  <2> QED
    BY <2>1, <2>5, <2>6, <2>7, <2>9 DEF HikeyStop, FunnelOff
<1>7. CASE n \in 14 .. 20
  <2> DEFINE k == n - 14
             b == off + 14
  <2>1. /\ b \in Nat /\ k \in 0 .. 6 /\ off + n = b + k
        /\ Done(n, 14, 7) = k /\ Done(n + 1, 14, 7) = k + 1
    BY <1>7 DEF Done
  <2>2. Block(p, b, "etb2", LinkOffOps)
    BY DEF HikeyStopBlocks
  <2> HIDE DEF b, k
  <2>3. /\ hw' \in [Units -> UnitState]
        /\ Makes("etb2", LinkOffOps[k + 1], hw["etb2"], hw'["etb2"])
        /\ \A w \in Units \ {"etb2"} : hw'[w] = hw[w]
    <3>1. Step(p, b + k)
      BY <2>1
    <3>2. k \in 0 .. Len(LinkOffOps) - 1
      BY <1>2, <2>1
    <3> QED
      BY <1>2, <2>1, <2>2, <3>1, <3>2, BlockStep DEF Names
  <2>4. LinkOff(hw["etb2"], k)
    BY <1>7, <2>1 DEF HikeyStop
  <2>5. LinkOff(hw'["etb2"], k + 1)
    <3>1. hw["etb2"] \in UnitState /\ "etb2" \in Tmcs
      BY <1>1, HikeyUnits
    <3> QED
      BY <2>1, <2>3, <2>4, <3>1, LinkOffStep DEF Names
  <2>6. \A w \in {"etm", "funnel1", "etb1", "funnel2", "etr0"} : hw'[w] = hw[w]
    BY <2>3, HikeyUnits
  <2>7. /\ Done(n + 1, 0, 5) = Done(n, 0, 5)
        /\ Done(n + 1, 5, 1) = Done(n, 5, 1)
        /\ Done(n + 1, 6, 7) = Done(n, 6, 7)
        /\ Done(n + 1, 13, 1) = Done(n, 13, 1)
        /\ Done(n + 1, 21, 8) = Done(n, 21, 8)
    BY <1>7 DEF Done
  <2>8. /\ LockGates /\ Flushed(hw["etb1"], Done(n, 6, 7))
             => hw["etm"].held = 0
    BY DEF HikeyStop
  <2>9. LockGates /\ Flushed(hw'["etb1"], Done(n + 1, 6, 7))
          => hw'["etm"].held = 0
    BY <2>6, <2>7, <2>8
  <2> QED
    BY <2>1, <2>5, <2>6, <2>7, <2>9 DEF HikeyStop, FunnelOff
<1>8. CASE n \in 21 .. 28
  <2> DEFINE k == n - 21
             b == off + 21
  <2>1. /\ b \in Nat /\ k \in 0 .. 7 /\ off + n = b + k
        /\ Done(n, 21, 8) = k /\ Done(n + 1, 21, 8) = k + 1
    BY <1>8 DEF Done
  <2>2. Block(p, b, "etr0", SinkOffOps)
    BY DEF HikeyStopBlocks
  <2> HIDE DEF b, k
  <2>3. /\ hw' \in [Units -> UnitState]
        /\ Makes("etr0", SinkOffOps[k + 1], hw["etr0"], hw'["etr0"])
        /\ \A w \in Units \ {"etr0"} : hw'[w] = hw[w]
    <3>1. Step(p, b + k)
      BY <2>1
    <3>2. k \in 0 .. Len(SinkOffOps) - 1
      BY <1>2, <2>1
    <3> QED
      BY <1>2, <2>1, <2>2, <3>1, <3>2, BlockStep DEF Names
  <2>4. SinkOff(hw["etr0"], k)
    BY <1>8, <2>1 DEF HikeyStop
  <2>5. SinkOff(hw'["etr0"], k + 1)
    <3>1. hw["etr0"] \in UnitState /\ "etr0" \in Tmcs
      BY <1>1, HikeyUnits
    <3> QED
      BY <2>1, <2>3, <2>4, <3>1, SinkOffStep DEF Names
  <2>6. \A w \in {"etm", "funnel1", "etb1", "funnel2", "etb2"} : hw'[w] = hw[w]
    BY <2>3, HikeyUnits
  <2>7. /\ Done(n + 1, 0, 5) = Done(n, 0, 5)
        /\ Done(n + 1, 5, 1) = Done(n, 5, 1)
        /\ Done(n + 1, 6, 7) = Done(n, 6, 7)
        /\ Done(n + 1, 13, 1) = Done(n, 13, 1)
        /\ Done(n + 1, 14, 7) = Done(n, 14, 7)
    BY <1>8 DEF Done
  <2>8. /\ LockGates /\ Flushed(hw["etb1"], Done(n, 6, 7))
             => hw["etm"].held = 0
    BY DEF HikeyStop
  <2>9. LockGates /\ Flushed(hw'["etb1"], Done(n + 1, 6, 7))
          => hw'["etm"].held = 0
    BY <2>6, <2>7, <2>8
  <2> QED
    BY <2>1, <2>5, <2>6, <2>7, <2>9 DEF HikeyStop, FunnelOff
<1> QED
  BY <1>3, <1>4, <1>5, <1>6, <1>7, <1>8

LEMMA JunoInitHardware ==
  ASSUME platform = "JUNOR2", HwInv, Hardware, NEW n \in 0 .. 22, JunoInit(n)
  PROVE  JunoInit(n)'
<1>1. /\ hw \in [Units -> UnitState] /\ hw' \in [Units -> UnitState]
      /\ \A u \in Units : HardwareMakes(u, hw[u], hw'[u])
  BY HardwareFacts DEF HwInv
<1>2. \A a, len \in Nat : Done(n, a, len) \in 0 .. len
  BY DEF Done
<1>3. TmcOn(hw'["etf0"], Done(n, 0, 6), "circular")
  <2>1. TmcOn(hw["etf0"], Done(n, 0, 6), "circular")
    BY DEF JunoInit
  <2>2. /\ "etf0" \in Units /\ hw["etf0"] \in UnitState /\ "etf0" \in Tmcs
        /\ hw'["etf0"] \in UnitState
        /\ HardwareMakes("etf0", hw["etf0"], hw'["etf0"])
    BY <1>1, JunoUnits
  <2> QED
    BY <1>2, <2>1, <2>2, TmcOnHardware
<1>4. FunnelOn(hw'["main_funnel"], Done(n, 6, 3))
  <2>1. FunnelOn(hw["main_funnel"], Done(n, 6, 3))
    BY DEF JunoInit
  <2>2. /\ "main_funnel" \in Units /\ hw["main_funnel"] \in UnitState
        /\ hw'["main_funnel"] \in UnitState
        /\ HardwareMakes("main_funnel", hw["main_funnel"], hw'["main_funnel"])
    BY <1>1, JunoUnits
  <2> QED
    BY <1>2, <2>1, <2>2, FunnelOnHardware
<1>5. FunnelOn(hw'["cluster0_funnel"], Done(n, 9, 3))
  <2>1. FunnelOn(hw["cluster0_funnel"], Done(n, 9, 3))
    BY DEF JunoInit
  <2>2. /\ "cluster0_funnel" \in Units /\ hw["cluster0_funnel"] \in UnitState
        /\ hw'["cluster0_funnel"] \in UnitState
        /\ HardwareMakes("cluster0_funnel", hw["cluster0_funnel"],
                         hw'["cluster0_funnel"])
    BY <1>1, JunoUnits
  <2> QED
    BY <1>2, <2>1, <2>2, FunnelOnHardware
<1>6. PmuOn(hw'["pmu"], Done(n, 12, 3))
  <2>1. PmuOn(hw["pmu"], Done(n, 12, 3))
    BY DEF JunoInit
  <2>2. /\ "pmu" \in Units /\ hw["pmu"] \in UnitState
        /\ hw'["pmu"] \in UnitState
        /\ HardwareMakes("pmu", hw["pmu"], hw'["pmu"])
    BY <1>1, JunoUnits
  <2> QED
    BY <1>2, <2>1, <2>2, PmuOnHardware
<1>7. EtmOn(hw'["etm"], Done(n, 15, 7))
  <2>1. EtmOn(hw["etm"], Done(n, 15, 7))
    BY DEF JunoInit
  <2>2. /\ "etm" \in Units /\ hw["etm"] \in UnitState /\ "etm" \notin Tmcs
        /\ hw'["etm"] \in UnitState
        /\ HardwareMakes("etm", hw["etm"], hw'["etm"])
    BY <1>1, JunoUnits
  <2> QED
    BY <1>2, <2>1, <2>2, EtmOnHardware
<1> QED
  BY <1>3, <1>4, <1>5, <1>6, <1>7 DEF JunoInit

LEMMA JunoStopHardware ==
  ASSUME platform = "JUNOR2", HwInv, Hardware, NEW n \in 0 .. 15, JunoStop(n)
  PROVE  JunoStop(n)'
<1>1. /\ hw \in [Units -> UnitState] /\ hw' \in [Units -> UnitState]
      /\ \A u \in Units : HardwareMakes(u, hw[u], hw'[u])
  BY HardwareFacts DEF HwInv
<1>2. \A a, len \in Nat : Done(n, a, len) \in 0 .. len
  BY DEF Done
<1>3. EtmOff(hw'["etm"], Done(n, 0, 5))
  <2>1. EtmOff(hw["etm"], Done(n, 0, 5))
    BY DEF JunoStop
  <2>2. /\ "etm" \in Units /\ hw["etm"] \in UnitState
        /\ hw'["etm"] \in UnitState
        /\ HardwareMakes("etm", hw["etm"], hw'["etm"])
    BY <1>1, JunoUnits
  <2> QED
    BY <1>2, <2>1, <2>2, EtmOffHardware
<1>4. n < 15 => FunnelOff(hw'["cluster0_funnel"], Done(n, 5, 1))
  <2>1. n < 15 => FunnelOff(hw["cluster0_funnel"], Done(n, 5, 1))
    BY DEF JunoStop
  <2>2. /\ "cluster0_funnel" \in Units /\ hw["cluster0_funnel"] \in UnitState
        /\ hw'["cluster0_funnel"] \in UnitState
        /\ HardwareMakes("cluster0_funnel", hw["cluster0_funnel"],
                         hw'["cluster0_funnel"])
    BY <1>1, JunoUnits
  <2> QED
    BY <1>2, <2>1, <2>2, FunnelOffHardware
<1>5. n < 15 => FunnelOff(hw'["main_funnel"], Done(n, 6, 1))
  <2>1. n < 15 => FunnelOff(hw["main_funnel"], Done(n, 6, 1))
    BY DEF JunoStop
  <2>2. /\ "main_funnel" \in Units /\ hw["main_funnel"] \in UnitState
        /\ hw'["main_funnel"] \in UnitState
        /\ HardwareMakes("main_funnel", hw["main_funnel"], hw'["main_funnel"])
    BY <1>1, JunoUnits
  <2> QED
    BY <1>2, <2>1, <2>2, FunnelOffHardware
<1>6. SinkOff(hw'["etf0"], Done(n, 7, 8))
  <2>1. SinkOff(hw["etf0"], Done(n, 7, 8))
    BY DEF JunoStop
  <2>2. /\ "etf0" \in Units /\ hw["etf0"] \in UnitState /\ "etf0" \in Tmcs
        /\ hw'["etf0"] \in UnitState
        /\ HardwareMakes("etf0", hw["etf0"], hw'["etf0"])
    BY <1>1, JunoUnits
  <2> QED
    BY <1>2, <2>1, <2>2, SinkOffHardware
<1>7. hw'["cluster0_funnel"].locked /\ hw'["main_funnel"].locked
  BY <1>1, JunoUnits DEF JunoStop, HardwareMakes
<1>8. n < 15 => hw'["pmu"].on
  BY <1>1, JunoUnits DEF JunoStop, HardwareMakes
<1>9. ASSUME LockGates, Flushed(hw'["etf0"], Done(n, 7, 8))
      PROVE  hw'["etm"].held = 0
  <2>1. CASE Flushed(hw["etf0"], Done(n, 7, 8))
    <3>1. hw["etm"].held = 0
      BY <1>9, <2>1 DEF JunoStop
    <3>2. Done(n, 7, 8) >= 3
      <4>1. Done(n, 7, 8) \in Nat
        BY DEF Done
      <4> QED
        BY <2>1, <4>1 DEF Flushed
    <3>3. Done(n, 0, 5) = 5
      BY <3>2 DEF Done
    <3>4. ~hw["etm"].on
      BY <3>3 DEF JunoStop, EtmOff
    <3>5. HardwareMakes("etm", hw["etm"], hw'["etm"]) /\ "etm" \notin Tmcs
      BY <1>1, JunoUnits
    <3> QED
      BY <3>1, <3>4, <3>5 DEF HardwareMakes
  <2>2. CASE ~Flushed(hw["etf0"], Done(n, 7, 8))
    <3>1. /\ Done(n, 7, 8) = 3 /\ hw["etf0"].tmc = "flushing"
          /\ hw'["etf0"].tmc # "flushing"
      BY <1>2, <1>9, <2>2 DEF Flushed
    <3>2. n < 15
      BY <3>1 DEF Done
    <3>3. hw["cluster0_funnel"].on /\ hw["main_funnel"].on
      BY <1>9, <3>2 DEF JunoStop, FunnelOff
    <3>4. Connected(1, 4)
      BY <3>3, JunoUnits DEF Connected, Passes
    <3>5. PICK j \in DOMAIN Chain : j = 4 /\ Chain[j] = "etf0"
      BY JunoUnits
    <3>6. PICK i \in 1 .. j - 1 : i = 1 /\ Chain[i] = "etm"
      BY <3>5, JunoUnits
    <3>7. Chain[i] \in Stores /\ Connected(i, j)
      BY <3>4, <3>5, <3>6, JunoUnits
    <3> HIDE DEF Hardware
    <3>8. hw'[Chain[i]].held = 0
      BY <3>1, <3>5, <3>7, FlushEnds
    <3> QED
      BY <3>6, <3>8
  <2> QED
    BY <2>1, <2>2
<1> QED
  BY <1>3, <1>4, <1>5, <1>6, <1>7, <1>8, <1>9 DEF JunoStop

LEMMA JunoContinueHardware ==
  ASSUME platform = "JUNOR2", HwInv, Hardware, NEW n \in 0 .. 17, JunoContinue(n)
  PROVE  JunoContinue(n)'
<1>1. /\ hw \in [Units -> UnitState] /\ hw' \in [Units -> UnitState]
      /\ \A u \in Units : HardwareMakes(u, hw[u], hw'[u])
  BY HardwareFacts DEF HwInv
<1>2. \A a, len \in Nat : Done(n, a, len) \in 0 .. len
  BY DEF Done
<1>3. TmcOn(hw'["etf0"], Done(n, 0, 6), "circular")
  <2>1. TmcOn(hw["etf0"], Done(n, 0, 6), "circular")
    BY DEF JunoContinue
  <2>2. /\ "etf0" \in Units /\ hw["etf0"] \in UnitState /\ "etf0" \in Tmcs
        /\ hw'["etf0"] \in UnitState
        /\ HardwareMakes("etf0", hw["etf0"], hw'["etf0"])
    BY <1>1, JunoUnits
  <2> QED
    BY <1>2, <2>1, <2>2, TmcOnHardware
<1>4. FunnelOn(hw'["main_funnel"], Done(n, 6, 3))
  <2>1. FunnelOn(hw["main_funnel"], Done(n, 6, 3))
    BY DEF JunoContinue
  <2>2. /\ "main_funnel" \in Units /\ hw["main_funnel"] \in UnitState
        /\ hw'["main_funnel"] \in UnitState
        /\ HardwareMakes("main_funnel", hw["main_funnel"], hw'["main_funnel"])
    BY <1>1, JunoUnits
  <2> QED
    BY <1>2, <2>1, <2>2, FunnelOnHardware
<1>5. FunnelOn(hw'["cluster0_funnel"], Done(n, 9, 3))
  <2>1. FunnelOn(hw["cluster0_funnel"], Done(n, 9, 3))
    BY DEF JunoContinue
  <2>2. /\ "cluster0_funnel" \in Units /\ hw["cluster0_funnel"] \in UnitState
        /\ hw'["cluster0_funnel"] \in UnitState
        /\ HardwareMakes("cluster0_funnel", hw["cluster0_funnel"],
                         hw'["cluster0_funnel"])
    BY <1>1, JunoUnits
  <2> QED
    BY <1>2, <2>1, <2>2, FunnelOnHardware
<1>6. EtmContinue(hw'["etm"], Done(n, 12, 5))
  <2>1. EtmContinue(hw["etm"], Done(n, 12, 5))
    BY DEF JunoContinue
  <2>2. /\ "etm" \in Units /\ hw["etm"] \in UnitState /\ "etm" \notin Tmcs
        /\ hw'["etm"] \in UnitState
        /\ HardwareMakes("etm", hw["etm"], hw'["etm"])
    BY <1>1, JunoUnits
  <2> QED
    BY <1>2, <2>1, <2>2, EtmContinueHardware
<1>7. hw'["pmu"].on
  BY <1>1, JunoUnits DEF JunoContinue, HardwareMakes
<1> QED
  BY <1>3, <1>4, <1>5, <1>6, <1>7 DEF JunoContinue

LEMMA HikeyInitHardware ==
  ASSUME platform # "JUNOR2", HwInv, Hardware, NEW n \in 0 .. 31, HikeyInit(n)
  PROVE  HikeyInit(n)'
<1>1. /\ hw \in [Units -> UnitState] /\ hw' \in [Units -> UnitState]
      /\ \A u \in Units : HardwareMakes(u, hw[u], hw'[u])
  BY HardwareFacts DEF HwInv
<1>2. \A a, len \in Nat : Done(n, a, len) \in 0 .. len
  BY DEF Done
<1>3. TmcOn(hw'["etr0"], Done(n, 0, 6), "circular")
  <2>1. TmcOn(hw["etr0"], Done(n, 0, 6), "circular")
    BY DEF HikeyInit
  <2>2. /\ "etr0" \in Units /\ hw["etr0"] \in UnitState /\ "etr0" \in Tmcs
        /\ hw'["etr0"] \in UnitState
        /\ HardwareMakes("etr0", hw["etr0"], hw'["etr0"])
    BY <1>1, HikeyUnits
  <2> QED
    BY <1>2, <2>1, <2>2, TmcOnHardware
<1>4. TmcOn(hw'["etb2"], Done(n, 6, 6), "fifo")
  <2>1. TmcOn(hw["etb2"], Done(n, 6, 6), "fifo")
    BY DEF HikeyInit
  <2>2. /\ "etb2" \in Units /\ hw["etb2"] \in UnitState /\ "etb2" \in Tmcs
        /\ hw'["etb2"] \in UnitState
        /\ HardwareMakes("etb2", hw["etb2"], hw'["etb2"])
    BY <1>1, HikeyUnits
  <2> QED
    BY <1>2, <2>1, <2>2, TmcOnHardware
<1>5. FunnelOn(hw'["funnel2"], Done(n, 12, 3))
  <2>1. FunnelOn(hw["funnel2"], Done(n, 12, 3))
    BY DEF HikeyInit
  <2>2. /\ "funnel2" \in Units /\ hw["funnel2"] \in UnitState
        /\ hw'["funnel2"] \in UnitState
        /\ HardwareMakes("funnel2", hw["funnel2"], hw'["funnel2"])
    BY <1>1, HikeyUnits
  <2> QED
    BY <1>2, <2>1, <2>2, FunnelOnHardware
<1>6. TmcOn(hw'["etb1"], Done(n, 15, 6), "fifo")
  <2>1. TmcOn(hw["etb1"], Done(n, 15, 6), "fifo")
    BY DEF HikeyInit
  <2>2. /\ "etb1" \in Units /\ hw["etb1"] \in UnitState /\ "etb1" \in Tmcs
        /\ hw'["etb1"] \in UnitState
        /\ HardwareMakes("etb1", hw["etb1"], hw'["etb1"])
    BY <1>1, HikeyUnits
  <2> QED
    BY <1>2, <2>1, <2>2, TmcOnHardware
<1>7. FunnelOn(hw'["funnel1"], Done(n, 21, 3))
  <2>1. FunnelOn(hw["funnel1"], Done(n, 21, 3))
    BY DEF HikeyInit
  <2>2. /\ "funnel1" \in Units /\ hw["funnel1"] \in UnitState
        /\ hw'["funnel1"] \in UnitState
        /\ HardwareMakes("funnel1", hw["funnel1"], hw'["funnel1"])
    BY <1>1, HikeyUnits
  <2> QED
    BY <1>2, <2>1, <2>2, FunnelOnHardware
<1>8. EtmOn(hw'["etm"], Done(n, 24, 7))
  <2>1. EtmOn(hw["etm"], Done(n, 24, 7))
    BY DEF HikeyInit
  <2>2. /\ "etm" \in Units /\ hw["etm"] \in UnitState /\ "etm" \notin Tmcs
        /\ hw'["etm"] \in UnitState
        /\ HardwareMakes("etm", hw["etm"], hw'["etm"])
    BY <1>1, HikeyUnits
  <2> QED
    BY <1>2, <2>1, <2>2, EtmOnHardware
<1> QED
  BY <1>3, <1>4, <1>5, <1>6, <1>7, <1>8 DEF HikeyInit

LEMMA HikeyStopHardware ==
  ASSUME platform # "JUNOR2", HwInv, Hardware, NEW n \in 0 .. 29, HikeyStop(n)
  PROVE  HikeyStop(n)'
<1>1. /\ hw \in [Units -> UnitState] /\ hw' \in [Units -> UnitState]
      /\ \A u \in Units : HardwareMakes(u, hw[u], hw'[u])
  BY HardwareFacts DEF HwInv
<1>2. \A a, len \in Nat : Done(n, a, len) \in 0 .. len
  BY DEF Done
<1>3. EtmOff(hw'["etm"], Done(n, 0, 5))
  <2>1. EtmOff(hw["etm"], Done(n, 0, 5))
    BY DEF HikeyStop
  <2>2. /\ "etm" \in Units /\ hw["etm"] \in UnitState
        /\ hw'["etm"] \in UnitState
        /\ HardwareMakes("etm", hw["etm"], hw'["etm"])
    BY <1>1, HikeyUnits
  <2> QED
    BY <1>2, <2>1, <2>2, EtmOffHardware
<1>4. n < 29 => FunnelOff(hw'["funnel1"], Done(n, 5, 1))
  <2>1. n < 29 => FunnelOff(hw["funnel1"], Done(n, 5, 1))
    BY DEF HikeyStop
  <2>2. /\ "funnel1" \in Units /\ hw["funnel1"] \in UnitState
        /\ hw'["funnel1"] \in UnitState
        /\ HardwareMakes("funnel1", hw["funnel1"], hw'["funnel1"])
    BY <1>1, HikeyUnits
  <2> QED
    BY <1>2, <2>1, <2>2, FunnelOffHardware
<1>5. LinkOff(hw'["etb1"], Done(n, 6, 7))
  <2>1. LinkOff(hw["etb1"], Done(n, 6, 7))
    BY DEF HikeyStop
  <2>2. /\ "etb1" \in Units /\ hw["etb1"] \in UnitState
        /\ "etb1" \in Tmcs /\ "etb1" # Sink
        /\ hw'["etb1"] \in UnitState
        /\ HardwareMakes("etb1", hw["etb1"], hw'["etb1"])
    BY <1>1, HikeyUnits
  <2> QED
    BY <1>2, <2>1, <2>2, LinkOffHardware
<1>6. n < 29 => FunnelOff(hw'["funnel2"], Done(n, 13, 1))
  <2>1. n < 29 => FunnelOff(hw["funnel2"], Done(n, 13, 1))
    BY DEF HikeyStop
  <2>2. /\ "funnel2" \in Units /\ hw["funnel2"] \in UnitState
        /\ hw'["funnel2"] \in UnitState
        /\ HardwareMakes("funnel2", hw["funnel2"], hw'["funnel2"])
    BY <1>1, HikeyUnits
  <2> QED
    BY <1>2, <2>1, <2>2, FunnelOffHardware
<1>7. LinkOff(hw'["etb2"], Done(n, 14, 7))
  <2>1. LinkOff(hw["etb2"], Done(n, 14, 7))
    BY DEF HikeyStop
  <2>2. /\ "etb2" \in Units /\ hw["etb2"] \in UnitState
        /\ "etb2" \in Tmcs /\ "etb2" # Sink
        /\ hw'["etb2"] \in UnitState
        /\ HardwareMakes("etb2", hw["etb2"], hw'["etb2"])
    BY <1>1, HikeyUnits
  <2> QED
    BY <1>2, <2>1, <2>2, LinkOffHardware
<1>8. SinkOff(hw'["etr0"], Done(n, 21, 8))
  <2>1. SinkOff(hw["etr0"], Done(n, 21, 8))
    BY DEF HikeyStop
  <2>2. /\ "etr0" \in Units /\ hw["etr0"] \in UnitState /\ "etr0" \in Tmcs
        /\ hw'["etr0"] \in UnitState
        /\ HardwareMakes("etr0", hw["etr0"], hw'["etr0"])
    BY <1>1, HikeyUnits
  <2> QED
    BY <1>2, <2>1, <2>2, SinkOffHardware
<1>9. hw'["funnel1"].locked /\ hw'["funnel2"].locked
  BY <1>1, HikeyUnits DEF HikeyStop, HardwareMakes
<1>10. ASSUME LockGates, Flushed(hw'["etb1"], Done(n, 6, 7))
      PROVE  hw'["etm"].held = 0
  <2>1. CASE Flushed(hw["etb1"], Done(n, 6, 7))
    <3>1. hw["etm"].held = 0
      BY <1>10, <2>1 DEF HikeyStop
    <3>2. Done(n, 6, 7) >= 3
      <4>1. Done(n, 6, 7) \in Nat
        BY DEF Done
      <4> QED
        BY <2>1, <4>1 DEF Flushed
    <3>3. Done(n, 0, 5) = 5
      BY <3>2 DEF Done
    <3>4. ~hw["etm"].on
      BY <3>3 DEF HikeyStop, EtmOff
    <3>5. HardwareMakes("etm", hw["etm"], hw'["etm"]) /\ "etm" \notin Tmcs
      BY <1>1, HikeyUnits
    <3> QED
      BY <3>1, <3>4, <3>5 DEF HardwareMakes
  <2>2. CASE ~Flushed(hw["etb1"], Done(n, 6, 7))
    <3>1. /\ Done(n, 6, 7) = 3 /\ hw["etb1"].tmc = "flushing"
          /\ hw'["etb1"].tmc # "flushing"
      BY <1>2, <1>10, <2>2 DEF Flushed
    <3>2. n < 29
      BY <3>1 DEF Done
    <3>3. hw["funnel1"].on /\ hw["funnel2"].on
      BY <1>10, <3>2 DEF HikeyStop, FunnelOff
    <3>4. Connected(1, 3)
      BY <3>3, HikeyUnits DEF Connected, Passes
    <3>5. PICK j \in DOMAIN Chain : j = 3 /\ Chain[j] = "etb1"
      BY HikeyUnits
    <3>6. PICK i \in 1 .. j - 1 : i = 1 /\ Chain[i] = "etm"
      BY <3>5, HikeyUnits
    <3>7. Chain[i] \in Stores /\ Connected(i, j)
      BY <3>4, <3>5, <3>6, HikeyUnits
    <3> HIDE DEF Hardware
    <3>8. hw'[Chain[i]].held = 0
      BY <3>1, <3>5, <3>7, FlushEnds
    <3> QED
      BY <3>6, <3>8
  <2> QED
    BY <2>1, <2>2
<1> QED
  BY <1>3, <1>4, <1>5, <1>6, <1>7, <1>8, <1>9, <1>10 DEF HikeyStop

-----------------------------------------------------------------------------
(* The calls, end to end. *)

(* Nothing is left of a call just when all its accesses are made. *)
LEMMA RestEnds ==
  ASSUME NEW p \in Seq(Access), NEW n \in 0 .. Len(p)
  PROVE  /\ Rest(p, n) = << >> <=> n = Len(p)
         /\ DOMAIN Rest(p, n) = 1 .. Len(p) - n
         /\ \A i \in 1 .. Len(p) - n : Rest(p, n)[i] = p[n + i]
<1> DEFINE l == Len(p)
           m == l - n
           r == Rest(p, n)
<1>1. l \in Nat /\ n \in Nat /\ m \in Nat /\ (m = 0 <=> n = l)
  OBVIOUS
<1>2. r = [i \in 1 .. m |-> p[n + i]]
  BY DEF Rest
<1>3. \A i \in 1 .. m : p[n + i] \in Access
  OBVIOUS
<1> HIDE DEF m, r
<1>4. r \in Seq(Access) /\ Len(r) = m
  BY <1>1, <1>2, <1>3
<1>5. r = << >> <=> m = 0
  BY <1>4, EmptySeq
<1> QED
  BY <1>1, <1>2, <1>5 DEF m, r

(* Before its first access, all of a call is left. *)
LEMMA RestAll ==
  ASSUME NEW p \in Seq(Access)
  PROVE  Rest(p, 0) = p
<1>1. Len(p) \in Nat /\ \A i \in 1 .. Len(p) : p[0 + i] = p[i]
  OBVIOUS
<1>2. Rest(p, 0) = [i \in 1 .. Len(p) |-> p[i]]
  BY <1>1 DEF Rest
<1> QED
  BY <1>2

(* The processor makes the next access of the running call. *)
LEMMA DriverMakes ==
  ASSUME HwInv, Driver, Head(todo) \in Access, Head(todo).unit \in Units
  PROVE  /\ todo # << >> /\ todo' = Tail(todo)
         /\ UNCHANGED <<platform, loaded>>
         /\ hw' \in [Units -> UnitState]
         /\ Makes(Head(todo).unit, Head(todo).op, hw[Head(todo).unit],
                  hw'[Head(todo).unit])
         /\ \A w \in Units \ {Head(todo).unit} : hw'[w] = hw[w]
<1>1. todo # << >> /\ todo' = Tail(todo) /\ UNCHANGED <<platform, loaded>>
  BY DEF Driver, WaitReady, WaitFlush, Dump, Write, Idle
<1> DEFINE u == Head(todo).unit
           op == Head(todo).op
<1>2. u \in Units /\ op \in Ops /\ u = Head(todo).unit /\ op = Head(todo).op
  BY DEF Access
<1> HIDE DEF u, op
<1>3. hw \in [Units -> UnitState] /\ hw[u] \in UnitState
  BY <1>2 DEF HwInv
<1> DEFINE Moved == /\ hw' \in [Units -> UnitState]
                    /\ Makes(u, op, hw[u], hw'[u])
                    /\ \A w \in Units \ {u} : hw'[w] = hw[w]
<1>4. ASSUME WaitReady PROVE Moved
  BY <1>2, <1>3, <1>4 DEF WaitReady, Makes
<1>5. ASSUME WaitFlush PROVE Moved
  BY <1>2, <1>3, <1>5 DEF WaitFlush, Makes
<1>6. ASSUME NEW t, hw' = [hw EXCEPT ![u] = t], Makes(u, op, hw[u], t)
      PROVE  Moved
  <2>1. t \in UnitState
    BY <1>2, <1>3, <1>6, AccessFacts, ChainFacts
  <2>2. hw'[u] = t /\ \A w \in Units \ {u} : hw'[w] = hw[w]
    BY <1>2, <1>3, <1>6
  <2> QED
    BY <1>3, <1>6, <2>1, <2>2
<1>7. ASSUME Dump PROVE Moved
  <2> DEFINE t == [hw[u] EXCEPT !.held = 0]
  <2>1. hw' = [hw EXCEPT ![u] = t] /\ op = "dump"
    BY <1>2, <1>7 DEF Dump
  <2>2. Makes(u, op, hw[u], t)
    BY <2>1 DEF Makes
  <2> HIDE DEF t, Moved
  <2> QED
    BY <1>6, <2>1, <2>2
<1>8. ASSUME Write PROVE Moved
  <2> DEFINE t == Effect(u, op, hw[u])
  <2>1. /\ op \notin {"wait_ready", "wait_flush", "dump"}
        /\ hw' = [hw EXCEPT ![u] = t]
    BY <1>2, <1>8 DEF Write
  <2>2. Makes(u, op, hw[u], t)
    BY <2>1 DEF Makes
  <2> HIDE DEF t, Moved
  <2> QED
    BY <1>6, <2>1, <2>2
<1>9. Moved
  BY <1>4, <1>5, <1>7, <1>8 DEF Driver
<1> QED
  BY <1>1, <1>9 DEF u, op

LEMMA DriverStep ==
  ASSUME HwInv, NEW p \in Seq(Access), NEW n \in 0 .. Len(p),
         todo = Rest(p, n), \A i \in 1 .. Len(p) : p[i].unit \in Units, Driver
  PROVE  /\ n + 1 \in 1 .. Len(p) /\ todo' = Rest(p, n + 1)
         /\ UNCHANGED <<platform, loaded>>
         /\ Step(p, n)
<1>1. todo # << >>
  BY DEF Driver, WaitReady, WaitFlush, Dump, Write, Idle
<1>2. /\ n + 1 \in 1 .. Len(p) /\ Head(todo) = p[n + 1]
      /\ Tail(todo) = Rest(p, n + 1)
  BY <1>1, RestNext
<1>3. Head(todo) \in Access /\ Head(todo).unit \in Units
  BY <1>2
<1> HIDE DEF Driver
<1> QED
  BY <1>2, <1>3, DriverMakes DEF Step

(* What the driver and the hardware keep true of all units. *)
LEMMA StepHw ==
  ASSUME HwInv, NEW p \in Seq(Access), NEW n \in 0 .. Len(p) - 1,
         p[n + 1].unit \in Units, Step(p, n), platform' = platform
  PROVE  HwInv'
<1>1. Units' = Units /\ Tmcs' = Tmcs /\ UnitState' = UnitState
  BY DEF Units, Stores, Funnels, Tmcs, Links, Sink, Etm, Chain, UnitState
<1> DEFINE x == p[n + 1]
           u == x.unit
           op == x.op
<1>2. u \in Units /\ op \in Ops /\ hw[u] \in UnitState
  <2>1. x \in Access /\ u \in Units
    OBVIOUS
  <2> HIDE DEF x
  <2>2. op \in Ops
    BY <2>1 DEF Access
  <2> QED
    BY <2>1, <2>2 DEF HwInv
<1>3. /\ hw' \in [Units -> UnitState] /\ Makes(u, op, hw[u], hw'[u])
      /\ \A w \in Units \ {u} : hw'[w] = hw[w]
  BY DEF Step
<1> HIDE DEF u, op
<1>4. Changes(u, op, hw[u], hw'[u])
  BY <1>2, <1>3, AccessFacts, ChainFacts
<1>5. u \notin Tmcs /\ hw[u].tmc = "ready" => hw'[u].tmc = "ready"
  BY <1>4, <1>2 DEF Changes, Ops
<1>6. \A w \in Units \ Tmcs : hw'[w].tmc = "ready"
  BY <1>2, <1>3, <1>5 DEF HwInv
<1> QED
  BY <1>1, <1>3, <1>6 DEF HwInv

LEMMA HardwareHw ==
  ASSUME HwInv, Hardware
  PROVE  HwInv'
<1>1. /\ platform' = platform /\ hw' \in [Units -> UnitState]
      /\ \A u \in Units : HardwareMakes(u, hw[u], hw'[u])
  BY HardwareFacts
<1>2. Units' = Units /\ Tmcs' = Tmcs /\ UnitState' = UnitState
  BY <1>1 DEF Units, Stores, Funnels, Tmcs, Links, Sink, Etm, Chain, UnitState
<1>3. \A u \in Units \ Tmcs : hw'[u].tmc = "ready"
  BY <1>1 DEF HwInv, HardwareMakes
<1> QED
  BY <1>1, <1>2, <1>3 DEF HwInv

(* At most one access of a function configures its unit, at most one reads *)
(* it out, at most one disables it: number c, d and x of ops, or none.     *)
Kinds(ops, c, d, x) ==
  \A k \in 1 .. Len(ops) :
    /\ ops[k] \in Config => k = c
    /\ ops[k] = "dump" => k = d
    /\ ops[k] = "disable" => k = x

LEMMA OpsKinds ==
  /\ Kinds(LinkOffOps, 0, 0, 6)
  /\ Kinds(SinkOffOps, 0, 6, 7)
  /\ Kinds(PortOnOps, 0, 0, 0)
  /\ Kinds(PortOffOps, 0, 0, 1)
  /\ Kinds(EtmOnOps, 4, 0, 3)
  /\ Kinds(EtmOffOps, 0, 0, 3)
  /\ Kinds(EtmContinueOps, 0, 0, 0)
  /\ \A mode \in {"circular", "fifo"} : Kinds(TmcOnOps(mode), 3, 0, 0)
<1>1. Kinds(LinkOffOps, 0, 0, 6)
  BY DEF Kinds, LinkOffOps, Config
<1>2. Kinds(SinkOffOps, 0, 6, 7)
  BY DEF Kinds, SinkOffOps, Config
<1>3. Kinds(PortOnOps, 0, 0, 0)
  BY DEF Kinds, PortOnOps, Config
<1>4. Kinds(PortOffOps, 0, 0, 1)
  BY DEF Kinds, PortOffOps, Config
<1>5. Kinds(EtmOnOps, 4, 0, 3)
  BY DEF Kinds, EtmOnOps, Config
<1>6. Kinds(EtmOffOps, 0, 0, 3)
  BY DEF Kinds, EtmOffOps, Config
<1>7. Kinds(EtmContinueOps, 0, 0, 0)
  BY DEF Kinds, EtmContinueOps, Config
<1>8. \A mode \in {"circular", "fifo"} : Kinds(TmcOnOps(mode), 3, 0, 0)
  BY DEF Kinds, TmcOnOps, Config
<1> QED
  BY <1>1, <1>2, <1>3, <1>4, <1>5, <1>6, <1>7, <1>8

(* The l accesses of p after the first a are to unit u, and of these kinds. *)
KindsAt(p, a, l, u, c, d, x) ==
  \A i \in a + 1 .. a + l :
    /\ p[i].unit = u
    /\ p[i].op \in Config => i = a + c
    /\ p[i].op = "dump" => i = a + d
    /\ p[i].op = "disable" => i = a + x

LEMMA BlockKinds ==
  ASSUME NEW p, NEW a \in Nat, NEW u \in Names, NEW ops \in Seq(Ops),
         Block(p, a, u, ops), NEW c \in Nat, NEW d \in Nat, NEW x \in Nat,
         Kinds(ops, c, d, x)
  PROVE  KindsAt(p, a, Len(ops), u, c, d, x)
<1> SUFFICES ASSUME NEW i \in a + 1 .. a + Len(ops)
             PROVE  /\ p[i].unit = u
                    /\ p[i].op \in Config => i = a + c
                    /\ p[i].op = "dump" => i = a + d
                    /\ p[i].op = "disable" => i = a + x
  BY DEF KindsAt
<1> DEFINE k == i - a
<1>1. p[i] = [unit |-> u, op |-> ops[k]]
  BY DEF Block
<1>2. p[i].unit = u /\ p[i].op = ops[k]
  BY <1>1
<1>3. k \in 1 .. Len(ops) /\ i = a + k
  OBVIOUS
<1> HIDE DEF k
<1>4. /\ ops[k] \in Config => k = c
      /\ ops[k] = "dump" => k = d
      /\ ops[k] = "disable" => k = x
  BY <1>3 DEF Kinds
<1> QED
  BY <1>2, <1>3, <1>4

(* The calls, access by access: whose they are, and where a unit is        *)
(* configured, read out or disabled.                                       *)
LEMMA JunoInitAccesses ==
  ASSUME NEW p, JunoInitBlocks(p, 0)
  PROVE  \A i \in 1 .. 22 :
           /\ p[i].unit \in {"etf0", "main_funnel", "cluster0_funnel", "pmu",
                             "etm"}
           /\ p[i].op \in Config =>
             \/ i = 3 /\ p[i].unit = "etf0"
             \/ i = 19 /\ p[i].unit = "etm"
           /\ p[i].op = "dump" =>
             FALSE
           /\ p[i].op = "disable" =>
             \/ i = 18 /\ p[i].unit = "etm"
<1>1. \A i \in 1 .. 6 :
        /\ p[i].unit = "etf0"
        /\ p[i].op \in Config => i = 3
        /\ p[i].op = "dump" => FALSE
        /\ p[i].op = "disable" => FALSE
  <2> DEFINE a == 0
             o == TmcOnOps("circular")
             c == 3
             d == 0
             x == 0
  <2>1. Block(p, a, "etf0", o)
    BY DEF JunoInitBlocks
  <2>2. o \in Seq(Ops) /\ Len(o) = 6 /\ Kinds(o, c, d, x)
    BY OpsTypes, OpsKinds
  <2>3. /\ a \in Nat /\ a + 1 = 1 /\ a + 6 = 6
        /\ a + c = 3 /\ a + d = 0 /\ a + x = 0
    OBVIOUS
  <2>4. "etf0" \in Names /\ a \in Nat /\ c \in Nat /\ d \in Nat /\ x \in Nat
    BY DEF Names
  <2> HIDE DEF a, o, c, d, x
  <2>5. KindsAt(p, a, Len(o), "etf0", c, d, x)
    BY <2>1, <2>2, <2>4, BlockKinds
  <2> QED
    BY <2>2, <2>3, <2>5 DEF KindsAt
<1>2. \A i \in 7 .. 9 :
        /\ p[i].unit = "main_funnel"
        /\ p[i].op \in Config => FALSE
        /\ p[i].op = "dump" => FALSE
        /\ p[i].op = "disable" => FALSE
  <2> DEFINE a == 6
             o == PortOnOps
             c == 0
             d == 0
             x == 0
  <2>1. Block(p, a, "main_funnel", o)
    BY DEF JunoInitBlocks
  <2>2. o \in Seq(Ops) /\ Len(o) = 3 /\ Kinds(o, c, d, x)
    BY OpsTypes, OpsKinds
  <2>3. /\ a \in Nat /\ a + 1 = 7 /\ a + 3 = 9
        /\ a + c = 6 /\ a + d = 6 /\ a + x = 6
    OBVIOUS
  <2>4. "main_funnel" \in Names /\ a \in Nat /\ c \in Nat
  /\ d \in Nat /\ x \in Nat
    BY DEF Names
  <2> HIDE DEF a, o, c, d, x
  <2>5. KindsAt(p, a, Len(o), "main_funnel", c, d, x)
    BY <2>1, <2>2, <2>4, BlockKinds
  <2> QED
    BY <2>2, <2>3, <2>5 DEF KindsAt
<1>3. \A i \in 10 .. 12 :
        /\ p[i].unit = "cluster0_funnel"
        /\ p[i].op \in Config => FALSE
        /\ p[i].op = "dump" => FALSE
        /\ p[i].op = "disable" => FALSE
  <2> DEFINE a == 9
             o == PortOnOps
             c == 0
             d == 0
             x == 0
  <2>1. Block(p, a, "cluster0_funnel", o)
    BY DEF JunoInitBlocks
  <2>2. o \in Seq(Ops) /\ Len(o) = 3 /\ Kinds(o, c, d, x)
    BY OpsTypes, OpsKinds
  <2>3. /\ a \in Nat /\ a + 1 = 10 /\ a + 3 = 12
        /\ a + c = 9 /\ a + d = 9 /\ a + x = 9
    OBVIOUS
  <2>4. "cluster0_funnel" \in Names /\ a \in Nat /\ c \in Nat
  /\ d \in Nat /\ x \in Nat
    BY DEF Names
  <2> HIDE DEF a, o, c, d, x
  <2>5. KindsAt(p, a, Len(o), "cluster0_funnel", c, d, x)
    BY <2>1, <2>2, <2>4, BlockKinds
  <2> QED
    BY <2>2, <2>3, <2>5 DEF KindsAt
<1>4. \A i \in 13 .. 15 :
        /\ p[i].unit = "pmu"
        /\ p[i].op \in Config => FALSE
        /\ p[i].op = "dump" => FALSE
        /\ p[i].op = "disable" => FALSE
  <2> DEFINE a == 12
             o == PortOnOps
             c == 0
             d == 0
             x == 0
  <2>1. Block(p, a, "pmu", o)
    BY DEF JunoInitBlocks
  <2>2. o \in Seq(Ops) /\ Len(o) = 3 /\ Kinds(o, c, d, x)
    BY OpsTypes, OpsKinds
  <2>3. /\ a \in Nat /\ a + 1 = 13 /\ a + 3 = 15
        /\ a + c = 12 /\ a + d = 12 /\ a + x = 12
    OBVIOUS
  <2>4. "pmu" \in Names /\ a \in Nat /\ c \in Nat /\ d \in Nat /\ x \in Nat
    BY DEF Names
  <2> HIDE DEF a, o, c, d, x
  <2>5. KindsAt(p, a, Len(o), "pmu", c, d, x)
    BY <2>1, <2>2, <2>4, BlockKinds
  <2> QED
    BY <2>2, <2>3, <2>5 DEF KindsAt
<1>5. \A i \in 16 .. 22 :
        /\ p[i].unit = "etm"
        /\ p[i].op \in Config => i = 19
        /\ p[i].op = "dump" => FALSE
        /\ p[i].op = "disable" => i = 18
  <2> DEFINE a == 15
             o == EtmOnOps
             c == 4
             d == 0
             x == 3
  <2>1. Block(p, a, "etm", o)
    BY DEF JunoInitBlocks
  <2>2. o \in Seq(Ops) /\ Len(o) = 7 /\ Kinds(o, c, d, x)
    BY OpsTypes, OpsKinds
  <2>3. /\ a \in Nat /\ a + 1 = 16 /\ a + 7 = 22
        /\ a + c = 19 /\ a + d = 15 /\ a + x = 18
    OBVIOUS
  <2>4. "etm" \in Names /\ a \in Nat /\ c \in Nat /\ d \in Nat /\ x \in Nat
    BY DEF Names
  <2> HIDE DEF a, o, c, d, x
  <2>5. KindsAt(p, a, Len(o), "etm", c, d, x)
    BY <2>1, <2>2, <2>4, BlockKinds
  <2> QED
    BY <2>2, <2>3, <2>5 DEF KindsAt
<1> QED
  BY <1>1, <1>2, <1>3, <1>4, <1>5

LEMMA JunoStopAccesses ==
  ASSUME NEW p, JunoStopBlocks(p, 0)
  PROVE  \A i \in 1 .. 15 :
           /\ p[i].unit \in {"etm", "cluster0_funnel", "main_funnel", "etf0"}
           /\ p[i].op \in Config =>
             FALSE
           /\ p[i].op = "dump" =>
             \/ i = 13 /\ p[i].unit = "etf0"
           /\ p[i].op = "disable" =>
             \/ i = 3 /\ p[i].unit = "etm"
             \/ i = 6 /\ p[i].unit = "cluster0_funnel"
             \/ i = 7 /\ p[i].unit = "main_funnel"
             \/ i = 14 /\ p[i].unit = "etf0"
<1>1. \A i \in 1 .. 5 :
        /\ p[i].unit = "etm"
        /\ p[i].op \in Config => FALSE
        /\ p[i].op = "dump" => FALSE
        /\ p[i].op = "disable" => i = 3
  <2> DEFINE a == 0
             o == EtmOffOps
             c == 0
             d == 0
             x == 3
  <2>1. Block(p, a, "etm", o)
    BY DEF JunoStopBlocks
  <2>2. o \in Seq(Ops) /\ Len(o) = 5 /\ Kinds(o, c, d, x)
    BY OpsTypes, OpsKinds
  <2>3. /\ a \in Nat /\ a + 1 = 1 /\ a + 5 = 5
        /\ a + c = 0 /\ a + d = 0 /\ a + x = 3
    OBVIOUS
  <2>4. "etm" \in Names /\ a \in Nat /\ c \in Nat /\ d \in Nat /\ x \in Nat
    BY DEF Names
  <2> HIDE DEF a, o, c, d, x
  <2>5. KindsAt(p, a, Len(o), "etm", c, d, x)
    BY <2>1, <2>2, <2>4, BlockKinds
  <2> QED
    BY <2>2, <2>3, <2>5 DEF KindsAt
<1>2. \A i \in 6 .. 6 :
        /\ p[i].unit = "cluster0_funnel"
        /\ p[i].op \in Config => FALSE
        /\ p[i].op = "dump" => FALSE
        /\ p[i].op = "disable" => i = 6
  <2> DEFINE a == 5
             o == PortOffOps
             c == 0
             d == 0
             x == 1
  <2>1. Block(p, a, "cluster0_funnel", o)
    BY DEF JunoStopBlocks
  <2>2. o \in Seq(Ops) /\ Len(o) = 1 /\ Kinds(o, c, d, x)
    BY OpsTypes, OpsKinds
  <2>3. /\ a \in Nat /\ a + 1 = 6 /\ a + 1 = 6
        /\ a + c = 5 /\ a + d = 5 /\ a + x = 6
    OBVIOUS
  <2>4. "cluster0_funnel" \in Names /\ a \in Nat /\ c \in Nat
  /\ d \in Nat /\ x \in Nat
    BY DEF Names
  <2> HIDE DEF a, o, c, d, x
  <2>5. KindsAt(p, a, Len(o), "cluster0_funnel", c, d, x)
    BY <2>1, <2>2, <2>4, BlockKinds
  <2> QED
    BY <2>2, <2>3, <2>5 DEF KindsAt
<1>3. \A i \in 7 .. 7 :
        /\ p[i].unit = "main_funnel"
        /\ p[i].op \in Config => FALSE
        /\ p[i].op = "dump" => FALSE
        /\ p[i].op = "disable" => i = 7
  <2> DEFINE a == 6
             o == PortOffOps
             c == 0
             d == 0
             x == 1
  <2>1. Block(p, a, "main_funnel", o)
    BY DEF JunoStopBlocks
  <2>2. o \in Seq(Ops) /\ Len(o) = 1 /\ Kinds(o, c, d, x)
    BY OpsTypes, OpsKinds
  <2>3. /\ a \in Nat /\ a + 1 = 7 /\ a + 1 = 7
        /\ a + c = 6 /\ a + d = 6 /\ a + x = 7
    OBVIOUS
  <2>4. "main_funnel" \in Names /\ a \in Nat /\ c \in Nat
  /\ d \in Nat /\ x \in Nat
    BY DEF Names
  <2> HIDE DEF a, o, c, d, x
  <2>5. KindsAt(p, a, Len(o), "main_funnel", c, d, x)
    BY <2>1, <2>2, <2>4, BlockKinds
  <2> QED
    BY <2>2, <2>3, <2>5 DEF KindsAt
<1>4. \A i \in 8 .. 15 :
        /\ p[i].unit = "etf0"
        /\ p[i].op \in Config => FALSE
        /\ p[i].op = "dump" => i = 13
        /\ p[i].op = "disable" => i = 14
  <2> DEFINE a == 7
             o == SinkOffOps
             c == 0
             d == 6
             x == 7
  <2>1. Block(p, a, "etf0", o)
    BY DEF JunoStopBlocks
  <2>2. o \in Seq(Ops) /\ Len(o) = 8 /\ Kinds(o, c, d, x)
    BY OpsTypes, OpsKinds
  <2>3. /\ a \in Nat /\ a + 1 = 8 /\ a + 8 = 15
        /\ a + c = 7 /\ a + d = 13 /\ a + x = 14
    OBVIOUS
  <2>4. "etf0" \in Names /\ a \in Nat /\ c \in Nat /\ d \in Nat /\ x \in Nat
    BY DEF Names
  <2> HIDE DEF a, o, c, d, x
  <2>5. KindsAt(p, a, Len(o), "etf0", c, d, x)
    BY <2>1, <2>2, <2>4, BlockKinds
  <2> QED
    BY <2>2, <2>3, <2>5 DEF KindsAt
<1> QED
  BY <1>1, <1>2, <1>3, <1>4

LEMMA JunoContinueAccesses ==
  ASSUME NEW p, JunoContinueBlocks(p, 15)
  PROVE  \A i \in 16 .. 32 :
           /\ p[i].unit \in {"etf0", "main_funnel", "cluster0_funnel", "etm"}
           /\ p[i].op \in Config =>
             \/ i = 18 /\ p[i].unit = "etf0"
           /\ p[i].op = "dump" =>
             FALSE
           /\ p[i].op = "disable" =>
             FALSE
<1>1. \A i \in 16 .. 21 :
        /\ p[i].unit = "etf0"
        /\ p[i].op \in Config => i = 18
        /\ p[i].op = "dump" => FALSE
        /\ p[i].op = "disable" => FALSE
  <2> DEFINE a == 15
             o == TmcOnOps("circular")
             c == 3
             d == 0
             x == 0
  <2>1. Block(p, a, "etf0", o)
    BY DEF JunoContinueBlocks
  <2>2. o \in Seq(Ops) /\ Len(o) = 6 /\ Kinds(o, c, d, x)
    BY OpsTypes, OpsKinds
  <2>3. /\ a \in Nat /\ a + 1 = 16 /\ a + 6 = 21
        /\ a + c = 18 /\ a + d = 15 /\ a + x = 15
    OBVIOUS
  <2>4. "etf0" \in Names /\ a \in Nat /\ c \in Nat /\ d \in Nat /\ x \in Nat
    BY DEF Names
  <2> HIDE DEF a, o, c, d, x
  <2>5. KindsAt(p, a, Len(o), "etf0", c, d, x)
    BY <2>1, <2>2, <2>4, BlockKinds
  <2> QED
    BY <2>2, <2>3, <2>5 DEF KindsAt
<1>2. \A i \in 22 .. 24 :
        /\ p[i].unit = "main_funnel"
        /\ p[i].op \in Config => FALSE
        /\ p[i].op = "dump" => FALSE
        /\ p[i].op = "disable" => FALSE
  <2> DEFINE a == 21
             o == PortOnOps
             c == 0
             d == 0
             x == 0
  <2>1. Block(p, a, "main_funnel", o)
    BY DEF JunoContinueBlocks
  <2>2. o \in Seq(Ops) /\ Len(o) = 3 /\ Kinds(o, c, d, x)
    BY OpsTypes, OpsKinds
  <2>3. /\ a \in Nat /\ a + 1 = 22 /\ a + 3 = 24
        /\ a + c = 21 /\ a + d = 21 /\ a + x = 21
    OBVIOUS
  <2>4. "main_funnel" \in Names /\ a \in Nat /\ c \in Nat
  /\ d \in Nat /\ x \in Nat
    BY DEF Names
  <2> HIDE DEF a, o, c, d, x
  <2>5. KindsAt(p, a, Len(o), "main_funnel", c, d, x)
    BY <2>1, <2>2, <2>4, BlockKinds
  <2> QED
    BY <2>2, <2>3, <2>5 DEF KindsAt
<1>3. \A i \in 25 .. 27 :
        /\ p[i].unit = "cluster0_funnel"
        /\ p[i].op \in Config => FALSE
        /\ p[i].op = "dump" => FALSE
        /\ p[i].op = "disable" => FALSE
  <2> DEFINE a == 24
             o == PortOnOps
             c == 0
             d == 0
             x == 0
  <2>1. Block(p, a, "cluster0_funnel", o)
    BY DEF JunoContinueBlocks
  <2>2. o \in Seq(Ops) /\ Len(o) = 3 /\ Kinds(o, c, d, x)
    BY OpsTypes, OpsKinds
  <2>3. /\ a \in Nat /\ a + 1 = 25 /\ a + 3 = 27
        /\ a + c = 24 /\ a + d = 24 /\ a + x = 24
    OBVIOUS
  <2>4. "cluster0_funnel" \in Names /\ a \in Nat /\ c \in Nat
  /\ d \in Nat /\ x \in Nat
    BY DEF Names
  <2> HIDE DEF a, o, c, d, x
  <2>5. KindsAt(p, a, Len(o), "cluster0_funnel", c, d, x)
    BY <2>1, <2>2, <2>4, BlockKinds
  <2> QED
    BY <2>2, <2>3, <2>5 DEF KindsAt
<1>4. \A i \in 28 .. 32 :
        /\ p[i].unit = "etm"
        /\ p[i].op \in Config => FALSE
        /\ p[i].op = "dump" => FALSE
        /\ p[i].op = "disable" => FALSE
  <2> DEFINE a == 27
             o == EtmContinueOps
             c == 0
             d == 0
             x == 0
  <2>1. Block(p, a, "etm", o)
    BY DEF JunoContinueBlocks
  <2>2. o \in Seq(Ops) /\ Len(o) = 5 /\ Kinds(o, c, d, x)
    BY OpsTypes, OpsKinds
  <2>3. /\ a \in Nat /\ a + 1 = 28 /\ a + 5 = 32
        /\ a + c = 27 /\ a + d = 27 /\ a + x = 27
    OBVIOUS
  <2>4. "etm" \in Names /\ a \in Nat /\ c \in Nat /\ d \in Nat /\ x \in Nat
    BY DEF Names
  <2> HIDE DEF a, o, c, d, x
  <2>5. KindsAt(p, a, Len(o), "etm", c, d, x)
    BY <2>1, <2>2, <2>4, BlockKinds
  <2> QED
    BY <2>2, <2>3, <2>5 DEF KindsAt
<1> QED
  BY <1>1, <1>2, <1>3, <1>4

LEMMA HikeyInitAccesses ==
  ASSUME NEW p, HikeyInitBlocks(p, 0)
  PROVE  \A i \in 1 .. 31 :
           /\ p[i].unit \in {"etr0", "etb2", "funnel2", "etb1", "funnel1",
                             "etm"}
           /\ p[i].op \in Config =>
             \/ i = 3 /\ p[i].unit = "etr0"
             \/ i = 9 /\ p[i].unit = "etb2"
             \/ i = 18 /\ p[i].unit = "etb1"
             \/ i = 28 /\ p[i].unit = "etm"
           /\ p[i].op = "dump" =>
             FALSE
           /\ p[i].op = "disable" =>
             \/ i = 27 /\ p[i].unit = "etm"
<1>1. \A i \in 1 .. 6 :
        /\ p[i].unit = "etr0"
        /\ p[i].op \in Config => i = 3
        /\ p[i].op = "dump" => FALSE
        /\ p[i].op = "disable" => FALSE
  <2> DEFINE a == 0
             o == TmcOnOps("circular")
             c == 3
             d == 0
             x == 0
  <2>1. Block(p, a, "etr0", o)
    BY DEF HikeyInitBlocks
  <2>2. o \in Seq(Ops) /\ Len(o) = 6 /\ Kinds(o, c, d, x)
    BY OpsTypes, OpsKinds
  <2>3. /\ a \in Nat /\ a + 1 = 1 /\ a + 6 = 6
        /\ a + c = 3 /\ a + d = 0 /\ a + x = 0
    OBVIOUS
  <2>4. "etr0" \in Names /\ a \in Nat /\ c \in Nat /\ d \in Nat /\ x \in Nat
    BY DEF Names
  <2> HIDE DEF a, o, c, d, x
  <2>5. KindsAt(p, a, Len(o), "etr0", c, d, x)
    BY <2>1, <2>2, <2>4, BlockKinds
  <2> QED
    BY <2>2, <2>3, <2>5 DEF KindsAt
<1>2. \A i \in 7 .. 12 :
        /\ p[i].unit = "etb2"
        /\ p[i].op \in Config => i = 9
        /\ p[i].op = "dump" => FALSE
        /\ p[i].op = "disable" => FALSE
  <2> DEFINE a == 6
             o == TmcOnOps("fifo")
             c == 3
             d == 0
             x == 0
  <2>1. Block(p, a, "etb2", o)
    BY DEF HikeyInitBlocks
  <2>2. o \in Seq(Ops) /\ Len(o) = 6 /\ Kinds(o, c, d, x)
    BY OpsTypes, OpsKinds
  <2>3. /\ a \in Nat /\ a + 1 = 7 /\ a + 6 = 12
        /\ a + c = 9 /\ a + d = 6 /\ a + x = 6
    OBVIOUS
  <2>4. "etb2" \in Names /\ a \in Nat /\ c \in Nat /\ d \in Nat /\ x \in Nat
    BY DEF Names
  <2> HIDE DEF a, o, c, d, x
  <2>5. KindsAt(p, a, Len(o), "etb2", c, d, x)
    BY <2>1, <2>2, <2>4, BlockKinds
  <2> QED
    BY <2>2, <2>3, <2>5 DEF KindsAt
<1>3. \A i \in 13 .. 15 :
        /\ p[i].unit = "funnel2"
        /\ p[i].op \in Config => FALSE
        /\ p[i].op = "dump" => FALSE
        /\ p[i].op = "disable" => FALSE
  <2> DEFINE a == 12
             o == PortOnOps
             c == 0
             d == 0
             x == 0
  <2>1. Block(p, a, "funnel2", o)
    BY DEF HikeyInitBlocks
  <2>2. o \in Seq(Ops) /\ Len(o) = 3 /\ Kinds(o, c, d, x)
    BY OpsTypes, OpsKinds
  <2>3. /\ a \in Nat /\ a + 1 = 13 /\ a + 3 = 15
        /\ a + c = 12 /\ a + d = 12 /\ a + x = 12
    OBVIOUS
  <2>4. "funnel2" \in Names /\ a \in Nat /\ c \in Nat /\ d \in Nat /\ x \in Nat
    BY DEF Names
  <2> HIDE DEF a, o, c, d, x
  <2>5. KindsAt(p, a, Len(o), "funnel2", c, d, x)
    BY <2>1, <2>2, <2>4, BlockKinds
  <2> QED
    BY <2>2, <2>3, <2>5 DEF KindsAt
<1>4. \A i \in 16 .. 21 :
        /\ p[i].unit = "etb1"
        /\ p[i].op \in Config => i = 18
        /\ p[i].op = "dump" => FALSE
        /\ p[i].op = "disable" => FALSE
  <2> DEFINE a == 15
             o == TmcOnOps("fifo")
             c == 3
             d == 0
             x == 0
  <2>1. Block(p, a, "etb1", o)
    BY DEF HikeyInitBlocks
  <2>2. o \in Seq(Ops) /\ Len(o) = 6 /\ Kinds(o, c, d, x)
    BY OpsTypes, OpsKinds
  <2>3. /\ a \in Nat /\ a + 1 = 16 /\ a + 6 = 21
        /\ a + c = 18 /\ a + d = 15 /\ a + x = 15
    OBVIOUS
  <2>4. "etb1" \in Names /\ a \in Nat /\ c \in Nat /\ d \in Nat /\ x \in Nat
    BY DEF Names
  <2> HIDE DEF a, o, c, d, x
  <2>5. KindsAt(p, a, Len(o), "etb1", c, d, x)
    BY <2>1, <2>2, <2>4, BlockKinds
  <2> QED
    BY <2>2, <2>3, <2>5 DEF KindsAt
<1>5. \A i \in 22 .. 24 :
        /\ p[i].unit = "funnel1"
        /\ p[i].op \in Config => FALSE
        /\ p[i].op = "dump" => FALSE
        /\ p[i].op = "disable" => FALSE
  <2> DEFINE a == 21
             o == PortOnOps
             c == 0
             d == 0
             x == 0
  <2>1. Block(p, a, "funnel1", o)
    BY DEF HikeyInitBlocks
  <2>2. o \in Seq(Ops) /\ Len(o) = 3 /\ Kinds(o, c, d, x)
    BY OpsTypes, OpsKinds
  <2>3. /\ a \in Nat /\ a + 1 = 22 /\ a + 3 = 24
        /\ a + c = 21 /\ a + d = 21 /\ a + x = 21
    OBVIOUS
  <2>4. "funnel1" \in Names /\ a \in Nat /\ c \in Nat /\ d \in Nat /\ x \in Nat
    BY DEF Names
  <2> HIDE DEF a, o, c, d, x
  <2>5. KindsAt(p, a, Len(o), "funnel1", c, d, x)
    BY <2>1, <2>2, <2>4, BlockKinds
  <2> QED
    BY <2>2, <2>3, <2>5 DEF KindsAt
<1>6. \A i \in 25 .. 31 :
        /\ p[i].unit = "etm"
        /\ p[i].op \in Config => i = 28
        /\ p[i].op = "dump" => FALSE
        /\ p[i].op = "disable" => i = 27
  <2> DEFINE a == 24
             o == EtmOnOps
             c == 4
             d == 0
             x == 3
  <2>1. Block(p, a, "etm", o)
    BY DEF HikeyInitBlocks
  <2>2. o \in Seq(Ops) /\ Len(o) = 7 /\ Kinds(o, c, d, x)
    BY OpsTypes, OpsKinds
  <2>3. /\ a \in Nat /\ a + 1 = 25 /\ a + 7 = 31
        /\ a + c = 28 /\ a + d = 24 /\ a + x = 27
    OBVIOUS
  <2>4. "etm" \in Names /\ a \in Nat /\ c \in Nat /\ d \in Nat /\ x \in Nat
    BY DEF Names
  <2> HIDE DEF a, o, c, d, x
  <2>5. KindsAt(p, a, Len(o), "etm", c, d, x)
    BY <2>1, <2>2, <2>4, BlockKinds
  <2> QED
    BY <2>2, <2>3, <2>5 DEF KindsAt
<1> QED
  BY <1>1, <1>2, <1>3, <1>4, <1>5, <1>6

LEMMA HikeyStopAccesses ==
  ASSUME NEW p, HikeyStopBlocks(p, 0)
  PROVE  \A i \in 1 .. 29 :
           /\ p[i].unit \in {"etm", "funnel1", "etb1", "funnel2", "etb2",
                             "etr0"}
           /\ p[i].op \in Config =>
             FALSE
           /\ p[i].op = "dump" =>
             \/ i = 27 /\ p[i].unit = "etr0"
           /\ p[i].op = "disable" =>
             \/ i = 3 /\ p[i].unit = "etm"
             \/ i = 6 /\ p[i].unit = "funnel1"
             \/ i = 12 /\ p[i].unit = "etb1"
             \/ i = 14 /\ p[i].unit = "funnel2"
             \/ i = 20 /\ p[i].unit = "etb2"
             \/ i = 28 /\ p[i].unit = "etr0"
<1>1. \A i \in 1 .. 5 :
        /\ p[i].unit = "etm"
        /\ p[i].op \in Config => FALSE
        /\ p[i].op = "dump" => FALSE
        /\ p[i].op = "disable" => i = 3
  <2> DEFINE a == 0
             o == EtmOffOps
             c == 0
             d == 0
             x == 3
  <2>1. Block(p, a, "etm", o)
    BY DEF HikeyStopBlocks
  <2>2. o \in Seq(Ops) /\ Len(o) = 5 /\ Kinds(o, c, d, x)
    BY OpsTypes, OpsKinds
  <2>3. /\ a \in Nat /\ a + 1 = 1 /\ a + 5 = 5
        /\ a + c = 0 /\ a + d = 0 /\ a + x = 3
    OBVIOUS
  <2>4. "etm" \in Names /\ a \in Nat /\ c \in Nat /\ d \in Nat /\ x \in Nat
    BY DEF Names
  <2> HIDE DEF a, o, c, d, x
  <2>5. KindsAt(p, a, Len(o), "etm", c, d, x)
    BY <2>1, <2>2, <2>4, BlockKinds
  <2> QED
    BY <2>2, <2>3, <2>5 DEF KindsAt
<1>2. \A i \in 6 .. 6 :
        /\ p[i].unit = "funnel1"
        /\ p[i].op \in Config => FALSE
        /\ p[i].op = "dump" => FALSE
        /\ p[i].op = "disable" => i = 6
  <2> DEFINE a == 5
             o == PortOffOps
             c == 0
             d == 0
             x == 1
  <2>1. Block(p, a, "funnel1", o)
    BY DEF HikeyStopBlocks
  <2>2. o \in Seq(Ops) /\ Len(o) = 1 /\ Kinds(o, c, d, x)
    BY OpsTypes, OpsKinds
  <2>3. /\ a \in Nat /\ a + 1 = 6 /\ a + 1 = 6
        /\ a + c = 5 /\ a + d = 5 /\ a + x = 6
    OBVIOUS
  <2>4. "funnel1" \in Names /\ a \in Nat /\ c \in Nat /\ d \in Nat /\ x \in Nat
    BY DEF Names
  <2> HIDE DEF a, o, c, d, x
  <2>5. KindsAt(p, a, Len(o), "funnel1", c, d, x)
    BY <2>1, <2>2, <2>4, BlockKinds
  <2> QED
    BY <2>2, <2>3, <2>5 DEF KindsAt
<1>3. \A i \in 7 .. 13 :
        /\ p[i].unit = "etb1"
        /\ p[i].op \in Config => FALSE
        /\ p[i].op = "dump" => FALSE
        /\ p[i].op = "disable" => i = 12
  <2> DEFINE a == 6
             o == LinkOffOps
             c == 0
             d == 0
             x == 6
  <2>1. Block(p, a, "etb1", o)
    BY DEF HikeyStopBlocks
  <2>2. o \in Seq(Ops) /\ Len(o) = 7 /\ Kinds(o, c, d, x)
    BY OpsTypes, OpsKinds
  <2>3. /\ a \in Nat /\ a + 1 = 7 /\ a + 7 = 13
        /\ a + c = 6 /\ a + d = 6 /\ a + x = 12
    OBVIOUS
  <2>4. "etb1" \in Names /\ a \in Nat /\ c \in Nat /\ d \in Nat /\ x \in Nat
    BY DEF Names
  <2> HIDE DEF a, o, c, d, x
  <2>5. KindsAt(p, a, Len(o), "etb1", c, d, x)
    BY <2>1, <2>2, <2>4, BlockKinds
  <2> QED
    BY <2>2, <2>3, <2>5 DEF KindsAt
<1>4. \A i \in 14 .. 14 :
        /\ p[i].unit = "funnel2"
        /\ p[i].op \in Config => FALSE
        /\ p[i].op = "dump" => FALSE
        /\ p[i].op = "disable" => i = 14
  <2> DEFINE a == 13
             o == PortOffOps
             c == 0
             d == 0
             x == 1
  <2>1. Block(p, a, "funnel2", o)
    BY DEF HikeyStopBlocks
  <2>2. o \in Seq(Ops) /\ Len(o) = 1 /\ Kinds(o, c, d, x)
    BY OpsTypes, OpsKinds
  <2>3. /\ a \in Nat /\ a + 1 = 14 /\ a + 1 = 14
        /\ a + c = 13 /\ a + d = 13 /\ a + x = 14
    OBVIOUS
  <2>4. "funnel2" \in Names /\ a \in Nat /\ c \in Nat /\ d \in Nat /\ x \in Nat
    BY DEF Names
  <2> HIDE DEF a, o, c, d, x
  <2>5. KindsAt(p, a, Len(o), "funnel2", c, d, x)
    BY <2>1, <2>2, <2>4, BlockKinds
  <2> QED
    BY <2>2, <2>3, <2>5 DEF KindsAt
<1>5. \A i \in 15 .. 21 :
        /\ p[i].unit = "etb2"
        /\ p[i].op \in Config => FALSE
        /\ p[i].op = "dump" => FALSE
        /\ p[i].op = "disable" => i = 20
  <2> DEFINE a == 14
             o == LinkOffOps
             c == 0
             d == 0
             x == 6
  <2>1. Block(p, a, "etb2", o)
    BY DEF HikeyStopBlocks
  <2>2. o \in Seq(Ops) /\ Len(o) = 7 /\ Kinds(o, c, d, x)
    BY OpsTypes, OpsKinds
  <2>3. /\ a \in Nat /\ a + 1 = 15 /\ a + 7 = 21
        /\ a + c = 14 /\ a + d = 14 /\ a + x = 20
    OBVIOUS
  <2>4. "etb2" \in Names /\ a \in Nat /\ c \in Nat /\ d \in Nat /\ x \in Nat
    BY DEF Names
  <2> HIDE DEF a, o, c, d, x
  <2>5. KindsAt(p, a, Len(o), "etb2", c, d, x)
    BY <2>1, <2>2, <2>4, BlockKinds
  <2> QED
    BY <2>2, <2>3, <2>5 DEF KindsAt
<1>6. \A i \in 22 .. 29 :
        /\ p[i].unit = "etr0"
        /\ p[i].op \in Config => FALSE
        /\ p[i].op = "dump" => i = 27
        /\ p[i].op = "disable" => i = 28
  <2> DEFINE a == 21
             o == SinkOffOps
             c == 0
             d == 6
             x == 7
  <2>1. Block(p, a, "etr0", o)
    BY DEF HikeyStopBlocks
  <2>2. o \in Seq(Ops) /\ Len(o) = 8 /\ Kinds(o, c, d, x)
    BY OpsTypes, OpsKinds
  <2>3. /\ a \in Nat /\ a + 1 = 22 /\ a + 8 = 29
        /\ a + c = 21 /\ a + d = 27 /\ a + x = 28
    OBVIOUS
  <2>4. "etr0" \in Names /\ a \in Nat /\ c \in Nat /\ d \in Nat /\ x \in Nat
    BY DEF Names
  <2> HIDE DEF a, o, c, d, x
  <2>5. KindsAt(p, a, Len(o), "etr0", c, d, x)
    BY <2>1, <2>2, <2>4, BlockKinds
  <2> QED
    BY <2>2, <2>3, <2>5 DEF KindsAt
<1> QED
  BY <1>1, <1>2, <1>3, <1>4, <1>5, <1>6

(* The calls of a platform access its units. *)
LEMMA JunoCallUnits ==
  ASSUME platform = "JUNOR2",
         NEW p \in {enable_junor2_trace, disable_junor2_trace,
                    interrupt_junor2}
  PROVE  \A i \in 1 .. Len(p) : p[i].unit \in Units
<1>1. Units = {"etm", "cluster0_funnel", "main_funnel", "etf0", "pmu"}
  BY JunoUnits
<1>2. CASE p = enable_junor2_trace
  BY <1>1, <1>2, JunoInitCall, JunoInitAccesses
<1>3. CASE p = disable_junor2_trace
  BY <1>1, <1>3, JunoStopCall, JunoStopAccesses
<1>4. CASE p = interrupt_junor2
  <2>1. \A i \in 1 .. 15 : p[i].unit \in Units
    BY <1>1, <1>4, JunoInterruptCall, JunoStopAccesses
  <2>2. \A i \in 16 .. 32 : p[i].unit \in Units
    BY <1>1, <1>4, JunoInterruptCall, JunoContinueAccesses
  <2>3. Len(p) = 32
    BY <1>4, JunoInterruptCall
  <2> QED
    BY <2>1, <2>2, <2>3
<1> QED
  BY <1>2, <1>3, <1>4

LEMMA HikeyCallUnits ==
  ASSUME platform # "JUNOR2",
         NEW p \in {enable_hikey970_trace, disable_hikey970_trace}
  PROVE  \A i \in 1 .. Len(p) : p[i].unit \in Units
<1>1. Units = {"etm", "funnel1", "etb1", "funnel2", "etb2", "etr0", "pmu"}
  BY HikeyUnits
<1>2. CASE p = enable_hikey970_trace
  BY <1>1, <1>2, HikeyInitCall, HikeyInitAccesses
<1>3. CASE p = disable_hikey970_trace
  BY <1>1, <1>3, HikeyStopCall, HikeyStopAccesses
<1> QED
  BY <1>2, <1>3
=============================================================================
