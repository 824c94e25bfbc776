----------------------------- MODULE TracePath -----------------------------
(***************************************************************************)
(* How demo.ko programs the CoreSight trace path (connect.c, etm.c,        *)
(* funnel.c, tmc*.c, pmu.c), against the hardware that runs at the same    *)
(* time.  A C function is the sequence of register accesses it makes, and  *)
(* a function that calls others concatenates theirs, in the code's order.  *)
(* The accesses of a call are made one per step; between any two of them   *)
(* the trace unit may emit words and the words may move towards the sink.  *)
(*                                                                         *)
(* Values written to configuration registers are not modelled, only that   *)
(* and when a unit is configured.  What the units do (Effect and the       *)
(* hardware actions) is external: it is what the code relies on.           *)
(***************************************************************************)
EXTENDS Integers, Sequences

CONSTANTS
  Platforms,   \* the platforms to consider
  FifoWords,   \* words the trace unit can hold back
  RamWords,    \* words a TMC can hold
  LockGates,   \* TRUE: a unit ignores writes while its software lock is set
  OsLockStops  \* TRUE: the trace unit is off while its OS lock is set (etm.c:20)

ASSUME PathAssumption ==
  /\ Platforms \subseteq {"JUNOR2", "HIKEY970"}
  /\ FifoWords \in Nat \ {0} /\ RamWords \in Nat \ {0}
  /\ LockGates \in BOOLEAN /\ OsLockStops \in BOOLEAN

VARIABLES
  platform, \* the macro the Makefile defines
  loaded,   \* demo.ko is in the kernel, or its trace_init is running
  todo,     \* the register accesses the running call has yet to make
  hw        \* hw[u]: the state of unit u

vars == <<platform, loaded, todo, hw>>

(* The units from source to sink.  A link TMC is a FIFO on the way. *)
Chain ==
  IF platform = "JUNOR2"
  THEN <<"etm", "cluster0_funnel", "main_funnel", "etf0">>
  ELSE <<"etm", "funnel1", "etb1", "funnel2", "etb2", "etr0">>

Etm     == Chain[1]
Sink    == Chain[Len(Chain)]
Links   == {"etb1", "etb2"} \intersect {Chain[i] : i \in DOMAIN Chain}
Tmcs    == Links \union {Sink}
Stores  == Tmcs \union {Etm}
Funnels == {Chain[i] : i \in DOMAIN Chain} \ Stores
Units   == Stores \union Funnels \union {"pmu"}

(* No chain is longer. *)
Places == 1 .. 6

-----------------------------------------------------------------------------
(* The functions of the driver, as register accesses.                      *)

On(u, ops) == [i \in DOMAIN ops |-> [unit |-> u, op |-> ops[i]]]

tmc_wait_for_tmcready == <<"wait_ready">>

(* Mutant of tmc_flush_and_stop: flushes without asking for the stop. *)
tmc_flush_only ==
  <<"flushman", "wait_flush">> \o tmc_wait_for_tmcready

tmc_flush_and_stop ==
  <<"stop_on_flush", "flushman", "wait_flush">> \o tmc_wait_for_tmcready

tmc_enable_etf_sink(u) ==
  On(u, <<"unlock">> \o tmc_wait_for_tmcready
          \o <<"circular", "ffcr", "enable", "lock">>)

(* Mutant of tmc_disable_etf_sink: disables the TMC, then reads it.  *)
tmc_disable_etf_sink_early(u) ==
  On(u, <<"unlock">> \o tmc_flush_and_stop \o <<"disable", "dump", "lock">>)

tmc_disable_etf_sink(u) ==
  On(u, <<"unlock">> \o tmc_flush_and_stop \o <<"dump", "disable", "lock">>)

tmc_enable_etr_sink(u) ==
  On(u, <<"unlock">> \o tmc_wait_for_tmcready
          \o <<"circular", "ffcr", "enable", "lock">>)

tmc_disable_etr_sink(u) ==
  On(u, <<"unlock">> \o tmc_flush_and_stop \o <<"dump", "disable", "lock">>)

tmc_enable_etf_link(u) ==
  On(u, <<"unlock">> \o tmc_wait_for_tmcready
          \o <<"fifo", "ffcr", "enable", "lock">>)

(* Mutant of tmc_disable_etf_link: the TMC is left enabled. *)
tmc_disable_etf_link_on(u) ==
  On(u, <<"unlock">> \o tmc_flush_and_stop \o <<"lock">>)

tmc_disable_etf_link(u) ==
  On(u, <<"unlock">> \o tmc_flush_and_stop \o <<"disable", "lock">>)

funnel_enable(u) == On(u, <<"unlock", "enable", "lock">>)

(* Mutant of funnel_disable: unlocks the funnel first. *)
funnel_disable_unlocked(u) == On(u, <<"unlock", "disable", "lock">>)

(* No CS_UNLOCK here, unlike in every other function. *)
funnel_disable(u) == On(u, <<"disable">>)

set_pmu_export(u) == On(u, <<"unlock", "enable", "lock">>)

etm_enable_trace_program_flow(u) ==
  On(u, <<"unlock", "os_unlock", "disable", "flow", "enable", "os_lock",
          "lock">>)

etm_disable(u) ==
  On(u, <<"unlock", "os_unlock", "disable", "os_lock", "lock">>)

(* Mutant of etm_continue: CS_UNLOCK forgotten. *)
etm_continue_locked(u) == On(u, <<"os_unlock", "enable", "os_lock", "lock">>)

etm_continue(u) ==
  On(u, <<"unlock", "os_unlock", "enable", "os_lock", "lock">>)

(* Mutant of enable_junor2_trace: PMU export after the trace unit. *)
enable_junor2_trace_pmu_last ==
  tmc_enable_etf_sink("etf0")
  \o funnel_enable("main_funnel") \o funnel_enable("cluster0_funnel")
  \o etm_enable_trace_program_flow("etm") \o set_pmu_export("pmu")

enable_junor2_trace ==
  tmc_enable_etf_sink("etf0")
  \o funnel_enable("main_funnel") \o funnel_enable("cluster0_funnel")
  \o set_pmu_export("pmu") \o etm_enable_trace_program_flow("etm")

disable_junor2_trace ==
  etm_disable("etm")
  \o funnel_disable("cluster0_funnel") \o funnel_disable("main_funnel")
  \o tmc_disable_etf_sink("etf0")

(* Mutant of pause_junor2_trace: drains the sink with the source running. *)
pause_junor2_trace_sink_first ==
  tmc_disable_etf_sink("etf0") \o etm_disable("etm")
  \o funnel_disable("cluster0_funnel") \o funnel_disable("main_funnel")

(* Mutant of pause_junor2_trace: a register pointer nobody has mapped. *)
pause_junor2_trace_etf1 ==
  etm_disable("etm")
  \o funnel_disable("cluster0_funnel") \o funnel_disable("main_funnel")
  \o tmc_disable_etf_sink("etf1")

pause_junor2_trace ==
  etm_disable("etm")
  \o funnel_disable("cluster0_funnel") \o funnel_disable("main_funnel")
  \o tmc_disable_etf_sink("etf0")

continue_junor2_trace ==
  tmc_enable_etf_sink("etf0")
  \o funnel_enable("main_funnel") \o funnel_enable("cluster0_funnel")
  \o etm_continue("etm")

(* Mutant of enable_hikey970_trace: the source before its links. *)
enable_hikey970_trace_link_last ==
  tmc_enable_etr_sink("etr0") \o tmc_enable_etf_link("etb2")
  \o funnel_enable("funnel2") \o funnel_enable("funnel1")
  \o etm_enable_trace_program_flow("etm") \o tmc_enable_etf_link("etb1")

enable_hikey970_trace ==
  tmc_enable_etr_sink("etr0") \o tmc_enable_etf_link("etb2")
  \o funnel_enable("funnel2") \o tmc_enable_etf_link("etb1")
  \o funnel_enable("funnel1") \o etm_enable_trace_program_flow("etm")

disable_hikey970_trace ==
  etm_disable("etm") \o funnel_disable("funnel1")
  \o tmc_disable_etf_link("etb1") \o funnel_disable("funnel2")
  \o tmc_disable_etf_link("etb2") \o tmc_disable_etr_sink("etr0")

-----------------------------------------------------------------------------
(* The hardware.  on is TRCPRGCTLR.EN, the port bit of FUNCTL,             *)
(* CTL.TraceCaptEn or PMCR.X; tmc is a TMC's state, "ready" when STS shows *)
(* TMCReady; cfg says what the unit was last configured for.               *)

Config == {"flow", "circular", "fifo"}

PowerOn ==
  [locked |-> TRUE, os_locked |-> TRUE, on |-> FALSE, cfg |-> "reset",
   stop_on_flush |-> FALSE, tmc |-> "ready", held |-> 0]

Init ==
  /\ platform \in Platforms
  /\ loaded = FALSE
  /\ todo = << >>
  /\ hw = [u \in Units |-> PowerOn]

Effect(u, op, s) ==
  IF LockGates /\ s.locked /\ op \notin {"unlock", "lock"} THEN s
  ELSE CASE op = "unlock"        -> [s EXCEPT !.locked = FALSE]
         [] op = "lock"          -> [s EXCEPT !.locked = TRUE]
         [] op = "os_unlock"     -> [s EXCEPT !.os_locked = FALSE]
         [] op = "os_lock"       -> [s EXCEPT !.os_locked = TRUE]
         [] op \in Config        -> [s EXCEPT !.cfg = op]
         [] op = "ffcr"          -> [s EXCEPT !.stop_on_flush = FALSE]
         [] op = "stop_on_flush" -> [s EXCEPT !.stop_on_flush = TRUE]
         [] op = "flushman"      -> [s EXCEPT !.tmc = IF @ = "capturing"
                                                      THEN "flushing" ELSE @]
         [] op = "enable"        -> [s EXCEPT !.on = TRUE,
                                              !.tmc = IF u \in Tmcs
                                                      THEN "capturing" ELSE @]
         [] op = "disable"       -> [s EXCEPT !.on = FALSE, !.tmc = "ready"]

(* etm.c:20 says of the OS lock that it disables the trace unit, and every *)
(* function that enables the unit sets the lock again afterwards.          *)
Tracing == hw[Etm].on /\ (OsLockStops => ~hw[Etm].os_locked)

Passes(u) == hw[u].on

(* The store at place i of the chain and the store at place j have only    *)
(* units between them that pass words on.                                  *)
Connected(i, j) == \A k \in i + 1 .. j - 1 : Passes(Chain[k])

(* The trace unit produces a word. *)
Emit ==
  /\ Tracing
  /\ hw[Etm].held < FifoWords
  /\ hw' = [hw EXCEPT ![Etm].held = @ + 1]
  /\ UNCHANGED <<platform, loaded, todo>>

(* A word moves to the next store on the path.  The sink is a circular     *)
(* buffer: when it is full the oldest word makes room.                     *)
Move(i, j) ==
  /\ i < j /\ j \in DOMAIN Chain
  /\ Chain[i] \in Stores /\ Chain[j] \in Tmcs
  /\ \A k \in i + 1 .. j - 1 : Chain[k] \in Funnels
  /\ Connected(i, j)
  /\ LET u == Chain[i]
         v == Chain[j]
     IN /\ u \in Tmcs => hw[u].on
        /\ hw[u].held > 0
        /\ hw[v].tmc \in {"capturing", "flushing"}
        /\ v = Sink \/ hw[v].held < RamWords
        /\ hw' = [hw EXCEPT
                    ![u].held = @ - 1,
                    ![v].held = IF @ < RamWords THEN @ + 1 ELSE @]
  /\ UNCHANGED <<platform, loaded, todo>>

(* A flush is over when no connected store upstream holds a word. *)
FlushDone(j) ==
  /\ j \in DOMAIN Chain /\ Chain[j] \in Tmcs
  /\ \A i \in 1 .. j - 1 :
       Chain[i] \in Stores /\ Connected(i, j) => hw[Chain[i]].held = 0
  /\ LET v == Chain[j]
     IN /\ hw[v].tmc = "flushing"
        /\ hw' = [hw EXCEPT ![v].tmc = IF hw[v].stop_on_flush
                                       THEN "stopping" ELSE "capturing"]
  /\ UNCHANGED <<platform, loaded, todo>>

(* A TMC that stops becomes ready; a link hands its words on first. *)
Stopped(j) ==
  /\ j \in DOMAIN Chain
  /\ LET v == Chain[j]
     IN /\ hw[v].tmc = "stopping"
        /\ v = Sink \/ hw[v].held = 0
        /\ hw' = [hw EXCEPT ![v].tmc = "ready"]
  /\ UNCHANGED <<platform, loaded, todo>>

Hardware ==
  \/ Emit
  \/ \E i, j \in Places : Move(i, j)
  \/ \E j \in Places : FlushDone(j) \/ Stopped(j)

-----------------------------------------------------------------------------
(* The calls.  They never overlap: the interrupt comes from a module that  *)
(* needs demo.ko's symbols, so it cannot be called before trace_init is    *)
(* over nor while trace_exit runs.                                         *)

Idle == todo = << >>

trace_init ==
  /\ Idle /\ ~loaded
  /\ loaded' = TRUE
  /\ todo' = IF platform = "JUNOR2" THEN enable_junor2_trace
                                    ELSE enable_hikey970_trace
  /\ UNCHANGED <<platform, hw>>

trace_exit ==
  /\ Idle /\ loaded
  /\ loaded' = FALSE
  /\ todo' = IF platform = "JUNOR2" THEN disable_junor2_trace
                                    ELSE disable_hikey970_trace
  /\ UNCHANGED <<platform, hw>>

(* cs_trace_pause and cs_trace_continue, which exist for Juno only. *)
pmu_irq_handler ==
  /\ Idle /\ loaded /\ platform = "JUNOR2"
  /\ todo' = pause_junor2_trace \o continue_junor2_trace
  /\ UNCHANGED <<platform, loaded, hw>>

WaitReady ==
  /\ ~Idle /\ Head(todo).op = "wait_ready"
  /\ hw[Head(todo).unit].tmc = "ready"
  /\ todo' = Tail(todo)
  /\ UNCHANGED <<platform, loaded, hw>>

WaitFlush ==
  /\ ~Idle /\ Head(todo).op = "wait_flush"
  /\ hw[Head(todo).unit].tmc # "flushing"
  /\ todo' = Tail(todo)
  /\ UNCHANGED <<platform, loaded, hw>>

(* tmc_dump_etf_sink and tmc_dump_etr_sink: RRD until the RAM is empty. *)
Dump ==
  /\ ~Idle /\ Head(todo).op = "dump"
  /\ hw' = [hw EXCEPT ![Head(todo).unit].held = 0]
  /\ todo' = Tail(todo)
  /\ UNCHANGED <<platform, loaded>>

Write ==
  /\ ~Idle /\ Head(todo).op \notin {"wait_ready", "wait_flush", "dump"}
  /\ LET u == Head(todo).unit
     IN hw' = [hw EXCEPT ![u] = Effect(u, Head(todo).op, @)]
  /\ todo' = Tail(todo)
  /\ UNCHANGED <<platform, loaded>>

Driver == WaitReady \/ WaitFlush \/ Dump \/ Write

Next == trace_init \/ trace_exit \/ pmu_irq_handler \/ Driver \/ Hardware

Spec == Init /\ [][Next]_vars

(* The processor executes the call; the hardware moves words on, finishes  *)
(* flushes and stops.  No module has to be loaded, no interrupt has to     *)
(* come, no word has to be produced.                                       *)
Fairness ==
  /\ WF_vars(Driver)
  /\ \A i, j \in Places : WF_vars(Move(i, j))
  /\ \A j \in Places : WF_vars(FlushDone(j)) /\ WF_vars(Stopped(j))

FairSpec == Spec /\ Fairness

-----------------------------------------------------------------------------
UnitState ==
  [locked : BOOLEAN, os_locked : BOOLEAN, on : BOOLEAN,
   cfg : Config \union {"reset"}, stop_on_flush : BOOLEAN,
   tmc : {"ready", "capturing", "flushing", "stopping"},
   held : 0 .. (IF FifoWords > RamWords THEN FifoWords ELSE RamWords)]

(* Types, and the capacities of the stores. *)
TypeOK ==
  /\ platform \in Platforms
  /\ loaded \in BOOLEAN
  /\ \A i \in DOMAIN todo : todo[i].unit \in Units
  /\ hw \in [Units -> UnitState]

(* connect.c starts the path from the sink and stops it from the source:   *)
(* at no point between two register accesses is the trace unit enabled     *)
(* while the path is not ready to take its trace, with every funnel open   *)
(* and every TMC capturing in its mode, not about to stop.                 *)
PathReady ==
  hw[Etm].on =>
    /\ \A f \in Funnels : hw[f].on
    /\ \A t \in Tmcs : hw[t].tmc = "capturing" /\ ~hw[t].stop_on_flush
    /\ \A t \in Links : hw[t].cfg = "fifo"
    /\ hw[Sink].cfg = "circular"
    /\ hw[Etm].cfg = "flow"

(* When the sink is read out it is enabled and has stopped, and everything *)
(* the trace unit produced is in it: etm_disable does not wait for the     *)
(* unit to drain, so this rests on the flush of tmc_flush_and_stop getting *)
(* through to the source.                                                  *)
TraceComplete ==
  ~Idle /\ Head(todo).op = "dump" =>
    /\ hw[Sink].on /\ hw[Sink].tmc = "ready"
    /\ \A u \in Stores \ {Sink} : hw[u].held = 0

(* tmc-etr.c:49 says that the buffer's content has to be read before the   *)
(* TMC is disabled: a TMC that is switched off holds no trace.             *)
ReadBeforeDisable ==
  [][\A t \in Tmcs : hw[t].on /\ ~hw'[t].on => hw[t].held = 0]_vars

(* A TMC is configured only while it is disabled and ready, the trace unit *)
(* only while it is disabled and drained; etm.c never asks the unit        *)
(* whether it is.                                                          *)
QuietConfig ==
  ~Idle /\ Head(todo).op \in Config =>
    LET s == hw[Head(todo).unit]
    IN ~s.locked /\ ~s.on /\ s.tmc = "ready" /\ s.held = 0

(* etm.c:102 says that the PMU must be enabled before the trace unit is;   *)
(* only Juno's functions enable it.                                        *)
PmuBeforeEtm == platform = "JUNOR2" /\ hw[Etm].on => hw["pmu"].on

(* After trace_init, and after each interrupt that paused and continued    *)
(* it, the trace unit is enabled for program flow trace: etm_continue      *)
(* finds the configuration that etm_disable has left alone, and no write   *)
(* of either is swallowed by a software lock.                              *)
EnabledBetweenCalls ==
  Idle /\ loaded => hw[Etm].on /\ hw[Etm].cfg = "flow"

(* The busy waits of tmc_wait_for_tmcready and tmc_flush_and_stop have no  *)
(* time limit, and pmu_irq_handler runs them with interrupts off: every    *)
(* call comes to its end.                                                  *)
CallsReturn == ~Idle ~> Idle
=============================================================================
