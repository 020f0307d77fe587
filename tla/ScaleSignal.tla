---------------------------- MODULE ScaleSignal ----------------------------
(***************************************************************************)
(* Queue.ScaleSignal (ScaleSignalSnapshot in internal/core/                *)
(* scale_signal.go): pollers read the time and the scheduler without a     *)
(* lock and then, one at a time, feed the calculator that counts unhealthy *)
(* windows.                                                                *)
(***************************************************************************)
EXTENDS PressureSignals, DataPlane, TLC

CONSTANTS
    Pollers,    \* callers of ScaleSignal; workload: polls[p] calls each
    Word        \* counters are unsigned modulo Word, 2^64 in the code

\* An AutoscalingSignalConfig: a flag and numbers, which may be unset or wrong until New has seen them.
ASSUME ScaleAssumption ==
    \A n \in DOMAIN Workloads :
        /\ DOMAIN Workloads[n].signal = DOMAIN DefaultAutoscalingSignalConfig /\ Workloads[n].signal.enabled \in BOOLEAN
        /\ \A f \in DOMAIN DefaultAutoscalingSignalConfig \ {"enabled"} : Workloads[n].signal[f] \in Int

\* What the pollers look at is what the scheduler could show; a ShardPressureConfig is a flag and numbers.
ASSUME PressureAssumption ==
    \A n \in DOMAIN Workloads :
        LET w == Workloads[n] IN
        /\ Len(w.script) \in Nat \ {0} /\ DOMAIN w.script = 1..Len(w.script)
        /\ \A i \in DOMAIN w.script : IsView(w.script[i])
        /\ DOMAIN w.pressure = DOMAIN DefaultShardPressureConfig /\ w.pressure.enabled \in BOOLEAN
        /\ \A f \in DOMAIN w.pressure \ {"enabled"} : w.pressure[f] \in Int

VARIABLES
    calc,       \* scaleSignalCalculator: [unhealthyWindows, lastSampleAt, lastCounters]
    poll,       \* each poller: [pc, left, at, raw]; raw also says in which situation it was read
    summary,    \* what PressureSummarySnapshot last returned, with the situation it was read in
    samples     \* history: what each call that had data was told, in the order they took calc.mu

scaleVars == <<calc, poll, summary, samples>>

SignalConfig == NormalizeAutoscalingSignalConfig(Plan.signal)
PressureConfig == normalizeShardPressureConfig(Plan.pressure)

NoCounters == [submitted |-> 0, rejected |-> 0, shed |-> 0, throttled |-> 0]
NoRaw == <<>>
NoSummary == [seen |-> 0]

\* New validates both configurations; ConfigureAutoscalingSignal gives the scheduler a fresh calculator.
ScaleInit ==
    /\ ValidateAutoscalingSignalConfig(SignalConfig)
    /\ ValidateShardPressureConfig(NormalizeShardPressureConfig(Plan.pressure))
    /\ calc = [unhealthyWindows |-> 0, lastSampleAt |-> 0, lastCounters |-> NoCounters]
    /\ poll = [p \in Pollers |-> [pc |-> "idle", left |-> Plan.polls[p], at |-> 0, raw |-> NoRaw]]
    /\ summary = NoSummary /\ samples = <<>>

\* The time is read first; a disabled signal is answered at once.
ScaleSignalSnapshot(p) ==
    /\ poll[p].pc = "idle" /\ poll[p].left > 0
    /\ poll' = [poll EXCEPT ![p].pc = IF SignalConfig.enabled THEN "read" ELSE "idle", ![p].left = @ - 1, ![p].at = now]
    /\ UNCHANGED <<calc, summary, samples>>

ReadRawInput(p) ==
    /\ poll[p].pc = "read"
    /\ poll' = [poll EXCEPT ![p].pc = "calculate", ![p].raw = [seen |-> pos, in |-> buildScaleSignalRawInput(Data, PressureConfig)]]
    /\ UNCHANGED <<calc, summary, samples>>

\* Mutant: every call closes a window.
advanceWindow_Always(at) == TRUE

advanceWindow(at) == calc.lastSampleAt = 0 \/ at - calc.lastSampleAt >= SignalConfig.window

\* What calculate answers and how it leaves the calculator.
calculate(in, at) ==
    LET rates == admissionRates(in.counters, calc.lastCounters, Word)
        fired == evaluateScaleTriggers(SignalConfig, in, rates)
        localized == AtLeast(in.localizedRatio, Percent(SignalConfig.localized)) /\ in.hotCount <= 2
        unhealthy == fired # {}
        reason == ScaleReasons[Min(fired)]
        next == IF ~advanceWindow(at) THEN calc
                ELSE [unhealthyWindows |-> IF unhealthy THEN calc.unhealthyWindows + 1 ELSE 0,
                      lastSampleAt |-> at, lastCounters |-> in.counters] IN
    IF in.capacity <= 0 \/ in.counters.submitted = 0
    THEN [calc |-> calc, data |-> FALSE,
          signal |-> [reason |-> "insufficient_data", scope |-> "unknown", recommended |-> FALSE,
                      pressure |-> safeRatio(in.depth, in.capacity)]]
    ELSE [calc |-> next, data |-> TRUE,
          signal |-> [reason |-> IF localized THEN "localized_hot_key" ELSE IF unhealthy THEN reason ELSE "none",
                      scope |-> IF localized THEN "hot_key"
                                ELSE IF unhealthy THEN scopeForScaleTrigger(reason, in) ELSE "none",
                      recommended |-> ~localized /\ unhealthy /\ next.unhealthyWindows >= SignalConfig.consecutive,
                      pressure |-> computeScalePressureRatio(SignalConfig, in, rates)],
          unhealthy |-> unhealthy]

\* Under calc.mu.
Calculate(p) ==
    /\ poll[p].pc = "calculate"
    /\ LET r == calculate(poll[p].raw.in, poll[p].at) IN
       /\ calc' = r.calc
       /\ samples' = IF r.data THEN Append(samples, [at |-> poll[p].at, unhealthy |-> r.unhealthy, signal |-> r.signal]) ELSE samples
    /\ poll' = [poll EXCEPT ![p].pc = "idle", ![p].raw = NoRaw, ![p].at = 0]
    /\ UNCHANGED summary

\* A reader of the pressure diagnostics; workload: summaries.
PressureSummarySnapshot ==
    /\ Plan.summaries /\ PressureConfig.enabled /\ summary.seen # pos
    /\ summary' = [seen |-> pos, of |-> buildPressureSummary(Data, PressureConfig)]
    /\ UNCHANGED <<calc, poll, samples>>

ScaleNext ==
    \/ \E p \in Pollers : ScaleSignalSnapshot(p) \/ ReadRawInput(p) \/ Calculate(p)
    \/ PressureSummarySnapshot

-----------------------------------------------------------------------------
\* Indices I of samples: unhealthy ones, each a window after the one before it, and no healthy sample that
\* was a window or more after one of them came before the next.
Consecutive(I) ==
    /\ \A i \in I : samples[i].unhealthy
    /\ \A i, j \in I : i < j /\ ~(\E k \in I : i < k /\ k < j) =>
          /\ samples[j].at - samples[i].at >= SignalConfig.window
          /\ \A k \in i + 1 .. j - 1 : samples[k].at - samples[i].at >= SignalConfig.window => samples[k].unhealthy

\* Scaling is recommended only by an unhealthy sample, after as many consecutive unhealthy windows as are
\* configured, however often and by however many the signal is polled, and never for a localized hot key.
ScaleSustained ==
    \A n \in DOMAIN samples : samples[n].signal.recommended =>
        /\ samples[n].unhealthy /\ samples[n].signal.reason # "localized_hot_key"
        /\ \E I \in SUBSET (1..n) : Cardinality(I) = SignalConfig.consecutive /\ Consecutive(I)

\* The two readings of the shards agree where it matters: what the signal, which sees fewer symptoms, takes for
\* pressure on enough shards, the pressure summary of the same moment calls distributed and relevant for
\* scaling; and the summary never asks for scaling and for mitigation at once.
SummaryCoversSignal ==
    \A p \in Pollers : poll[p].pc = "calculate" /\ poll[p].raw.seen = summary.seen =>
        /\ poll[p].raw.in.hotCount <= summary.of.hotCount
        /\ AtLeast(poll[p].raw.in.hotRatio, Percent(PressureConfig.distributed)) =>
              summary.of.class = "distributed" /\ summary.of.flags.scale
        /\ ~(summary.of.flags.scale /\ summary.of.flags.mitigation)
=============================================================================
