------------------------------ MODULE Telemetry ------------------------------
(***************************************************************************)
(* The telemetry loop of the API process: ticks of the collector (a reading*)
(* for every node, its sample window, spikes, and every so often a refit of*)
(* the predictors), each followed by a drain of the pending queue.  The    *)
(* loop awaits both in worker threads; the upload of a trace swaps the     *)
(* collector's adapter on the event loop, also in the middle of a tick.    *)
(*                                                                         *)
(* A row of an uploaded file is "good", has a NaN for its CPU or memory    *)
(* value ("nancpu", "nanmem": float() accepts them, np.clip lets them pass *)
(* and NodeTelemetry refuses them) or holds no number ("text").  The loop  *)
(* catches nothing but its cancellation.                                   *)
(*                                                                         *)
(* The process' life is ServiceLife's; the names here that a specification *)
(* of any component has carry the loop's, so that both can be extended.    *)
(***************************************************************************)
EXTENDS Integers, Sequences, SequencesExt

CONSTANTS
  NodeCount,  \* nodes are 1..NodeCount, in the order of node_state
  Offset,     \* Offset[n]: where node n starts to read the trace
  Uploads,      \* files that may be uploaded: [csv, columns, rows]
  NoTrace,    \* the synthetic signal
  Buckets,    \* _BORG_N_BUCKETS
  Interval,   \* REFIT_INTERVAL
  Threshold,  \* REFIT_THRESHOLD
  Lookback,   \* LOOKBACK
  Enough,     \* has_enough_data
  Window,     \* max_samples
  SpikeTicks, \* n_ticks of an injected spike
  MaxSpikes,  \* bound: injected spikes
  Period      \* ticks are counted modulo a multiple of Interval and all lengths

ASSUME TelemetryAssumption ==
  /\ NodeCount \in Nat \ {0} /\ Offset \in [1..NodeCount -> Nat]
  /\ Interval \in Nat \ {0} /\ Threshold \in 1..Interval
  /\ Lookback \in Nat /\ Enough \in 1..(Lookback + 1) /\ SpikeTicks \in Nat \ {0}
  /\ Window \in Nat /\ Window >= Interval + Lookback
  /\ Buckets \in Nat \ {0} /\ MaxSpikes \in Nat
  /\ Period \in Nat \ {0} /\ Period % Interval = 0

-----------------------------------------------------------------------------
(* Uploaded files *)

\* A trace: how many cells, and which CPU and memory cells are NaN.
Trace(len, cpu, mem) == [len |-> len, cpu |-> cpu, mem |-> mem]

\* AlibabaMachineTraceAdapter: float() of every cell, so one that is no
\* number refuses the file and a NaN does not.
AlibabaLoads(rows) == rows # <<>> /\ "text" \notin ToSet(rows)
AlibabaTrace(rows) ==
  Trace(Len(rows), {i - 1 : i \in {j \in DOMAIN rows : rows[j] = "nancpu"}},
                   {i - 1 : i \in {j \in DOMAIN rows : rows[j] = "nanmem"}})

\* BorgTraceAdapter: the pattern finds digits only, rows without a match are
\* passed over, and the rest is averaged in buckets of equally many rows.
BorgUsable(rows) == SelectSeq(rows, LAMBDA row : row = "good")
BorgTrace(rows) ==
  LET n == Len(BorgUsable(rows))
      chunk == IF n < Buckets THEN 1 ELSE n \div Buckets
  IN  Trace((n + chunk - 1) \div chunk, {}, {})

\* upload_trace, up to the swap: a file with the columns of both is Alibaba's.
Accepted(f) ==
  /\ f.csv
  /\ \/ "alibaba" \in f.columns /\ AlibabaLoads(f.rows)
     \/ f.columns = {"borg"} /\ BorgUsable(f.rows) # <<>>
TraceOf(f) == IF "alibaba" \in f.columns THEN AlibabaTrace(f.rows) ELSE BorgTrace(f.rows)

Traces == {TraceOf(f) : f \in {g \in Uploads : Accepted(g)}}

ASSUME PeriodAssumption == \A t \in Traces : Period % t.len = 0

VARIABLES
  loop,     \* "sleep", "tick", "drain"; "dead" once the task has failed
  k,        \* the node the tick has reached
  ticks,    \* _tick_count
  adapter,  \* _trace_adapter
  base,     \* _base_cpu: "normal" or "spike"
  saved,    \* _pre_spike_base, "none" when the node has no entry
  left,     \* _spike_remaining, 0 when the node has no entry
  count,    \* samples in the node's window
  lastFit,  \* _last_fit_sample_count
  trained,  \* _trained
  cached,   \* _prediction_cache: "none", "cold" (untrained) or "warm"
  age,      \* history: samples since the last fit (no further than past Interval)
  spikes    \* spikes injected so far

loopVars == <<loop, k, ticks, adapter, base, saved, left, count, lastFit, trained,
          cached, age, spikes>>
spikeVars == <<base, saved, left>>
fitVars   == <<lastFit, trained, cached>>
Polled == 1..NodeCount

LoopTypeOK ==
  /\ loop \in {"sleep", "tick", "drain", "dead"} /\ k \in 1..(NodeCount + 1)
  /\ ticks \in 0..(Period - 1) /\ adapter \in Traces \cup {NoTrace}
  /\ base \in [Polled -> {"normal", "spike"}]
  /\ saved \in [Polled -> {"none", "normal", "spike"}]
  /\ left \in [Polled -> 0..SpikeTicks]
  /\ count \in [Polled -> 0..Window] /\ lastFit \in [Polled -> 0..Window]
  /\ trained \in [Polled -> BOOLEAN] /\ cached \in [Polled -> {"none", "cold", "warm"}]
  /\ age \in [Polled -> 0..(Interval + 1)] /\ spikes \in 0..MaxSpikes

LoopInit ==
  /\ loop = "sleep" /\ k = 1 /\ ticks = 0
  /\ adapter = NoTrace
  /\ base = [n \in Polled |-> "normal"]
  /\ saved = [n \in Polled |-> "none"]
  /\ left = [n \in Polled |-> 0]
  /\ count = [n \in Polled |-> 0] /\ lastFit = [n \in Polled |-> 0]
  /\ trained = [n \in Polled |-> FALSE] /\ cached = [n \in Polled |-> "none"]
  /\ age = [n \in Polled |-> 0] /\ spikes = 0

-----------------------------------------------------------------------------
(* One tick *)

TickBegin ==
  /\ loop = "sleep"
  /\ loop' = "tick" /\ k' = 1
  /\ ticks' = (ticks + 1) % Period
  /\ UNCHANGED <<adapter, spikeVars, count, fitVars, age, spikes>>

\* get_reading: the trace is read in a circle.
Cell(n) == (Offset[n] + ticks) % adapter.len

\* _generate_telemetry and NodeTelemetry(): a spike overrides the trace's CPU
\* value, and only that.
BadReading(n) ==
  /\ adapter # NoTrace
  /\ Cell(n) \in adapter.mem \/ (Cell(n) \in adapter.cpu /\ left[n] = 0)

\* (Bug: nothing is dropped.)
GrownUnbounded(c) == c + 1

\* WorkloadProfile.add_sample drops the oldest sample beyond max_samples.
Grown(c) == IF c = Window THEN Window ELSE c + 1

\* A spike's last tick restores the baseline of before.
CountDown(n) ==
  /\ left' = [left EXCEPT ![n] = IF @ > 0 THEN @ - 1 ELSE 0]
  /\ IF left[n] = 1
     THEN /\ base' = [base EXCEPT ![n] = IF saved[n] = "none" THEN @ ELSE saved[n]]
          /\ saved' = [saved EXCEPT ![n] = "none"]
     ELSE UNCHANGED <<base, saved>>

Sample ==
  /\ loop = "tick" /\ k <= NodeCount /\ ~BadReading(k)
  /\ count' = [count EXCEPT ![k] = Grown(@)]
  /\ age' = [age EXCEPT ![k] = IF @ > Interval THEN @ ELSE @ + 1]
  /\ CountDown(k)
  /\ k' = k + 1
  /\ UNCHANGED <<loop, ticks, adapter, fitVars, spikes>>

\* (Bug: the node is read again until it has a valid reading.)
FailRetrying ==
  /\ loop = "tick" /\ k <= NodeCount /\ BadReading(k)
  /\ UNCHANGED loopVars

\* The ValidationError leaves the tick, the thread, and the task.
Fail ==
  /\ loop = "tick" /\ k <= NodeCount /\ BadReading(k)
  /\ loop' = "dead"
  /\ UNCHANGED <<k, ticks, adapter, spikeVars, count, fitVars, age, spikes>>

\* WorkloadPredictor.fit
CanTrain(n) == count[n] >= Enough /\ count[n] > Lookback

\* (Bug: > for >=.)
FitIsDueLater(n) == count[n] - lastFit[n] > Threshold

\* refit_if_needed counts the samples in the window, which stops growing.
FitIsDue(n) == count[n] - lastFit[n] >= Threshold

\* WorkloadPredictor.predict
Predicted(isTrained, c) == IF isTrained /\ c >= Enough THEN "warm" ELSE "cold"

\* _refit; fit() without enough data leaves the predictor untrained.
Refit ==
  /\ lastFit' = [n \in Polled |-> IF FitIsDue(n) /\ CanTrain(n) THEN count[n] ELSE lastFit[n]]
  /\ trained' = [n \in Polled |-> IF FitIsDue(n) THEN CanTrain(n) ELSE trained[n]]
  /\ age'     = [n \in Polled |-> IF FitIsDue(n) /\ CanTrain(n) THEN 0 ELSE age[n]]
  /\ cached'  = [n \in Polled |-> Predicted(trained'[n], count[n])]

TickEnd ==
  /\ loop = "tick" /\ k > NodeCount
  /\ loop' = "drain"
  /\ IF ticks % Interval = 0 THEN Refit ELSE UNCHANGED <<fitVars, age>>
  /\ UNCHANGED <<k, ticks, adapter, spikeVars, count, spikes>>

\* drain_pending_queue; what it does to the queue is Orchestrator's, and its
\* outcomes are only logged.
Drain ==
  /\ loop = "drain"
  /\ loop' = "sleep"
  /\ UNCHANGED <<k, ticks, adapter, spikeVars, count, fitVars, age, spikes>>

-----------------------------------------------------------------------------
(* Meanwhile *)

\* upload_trace; the event loop serves it whatever has become of the task, and
\* a refused file (HTTP 400, 413, 422) leaves the adapter.
Upload(f) ==
  /\ Accepted(f)
  /\ adapter' = TraceOf(f)
  /\ UNCHANGED <<loop, k, ticks, spikeVars, count, fitVars, age, spikes>>

\* (Bug: the baseline is saved by every injection.)
InjectSpikeAnew(n) ==
  /\ loop = "sleep" /\ spikes < MaxSpikes
  /\ saved' = [saved EXCEPT ![n] = base[n]]
  /\ base' = [base EXCEPT ![n] = "spike"]
  /\ left' = [left EXCEPT ![n] = SpikeTicks]
  /\ spikes' = spikes + 1
  /\ UNCHANGED <<loop, k, ticks, adapter, count, fitVars, age>>

\* inject_spike, between two ticks; a second one starts the countdown again.
InjectSpike(n) ==
  /\ loop = "sleep" /\ spikes < MaxSpikes
  /\ saved' = [saved EXCEPT ![n] = IF left[n] = 0 THEN base[n] ELSE @]
  /\ base' = [base EXCEPT ![n] = "spike"]
  /\ left' = [left EXCEPT ![n] = SpikeTicks]
  /\ spikes' = spikes + 1
  /\ UNCHANGED <<loop, k, ticks, adapter, count, fitVars, age>>

TelemetryLoop == TickBegin \/ Sample \/ Fail \/ TickEnd \/ Drain

LoopNext ==
  \/ TelemetryLoop
  \/ \E f \in Uploads : Upload(f)
  \/ \E n \in Polled : InjectSpike(n)

\* The event loop wakes the task, worker threads run.
LoopSpec == LoopInit /\ [][LoopNext]_loopVars /\ WF_loopVars(TelemetryLoop)
-----------------------------------------------------------------------------
(* What the loop guarantees *)

\* Outside a spike the node's baseline is its own, however spikes overlapped
\* and whatever has become of the loop; within one its own is kept.
BaselineComesBack ==
  \A n \in Polled : IF left[n] = 0 THEN base[n] = "normal" ELSE saved[n] = "normal"

\* As long as the window is not full, a trained predictor lags at most one
\* refit interval behind, and it is trained by the first refit past Lookback.
\* (The test counts the samples of the window: once that is full it is never
\* refitted again.)
FitLagsAtMost ==
  \A n \in Polled : count[n] < Window =>
    /\ trained[n] => age[n] <= Interval
    /\ loop = "sleep" /\ count[n] >= Lookback + Interval => trained[n]

\* Whatever is uploaded in the middle of a tick, the loop comes to the drain of
\* the queue again and again, unless the task ends: no tick lasts for ever.
\* (Which entries a drain looks at is Orchestrator's.)
DrainsComeBack == []<>(loop \in {"drain", "dead"})
=============================================================================
