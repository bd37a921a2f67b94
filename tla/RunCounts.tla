------------------------------ MODULE RunCounts ------------------------------
(***************************************************************************)
(* Where there is no Tekton Results, the overview and the metrics of a     *)
(* pipeline are computed from Prometheus: counters, by status, of the runs *)
(* that the Tekton controller has seen end and of the seconds they took.   *)
(* They begin at zero again when the controller restarts, so that a card   *)
(* must find out from the samples of a time range what was added.  Each    *)
(* does so in its own way, over the answer to its own query: by status, of *)
(* all runs, or of seconds.                                                *)
(*                                                                         *)
(* A time range is a grid of places.  Nothing is recorded for a place at   *)
(* which the controller has no counters.                                   *)
(***************************************************************************)
EXTENDS Naturals, FiniteSets, Sequences, SequencesExt

CONSTANTS
  Status,       \* the statuses that the controller counts
  Success,      \* that of a run that succeeds
  Lasts,        \* the seconds, not none, that a run of each status takes
  MaxCounted,   \* bound: runs
  MaxPlaces,    \* bound: places of the grid
  MaxRestarts   \* bound: restarts of the controller

ASSUME CountAssumption ==
  /\ IsFiniteSet(Status) /\ Success \in Status /\ {"runs", "seconds"} \cap Status = {}
  /\ Lasts \in [Status -> Nat \ {0}]
  /\ MaxCounted \in Nat /\ MaxPlaces \in Nat /\ MaxRestarts \in Nat

VARIABLES
  counter,    \* the controller's counters
  restarts,   \* restarts left
  restarted,  \* there was one since the last sample
  passed,     \* places of the grid that have passed
  samples,    \* what Prometheus has for them
  recorded,   \* history: the runs that ended before the last sample, but for those that a
              \* restart took out of the counters before any sample
  hidden      \* history: the queries whose answer does not show every restart

countVars == <<counter, restarts, restarted, passed, samples, recorded, hidden>>

Counts == [Status -> Nat]
Zero == [s \in Status |-> 0]

\* The sum of a sequence, and that over the statuses, in some order.
SumOf(v) ==
  LET sum[n \in 0 .. Len(v)] == IF n = 0 THEN 0 ELSE sum[n - 1] + v[n]
  IN  sum[Len(v)]

Order == SetToSeq(Status)
OverStatus(f) == SumOf([i \in 1 .. Len(Order) |-> f[Order[i]]])

Runs(counts) == OverStatus(counts)
Seconds(counts) == OverStatus([s \in Status |-> counts[s] * Lasts[s]])

\* The answers to the queries: by status, of all runs, and of seconds.
ByStatus(s) == [i \in DOMAIN samples |-> samples[i].counts[s]]
AllRuns == [i \in DOMAIN samples |-> Runs(samples[i].counts)]
AllSeconds == [i \in DOMAIN samples |-> Seconds(samples[i].counts)]

CountTypeOK ==
  /\ counter \in Counts /\ recorded \in Counts
  /\ restarts \in 0 .. MaxRestarts /\ restarted \in BOOLEAN
  /\ passed \in 0 .. MaxPlaces
  /\ samples \in Seq([at : 1 .. MaxPlaces, counts : Counts \ {Zero}])
  /\ hidden \subseteq Status \cup {"runs", "seconds"}

CountInit ==
  /\ counter = Zero /\ recorded = Zero
  /\ restarts = MaxRestarts /\ restarted = FALSE
  /\ passed = 0 /\ samples = << >>
  /\ hidden = {}

-----------------------------------------------------------------------------
(***************************************************************************)
(* The controller and Prometheus.                                          *)
(***************************************************************************)

RunEnds(s) ==
  /\ Runs(recorded) + Runs(counter) < MaxCounted
  /\ counter' = [counter EXCEPT ![s] = @ + 1]
  /\ UNCHANGED <<restarts, restarted, passed, samples, recorded, hidden>>

Restart ==
  /\ restarts > 0
  /\ counter' = Zero
  /\ restarts' = restarts - 1 /\ restarted' = TRUE
  /\ UNCHANGED <<passed, samples, recorded, hidden>>

LastCounts == IF samples = << >> THEN Zero ELSE samples[Len(samples)].counts

\* A series shows a restart when it falls, or had nothing to lose.
Hides(value, last) == restarted /\ last > 0 /\ value >= last

Scrape ==
  /\ passed < MaxPlaces
  /\ passed' = passed + 1
  /\ IF counter = Zero THEN UNCHANGED <<restarted, samples, recorded, hidden>>
     ELSE /\ samples' = Append(samples, [at |-> passed', counts |-> counter])
          /\ recorded' = [s \in Status |->
               recorded[s] + counter[s] - IF restarted THEN 0 ELSE LastCounts[s]]
          /\ hidden' = hidden \cup {s \in Status : Hides(counter[s], LastCounts[s])}
               \cup {q \in {"runs"} : Hides(Runs(counter), Runs(LastCounts))}
               \cup {q \in {"seconds"} : Hides(Seconds(counter), Seconds(LastCounts))}
          /\ restarted' = FALSE
  /\ UNCHANGED <<counter, restarts>>

CountNext == Restart \/ Scrape \/ \E s \in Status : RunEnds(s)

CountSpec == CountInit /\ [][CountNext]_countVars

-----------------------------------------------------------------------------
(***************************************************************************)
(* What the cards make of the answers.  tick is the place of the grid that *)
(* matches the first tick of the axis: the first place, a later one (in    *)
(* another time zone, or by weeks), or none.                               *)
(***************************************************************************)

\* Whether the first tick is that of the first sample: what was counted before does not count.
IsMatching(tick) == samples # << >> /\ samples[1].at = tick

\* Mutant: a value that does not change counts as a fall.
ReachedTwice(v) ==
  IF v = << >> THEN 0
  ELSE v[Len(v)]
       + SumOf([i \in 1 .. Len(v) - 1 |-> IF v[i + 1] <= v[i] THEN v[i] ELSE 0])

\* The sum of what was reached before each fall, and of the last value.
Reached(v) ==
  IF v = << >> THEN 0
  ELSE v[Len(v)]
       + SumOf([i \in 1 .. Len(v) - 1 |-> IF v[i + 1] < v[i] THEN v[i] ELSE 0])

GetTotal(v, tick) == Reached(v) - IF IsMatching(tick) THEN v[1] ELSE 0

GetTotalPipelineRuns(tick) == GetTotal(AllRuns, tick)
GetTotalPipelineRunsDuration(tick) == GetTotal(AllSeconds, tick)

\* metricsToSummary: what each sample adds, the first all it has.
MetricsToSummary ==
  LET v == AllRuns
      previous(i) == IF i > 1 THEN v[i - 1] ELSE 0
  IN  [i \in DOMAIN samples |-> IF v[i] < previous(i) THEN v[i] ELSE v[i] - previous(i)]

\* getIncrementedValues: the same by status; of the first sample nothing if the first tick is
\* that of any sample.
GetIncrementedValues(s, tick) ==
  LET v == ByStatus(s)
      first == IF \E j \in DOMAIN samples : samples[j].at = tick THEN 0 ELSE v[1]
  IN  [i \in DOMAIN samples |->
         IF i = 1 THEN first
         ELSE IF v[i] >= v[i - 1] THEN v[i] - v[i - 1] ELSE v[i]]

GetStatusSummary(s, tick) == SumOf(GetIncrementedValues(s, tick))

\* The bars of the average duration, as a quotient, when only the first n of the samples were
\* there as the seconds were read.
AverageDuration(i, n) ==
  LET r == AllRuns
      d == [j \in DOMAIN samples |-> IF j <= n THEN AllSeconds[j] ELSE 0]
  IN  IF i = 1 \/ d[i] < d[i - 1] \/ r[i] < r[i - 1] THEN <<d[i], r[i]>>
      ELSE <<d[i] - d[i - 1], r[i] - r[i - 1]>>

-----------------------------------------------------------------------------
(***************************************************************************)
(* Properties.                                                             *)
(***************************************************************************)

\* However often the controller restarts, the total cards and the bars count every recorded run
\* once, from the first tick on, when the sums they read show the restarts.
TotalsAccount ==
  \A tick \in 0 .. MaxPlaces :
    LET before == IF IsMatching(tick) THEN samples[1].counts ELSE Zero
    IN  /\ "runs" \notin hidden =>
             /\ GetTotalPipelineRuns(tick) + Runs(before) = Runs(recorded)
             /\ SumOf(MetricsToSummary) = Runs(recorded)
        /\ "seconds" \notin hidden =>
             GetTotalPipelineRunsDuration(tick) + Seconds(before) = Seconds(recorded)

\* The donut shows no more successes than runs, although it counts them by another query and
\* in another way, and its statuses add up to the total where that shows as many restarts and
\* the first tick is not that of a later sample.
StatusesWithinTotal ==
  \A tick \in 0 .. MaxPlaces : "runs" \notin hidden =>
    /\ GetStatusSummary(Success, tick) <= GetTotalPipelineRuns(tick)
    /\ hidden \subseteq {"seconds"} /\ (tick # 0 => samples = << >> \/ tick <= samples[1].at) =>
         OverStatus([s \in Status |-> GetStatusSummary(s, tick)]) = GetTotalPipelineRuns(tick)

Plausible(q) ==
  q[1] = 0 \/ \E s, t \in Status : q[2] * Lasts[s] <= q[1] /\ q[1] <= q[2] * Lasts[t]

\* An average is zero or lies between the shortest and the longest run, even if the seconds were
\* read earlier than the counts, when one of the two shows a restart.
AveragesPlausible ==
  /\ ~{"runs", "seconds"} \subseteq hidden =>
       \A i \in DOMAIN samples, n \in 0 .. Len(samples) : Plausible(AverageDuration(i, n))
  /\ {"runs", "seconds"} \cap hidden = {} => \A tick \in 0 .. MaxPlaces :
       Plausible(<<GetTotalPipelineRunsDuration(tick), GetTotalPipelineRuns(tick)>>)

\* However often the controller restarts, what the cards compute from the samples accounts for
\* every recorded run; there is none without a sample.
NumbersAddUp ==
  IF samples = << >> THEN recorded = Zero
  ELSE TotalsAccount /\ StatusesWithinTotal /\ AveragesPlausible
=============================================================================
