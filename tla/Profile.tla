------------------------------ MODULE Profile -------------------------------
(***************************************************************************)
(* Measures of elapsed time (src/profile.c): mm_tic() begins an iteration, *)
(* each mm_toc() adds a point of measure, and statistics are kept of the   *)
(* time between consecutive points.                                        *)
(*                                                                         *)
(* The state is static and for one thread. One step is one call. Values    *)
(* are in the unit of the clock, a second having SEC_IN_NSEC of them; the  *)
(* layout of the printed table is left out. mm_toc() is called within an   *)
(* iteration.                                                              *)
(***************************************************************************)
EXTENDS Integers, Sequences, FiniteSets, SequencesExt, FiniteSetsExt

CONSTANTS
    SEC_IN_NSEC,
    NUM_TS_MAX,
    STEP_NEED_INIT, \* INT64_MAX, larger than any measure
    MaxClock,       \* bound of the clock
    Delays,         \* time between two readings of the clock
    Overheads,      \* what estimate_toc_overhead() may find
    MaxPrints,      \* bound: results printed between two resets
    Labels,         \* labels given to mm_toc_label(), none empty
    KeepsUnlabelled \* may labels be kept over a reset when there are none

ASSUME ProfileAssumption ==
    /\ SEC_IN_NSEC \in Nat \ {0} /\ NUM_TS_MAX \in Nat \ {0, 1}
    /\ MaxClock \in Nat /\ STEP_NEED_INIT \in Nat /\ STEP_NEED_INIT > MaxClock + SEC_IN_NSEC
    /\ Delays \subseteq Nat \ {0} /\ Overheads \subseteq Nat

VARIABLES
    num_ts, next_ts, num_iter, toc_overhead,
    timestamps,     \* tv_sec and tv_nsec
    stats,          \* min, max, sum and the estimator of the median, by point
    labels,         \* "null" if none
    profClock,      \* the clock
    iters,          \* history: the durations of each iteration since the reset
    wasReset,       \* history: mm_profile_reset() has been called
    labelled,       \* history: the first label given to a point
    results         \* what was printed since the reset: the table, by point, and
                    \* as history the iterations it is of

profVars == <<num_ts, next_ts, num_iter, toc_overhead, timestamps, stats,
              labels, profClock, iters, wasReset, labelled, results>>

Slots == 0 .. NUM_TS_MAX - 1
Abs(x) == IF x > 0 THEN x ELSE -x

\* Division of C, towards zero.
Quot(x, y) == IF x >= 0 THEN x \div y ELSE -((-x) \div y)

-----------------------------------------------------------------------------
median_estimator_init == [median |-> 0, step |-> STEP_NEED_INIT]

median_estimator_update(me, data) ==
    LET diff == data - me.median
    IN  IF me.step = STEP_NEED_INIT
        THEN [median |-> data, step |-> Max({Abs(Quot(data, 2)), SEC_IN_NSEC})]
        ELSE [median |-> IF diff > 0 THEN me.median + me.step
                         ELSE IF diff < 0 THEN me.median - me.step ELSE me.median,
              step |-> IF Abs(diff) < me.step THEN me.step \div 2
                       ELSE me.step + Max({me.step \div 16, 1})]

get_diff_ts(i) ==
    (timestamps[i].tv_sec - timestamps[i - 1].tv_sec) * SEC_IN_NSEC
        + timestamps[i].tv_nsec - timestamps[i - 1].tv_nsec - toc_overhead

NoStats == [min |-> STEP_NEED_INIT, max |-> 0, sum |-> 0,
            median |-> median_estimator_init]

\* The statistics with the differences before the first n points added.
Counted(n) ==
    [i \in Slots |->
        LET diff == get_diff_ts(i)
        IN  IF i \in 1 .. n - 1
            THEN [min |-> Min({diff, stats[i].min}),
                  max |-> Max({diff, stats[i].max}),
                  sum |-> stats[i].sum + diff,
                  median |-> median_estimator_update(stats[i].median, diff)]
            ELSE stats[i]]

\* Mutant of update_diffs: points of an earlier, longer iteration count again.
update_diffs_AllPoints == Counted(num_ts)

update_diffs == Counted(next_ts)

reset_diffs ==
    /\ next_ts' = 0 /\ num_ts' = 0 /\ num_iter' = 0
    /\ stats' = [i \in Slots |-> NoStats]

-----------------------------------------------------------------------------
\* Static variables: the least value begins as 0 too.
ZeroStats == [min |-> 0, max |-> 0, sum |-> 0, median |-> [median |-> 0, step |-> 0]]

NoLabels == [i \in Slots |-> "null"]

ProfInit ==
    /\ num_ts = 0 /\ next_ts = 0 /\ num_iter = 0
    /\ toc_overhead = 0
    /\ timestamps = [i \in Slots |-> [tv_sec |-> 0, tv_nsec |-> 0]]
    /\ stats = [i \in Slots |-> ZeroStats]
    /\ labels = NoLabels /\ wasReset = FALSE
    /\ profClock = 0 /\ iters = <<>> /\ labelled = NoLabels /\ results = <<>>

\* The clock is read at time t; the last slot is never used.
local_toc(slot, t) ==
    IF slot = NUM_TS_MAX - 1
    THEN next_ts' = slot /\ UNCHANGED <<timestamps, num_ts>>
    ELSE /\ timestamps' = [timestamps EXCEPT ![slot] =
                [tv_sec |-> t \div SEC_IN_NSEC, tv_nsec |-> t % SEC_IN_NSEC]]
         /\ num_ts' = Max({num_ts, slot + 1})
         /\ next_ts' = slot + 1

Time(t) ==
    /\ t \in {profClock + d : d \in Delays} /\ t <= MaxClock
    /\ profClock' = t

mm_tic ==
    /\ stats' = update_diffs
    /\ num_iter' = num_iter + 1
    /\ \E t \in 0 .. MaxClock : Time(t) /\ local_toc(0, t)
    /\ iters' = Append(iters, <<>>)
    /\ UNCHANGED <<toc_overhead, labels, wasReset, labelled, results>>

\* A point of measure, whose duration the history keeps if there is a slot.
Toc ==
    /\ num_iter > 0
    /\ \E t \in 0 .. MaxClock :
        /\ Time(t) /\ local_toc(next_ts, t)
        /\ iters' = IF next_ts = NUM_TS_MAX - 1 THEN iters
                    ELSE [iters EXCEPT ![Len(iters)] = Append(@, t - profClock)]
    /\ UNCHANGED <<num_iter, toc_overhead, stats, wasReset, results>>

mm_toc == Toc /\ UNCHANGED <<labels, labelled>>

mm_toc_label(label) ==
    /\ Toc
    /\ labels' = IF labels[next_ts] = "null"
                 THEN [labels EXCEPT ![next_ts] = label] ELSE labels
    /\ labelled' = IF labelled[next_ts] = "null"
                THEN [labelled EXCEPT ![next_ts] = label] ELSE labelled

\* The columns of one point: what the statistics are at that moment, and the
\* difference of the two timestamps, of whichever iterations they are.
compute_requested_timings(s) ==
    [i \in 1 .. num_ts - 1 |->
        [curr |-> get_diff_ts(i), min |-> s[i].min, max |-> s[i].max, mean |-> Quot(s[i].sum, num_iter),
         median |-> s[i].median.median, label |-> labels[i]]]

\* The statistics are brought up to date by the call, and again by the next one.
mm_profile_print ==
    /\ num_ts > 0 /\ Len(results) < MaxPrints
    /\ stats' = update_diffs
    /\ results' = Append(results,
                    [table |-> compute_requested_timings(update_diffs),
                     iters |-> iters])
    /\ UNCHANGED <<num_ts, next_ts, num_iter, toc_overhead, timestamps, labels,
                   profClock, iters, wasReset, labelled>>

\* estimate_toc_overhead() measures two points a thousand times, and labels
\* with "" those that have no label.
Estimated ==
    [i \in Slots |-> IF i \in {1, 2} /\ labels[i] = "null" THEN "" ELSE labels[i]]

mm_profile_reset(keep) ==
    /\ keep => KeepsUnlabelled \/ \A i \in {1, 2} : labels[i] # "null"
    /\ reset_diffs /\ wasReset' = TRUE
    /\ toc_overhead' \in Overheads
    /\ labels' = IF keep THEN Estimated ELSE [NoLabels EXCEPT ![0] = ""]
    /\ labelled' = IF keep THEN labelled ELSE NoLabels
    /\ iters' = <<>> /\ results' = <<>>
    /\ UNCHANGED <<timestamps, profClock>>

ProfNext ==
    \/ mm_tic \/ mm_toc \/ mm_profile_print
    \/ \E l \in Labels : mm_toc_label(l)
    \/ \E keep \in BOOLEAN : mm_profile_reset(keep)

-----------------------------------------------------------------------------
\* The durations measured at a point by the iterations of its.
MeasuredAt(its, i) ==
    {its[k][i] - toc_overhead : k \in {j \in DOMAIN its : i <= Len(its[j])}}
SumAt(its, i) ==
    LET sum[k \in 0 .. Len(its)] ==
            IF k = 0 THEN 0 ELSE sum[k - 1] + its[k][i] - toc_overhead
    IN  sum[Len(its)]

(***************************************************************************)
(* The statistics are those of the time between the points, of all the     *)
(* iterations since the reset and of no other, although iterations differ  *)
(* in their number of points, timestamps of earlier ones stay in the array *)
(* and a print in the middle of an iteration counts it before its end      *)
(* (mm_tic(), update_diffs(), mm_profile_print()). The first result that   *)
(* is printed also has the mean of the points that every iteration has;    *)
(* the least value and the median are right once there has been a reset,   *)
(* the estimated median where all the times of the point are equal.        *)
(* PROF_CURR is the time of the current iteration for the points it has    *)
(* reached; of the other points, which mm_profile_print() prints too,      *)
(* nothing is said: their timestamps are of earlier iterations, and the    *)
(* first of them is compared with one of this iteration.                   *)
(* Labels are the first ones given, also over a reset that keeps them.     *)
(***************************************************************************)
ProfileTellsTimes ==
    /\ \A k \in DOMAIN results : \A i \in DOMAIN results[k].table :
        LET row == results[k].table[i]
            its == results[k].iters
            last == its[Len(its)]
        IN  /\ i <= Len(last) => row.curr = last[i] - toc_overhead
            /\ wasReset => /\ row.min = Min(MeasuredAt(its, i))
                           /\ \A v \in MeasuredAt(its, i) :
                                MeasuredAt(its, i) = {v} => row.median = v
            /\ row.max = Max(MeasuredAt(its, i) \cup {0})
            /\ (k = 1 /\ \A j \in DOMAIN its : i <= Len(its[j])) =>
                    row.mean = Quot(SumAt(its, i), Len(its))
    /\ \A i \in Slots : labelled[i] # "null" => labels[i] = labelled[i]
=============================================================================
