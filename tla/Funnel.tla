------------------------------- MODULE Funnel -------------------------------
(***************************************************************************)
(* The per-stage "funnel" of the campaign results page: the backfill loop *)
(* that poll() and load() of campaign_results.js run over                 *)
(* campaign.results to fill target_series_data, and the two-slice donut  *)
(* each stage chart is given.  A result is reduced to its status string. *)
(***************************************************************************)
EXTENDS Integers, Sequences, FiniteSets

CONSTANTS
    MaxResults,   \* bound on the number of results in a campaign
    NaN           \* the JavaScript NaN of 0 / 0

ASSUME FunnelAssumption == MaxResults \in Nat

VARIABLE results   \* the statuses of campaign.results, in order

\* progressListing: the ordered stages; its strings are the keys of statusMapping.
ProgressListing == <<"Active", "USB Mounted", "Opened Macro",
                     "Opened Executable", "Opened Everything">>
Levels == 1..Len(ProgressListing)

\* The statuses a result may carry: the stages and the two others.
ResultStatus == {ProgressListing[k] : k \in Levels} \cup {"Unknown", "Campaign Created"}

\* progressListing.indexOf(status) + 1: the 1-based stage, 0 when not a stage.
Step(s) == IF \E k \in Levels : ProgressListing[k] = s
              THEN CHOOSE k \in Levels : ProgressListing[k] = s
              ELSE 0

\* Mutant of AddResult: the own stage not counted.
AddResultNoSelf(c, s) == [k \in Levels |-> IF k < Step(s) THEN c[k] + 1 ELSE c[k]]

\* One iteration of the loop: target_series_data[result.status]++ and the
\* backfill of every earlier stage (for i < step).
AddResult(c, s) == [k \in Levels |-> IF k <= Step(s) THEN c[k] + 1 ELSE c[k]]

\* target_series_data after the loop over rs, per stage level.
Counts(rs) ==
    LET f[n \in 0..Len(rs)] ==
            IF n = 0 THEN [k \in Levels |-> 0] ELSE AddResult(f[n - 1], rs[n])
    IN  f[Len(rs)]

\* Math.floor((count / campaign.results.length) * 100), NaN on 0 / 0.
Percent(count, total) == IF total = 0 THEN NaN ELSE (count * 100) \div total

\* The donut of every stage but "Opened Everything": the stage's slice and
\* the remainder slice 100 - y.
Donuts(rs) ==
    [k \in 1..(Len(ProgressListing) - 1) |->
        LET y == Percent(Counts(rs)[k], Len(rs))
        IN  <<y, IF y = NaN THEN NaN ELSE 100 - y>>]

Init == results \in UNION {[1..n -> ResultStatus] : n \in 0..MaxResults}

\* The aggregation is a pure function of the results: nothing else changes.
Next == UNCHANGED results

Spec == Init /\ [][Next]_results

-----------------------------------------------------------------------------
(* The backfill loop counts, for each stage, the results at that stage or *)
(* beyond it; "Unknown" and "Campaign Created" count nowhere (spec 4.1).   *)
CountsMatchReference ==
    \A k \in Levels :
        Counts(results)[k] = Cardinality({i \in 1..Len(results) : Step(results[i]) >= k})

(* Every donut gets two percentages in 0..100 summing to 100, also for a   *)
(* campaign without results (spec 4.1: percent 0, no division error).      *)
DonutsWellFormed ==
    \A k \in DOMAIN Donuts(results) :
        /\ Donuts(results)[k][1] \in 0..100
        /\ Donuts(results)[k][1] + Donuts(results)[k][2] = 100
=============================================================================
