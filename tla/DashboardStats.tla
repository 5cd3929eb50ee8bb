--------------------------- MODULE DashboardStats ---------------------------
(***************************************************************************)
(* The stats pies of dashboard.js: generateStatsPieCharts sums the stats *)
(* of every campaign of GET /campaigns/summary into one pie per stage,    *)
(* each a share of the summed total and its remainder.                    *)
(***************************************************************************)
EXTENDS Integers, Sequences

CONSTANTS
    MaxCampaigns,   \* bound on the number of campaigns
    MaxTargets,     \* bound on stats.total of a campaign
    NaN             \* the JavaScript NaN of 0 / 0

ASSUME DashboardAssumption == MaxCampaigns \in Nat /\ MaxTargets \in Nat

VARIABLE campaigns   \* the stats of data.campaigns, in order

\* The keys of statsMapping: the stages a pie is drawn for.
StatsKeys == {"active", "mount", "macro", "exec"}

\* campaign.stats as the backend reports it: the number of results and, per
\* stage, the results at that stage or beyond (the funnel of the results
\* page), so total >= active >= mount >= macro >= exec.
Stats ==
    {s \in [total: 0..MaxTargets, active: 0..MaxTargets, mount: 0..MaxTargets,
            macro: 0..MaxTargets, exec: 0..MaxTargets] :
        s.total >= s.active /\ s.active >= s.mount /\ s.mount >= s.macro
        /\ s.macro >= s.exec}

\* Mutant of AddStats: `total = count` for "total" instead of `+=`.
AddStatsAssignTotal(acc, s) ==
    [total |-> s.total,
     series |-> [k \in StatsKeys |->
                   IF acc.series[k] = 0 THEN s[k] ELSE acc.series[k] + s[k]]]

\* Mutant of AddStats: `stats_series_data[status] = count` for every campaign.
AddStatsOverwrite(acc, s) ==
    [total |-> acc.total + s.total,
     series |-> [k \in StatsKeys |-> s[k]]]

\* One campaign of the outer $.each: "total" is added to total; another
\* status is stored when stats_series_data[status] is falsy (absent or 0),
\* else added to it.
AddStats(acc, s) ==
    [total |-> acc.total + s.total,
     series |-> [k \in StatsKeys |->
                   IF acc.series[k] = 0 THEN s[k] ELSE acc.series[k] + s[k]]]

\* total and stats_series_data after the loop over cs.
SumStats(cs) ==
    LET f[n \in 0..Len(cs)] ==
            IF n = 0 THEN [total |-> 0, series |-> [k \in StatsKeys |-> 0]]
            ELSE AddStats(f[n - 1], cs[n])
    IN  f[Len(cs)]

\* Math.floor((count / total) * 100), NaN on 0 / 0.
Share(count, total) == IF total = 0 THEN NaN ELSE (count * 100) \div total

\* The pie of each stage: its share and the remainder 100 - share.
Pies(cs) ==
    LET acc == SumStats(cs)
    IN  [k \in StatsKeys |->
           LET y == Share(acc.series[k], acc.total)
           IN  <<y, IF y = NaN THEN NaN ELSE 100 - y>>]

Init == campaigns \in UNION {[1..n -> Stats] : n \in 1..MaxCampaigns}

\* The charts are a pure function of the summary: nothing else changes.
Next == UNCHANGED campaigns

Spec == Init /\ [][Next]_campaigns

-----------------------------------------------------------------------------
(* The summed pies: total is the sum of the campaigns' totals and each     *)
(* stage's count the sum of that stage over all campaigns, whatever the    *)
(* order of the campaigns and the zero counts among them.                  *)
SeriesMatchReference ==
    LET acc == SumStats(campaigns)
        Sum[n \in 0..Len(campaigns), k \in StatsKeys \cup {"total"}] ==
            IF n = 0 THEN 0 ELSE Sum[n - 1, k] + campaigns[n][k]
    IN  /\ acc.total = Sum[Len(campaigns), "total"]
        /\ \A k \in StatsKeys : acc.series[k] = Sum[Len(campaigns), k]

(* Every pie of the summed stats is a percentage pair in 0..100 summing  *)
(* to 100 whenever some campaign has a target: the per-stage sums of all  *)
(* campaigns never exceed the sum of their totals.  (With total 0 the    *)
(* slices are NaN, the same 0 / 0 as the results page's donuts.)          *)
PiesWellFormed ==
    SumStats(campaigns).total > 0 =>
        \A k \in StatsKeys :
            /\ Pies(campaigns)[k][1] \in 0..100
            /\ Pies(campaigns)[k][1] + Pies(campaigns)[k][2] = 100
====
