------------------------- MODULE DashboardStatsProofs -------------------------
(***************************************************************************)
(* Facts about one campaign of the loop of generateStatsPieCharts and     *)
(* about the pie shares, for every size of campaign.  What the whole loop *)
(* computes (SumStats, a recursive function over the campaigns) needs     *)
(* induction over the list and stays with TLC (run dashboard_stats).      *)
(***************************************************************************)
EXTENDS DashboardStats, TLAPS

USE DashboardAssumption

\* The accumulator of the loop: total and stats_series_data.
Acc == [total: Nat, series: [StatsKeys -> Nat]]

\* Every stage's count is within the total.
WithinTotal(acc) == \A k \in StatsKeys : acc.series[k] <= acc.total

(* A campaign's stats are naturals, each stage within the total.           *)
LEMMA StatsElim ==
    ASSUME NEW s \in Stats
    PROVE  /\ s.total \in Nat
           /\ \A k \in StatsKeys : s[k] \in Nat /\ s[k] <= s.total
BY DEF Stats, StatsKeys

(* The test `!stats_series_data[status]` is harmless: storing count over a *)
(* stored 0 is the same as adding it, so every stage's sum is the plain   *)
(* sum of the campaigns' counts.                                           *)
THEOREM AddStatsIsSum ==
    ASSUME NEW acc \in Acc, NEW s \in Stats
    PROVE  /\ AddStats(acc, s) \in Acc
           /\ AddStats(acc, s).total = acc.total + s.total
           /\ \A k \in StatsKeys : AddStats(acc, s).series[k] = acc.series[k] + s[k]
<1>1. \A k \in StatsKeys :
          (IF acc.series[k] = 0 THEN s[k] ELSE acc.series[k] + s[k]) = acc.series[k] + s[k]
    BY StatsElim DEF Acc
<1>2. QED
    BY <1>1, StatsElim DEF AddStats, Acc

(* Adding a campaign keeps every stage's sum within the summed total.      *)
THEOREM AddStatsWithinTotal ==
    ASSUME NEW acc \in Acc, WithinTotal(acc), NEW s \in Stats
    PROVE  WithinTotal(AddStats(acc, s))
BY AddStatsIsSum, StatsElim DEF WithinTotal, Acc

(* The floor of count / total * 100 for a count within a non-empty total. *)
LEMMA FloorPercent ==
    ASSUME NEW t \in Nat \ {0}, NEW c \in 0..t
    PROVE  (c * 100) \div t \in 0..100
<1>1. c * 100 <= t * 100
    BY SMT
<1>2. QED
    BY <1>1, SMT

(* With some target, every pie drawn from sums within the total is a       *)
(* share in 0..100 and its remainder slice completes it to 100.           *)
THEOREM PieShares ==
    ASSUME NEW acc \in Acc, WithinTotal(acc), acc.total > 0, NEW k \in StatsKeys
    PROVE  /\ Share(acc.series[k], acc.total) \in 0..100
           /\ Share(acc.series[k], acc.total) + (100 - Share(acc.series[k], acc.total)) = 100
<1>1. acc.series[k] \in 0..acc.total /\ acc.total \in Nat \ {0}
    BY DEF WithinTotal, Acc
<1>3. (acc.series[k] * 100) \div acc.total \in 0..100
    BY <1>1, FloorPercent
<1>4. QED
    BY <1>1, <1>3 DEF Share
====
