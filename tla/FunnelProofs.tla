----------------------------- MODULE FunnelProofs -----------------------------
(***************************************************************************)
(* Facts about one iteration of the backfill loop and about the donut     *)
(* percentage, for every count of results.  What the whole loop computes *)
(* (Counts, a recursive function over the results) needs induction over  *)
(* the results and stays with TLC (runs funnel, donuts_empty_campaign).   *)
(***************************************************************************)
EXTENDS Funnel, TLAPS

\* The funnel never widens: an earlier stage counts at least a later one.
Monotone(c) == \A i, j \in Levels : i < j => c[i] >= c[j]

(* progressListing.indexOf(status) + 1 is 0 or a stage level.              *)
LEMMA StepRange == ASSUME NEW s PROVE Step(s) \in 0..5
<1>1. Levels = 1..5
    BY DEF Levels, ProgressListing
<1>2. CASE \E k \in Levels : ProgressListing[k] = s
    BY <1>1, <1>2 DEF Step
<1>3. CASE ~\E k \in Levels : ProgressListing[k] = s
    BY <1>3 DEF Step
<1>4. QED
    BY <1>2, <1>3

(* One iteration adds at most one to each stage's count: after n results  *)
(* every count lies in 0..n.                                               *)
THEOREM AddResultBounded ==
    ASSUME NEW n \in Nat, NEW c \in [Levels -> 0..n], NEW s
    PROVE  AddResult(c, s) \in [Levels -> 0..(n + 1)]
BY StepRange DEF AddResult

(* The backfill of one result keeps the funnel monotone: a result at stage *)
(* Step(s) is counted at that stage and at every earlier one, never at a  *)
(* later one without the earlier ones (spec 3, 8).                          *)
THEOREM AddResultMonotone ==
    ASSUME NEW c \in [Levels -> Int], Monotone(c), NEW s
    PROVE  Monotone(AddResult(c, s))
<1> SUFFICES ASSUME NEW i \in Levels, NEW j \in Levels, i < j
             PROVE  AddResult(c, s)[i] >= AddResult(c, s)[j]
    BY DEF Monotone
<1>1. Step(s) \in Int /\ Levels \subseteq Int
    BY StepRange DEF Levels, ProgressListing
<1>2. c[i] >= c[j]
    BY DEF Monotone
<1>3. /\ AddResult(c, s)[i] = IF i <= Step(s) THEN c[i] + 1 ELSE c[i]
      /\ AddResult(c, s)[j] = IF j <= Step(s) THEN c[j] + 1 ELSE c[j]
    BY DEF AddResult
<1>4. QED
    BY <1>1, <1>2, <1>3

(* Math.floor(count / total * 100) of a count within a non-empty total is  *)
(* a percentage, and so is the remainder slice 100 - y.                    *)
THEOREM PercentRange ==
    ASSUME NEW total \in Nat \ {0}, NEW count \in 0..total
    PROVE  /\ Percent(count, total) \in 0..100
           /\ 100 - Percent(count, total) \in 0..100
<1>1. (count * 100) \div total \in 0..100
    <2>1. count * 100 <= total * 100
        BY SMT
    <2>2. QED
        BY <2>1, SMT
<1>2. QED
    BY <1>1 DEF Percent
====
