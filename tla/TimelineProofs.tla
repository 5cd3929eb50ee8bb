---------------------------- MODULE TimelineProofs ----------------------------
(***************************************************************************)
(* The loop body of renderTimeline() (campaign_results.js), proved for    *)
(* every set of hostnames and every timeline: an iteration lists the      *)
(* event exactly when it is campaign-level or the row's own, after every  *)
(* event listed before, and an event whose message has no statuses entry *)
(* ends the loop with the TypeError for good.                             *)
(***************************************************************************)
EXTENDS Timeline, SequenceTheorems, TLAPS

\* The events listed after the first m iterations for the row of hostname h:
\* positions among the first m, each of an event the row shows, in
\* timeline order.
Ordered(acc, tl, m, h) ==
    /\ acc \in Seq(1..m)
    /\ \A i \in 1..Len(acc) : Matches(tl[acc[i]], h)
    /\ \A i, j \in 1..Len(acc) : i < j => acc[i] < acc[j]

(* Once statuses[event.message].label has thrown, no later event of the   *)
(* timeline is rendered: the exception has left the handler.               *)
LEMMA ErrorSticky ==
    ASSUME NEW tl, NEW n, NEW h
    PROVE  RenderStep(TypeError, tl, n, h) = TypeError
BY DEF RenderStep

(* One iteration of $.each(campaign.timeline) on the events listed so far *)
(* for the row of hostname h: an event the row shows whose message has no *)
(* statuses entry throws; otherwise the event is appended exactly when the *)
(* row shows it, and the list stays in timeline order.                     *)
THEOREM RenderStepOrdered ==
    ASSUME NEW tl \in Seq(Event), NEW h, NEW n \in 1..Len(tl),
           NEW acc, acc # TypeError, Ordered(acc, tl, n - 1, h)
    PROVE  IF Matches(tl[n], h) /\ tl[n].message \notin Statuses
           THEN RenderStep(acc, tl, n, h) = TypeError
           ELSE /\ RenderStep(acc, tl, n, h) =
                       IF Matches(tl[n], h) THEN Append(acc, n) ELSE acc
                /\ Ordered(RenderStep(acc, tl, n, h), tl, n, h)
<1>0. /\ n \in Nat \ {0}
      /\ acc \in Seq(1..n - 1)
      /\ Seq(1..n - 1) \subseteq Seq(1..n)
    <2>1. n \in Nat \ {0} /\ (1..n - 1) \subseteq (1..n)
        BY LenProperties
    <2>2. QED
        BY <2>1, SeqMonotonic DEF Ordered
<1>1. CASE Matches(tl[n], h) /\ tl[n].message \notin Statuses
    BY <1>1 DEF RenderStep
<1>2. CASE ~Matches(tl[n], h)
    <2>1. RenderStep(acc, tl, n, h) = acc
        BY <1>2 DEF RenderStep
    <2>2. Ordered(acc, tl, n, h)
        BY <1>0 DEF Ordered
    <2>3. QED
        BY <1>2, <2>1, <2>2
<1>3. CASE Matches(tl[n], h) /\ tl[n].message \in Statuses
    <2>1. RenderStep(acc, tl, n, h) = Append(acc, n)
        BY <1>3 DEF RenderStep
    <2>2. /\ Append(acc, n) \in Seq(1..n)
          /\ Len(Append(acc, n)) = Len(acc) + 1
          /\ \A i \in 1..Len(acc) : Append(acc, n)[i] = acc[i]
          /\ Append(acc, n)[Len(acc) + 1] = n
        BY <1>0, AppendProperties
    <2>3. /\ Len(acc) \in Nat
          /\ \A i \in 1..Len(acc) : acc[i] \in 1..n - 1
        BY <1>0, LenProperties
    <2>4. Ordered(Append(acc, n), tl, n, h)
        <3>1. \A i \in 1..Len(Append(acc, n)) : Matches(tl[Append(acc, n)[i]], h)
            BY <1>3, <2>2, <2>3 DEF Ordered
        <3>2. \A i, j \in 1..Len(Append(acc, n)) :
                  i < j => Append(acc, n)[i] < Append(acc, n)[j]
            <4> SUFFICES ASSUME NEW i \in 1..Len(Append(acc, n)),
                                NEW j \in 1..Len(Append(acc, n)), i < j
                         PROVE  Append(acc, n)[i] < Append(acc, n)[j]
                OBVIOUS
            <4>1. i \in 1..Len(acc)
                BY <2>2, <2>3
            <4>2. CASE j = Len(acc) + 1
                BY <2>2, <2>3, <4>1, <4>2
            <4>3. CASE j \in 1..Len(acc)
                <5>1. acc[i] < acc[j]
                    BY <4>1, <4>3 DEF Ordered
                <5>2. QED
                    BY <2>2, <4>1, <4>3, <5>1
            <4>4. QED
                BY <2>2, <2>3, <4>2, <4>3
        <3>3. QED
            BY <2>2, <3>1, <3>2 DEF Ordered
    <2>5. QED
        BY <1>3, <2>1, <2>4
<1>4. QED
    BY <1>1, <1>2, <1>3
====
