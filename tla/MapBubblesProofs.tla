--------------------------- MODULE MapBubblesProofs ---------------------------
(***************************************************************************)
(* The loop body of updateMap() (campaign_results.js), for every set of   *)
(* IPs and locations: the bubbles the loop pushes have no ip property, so *)
(* the search `bubble.ip == result.ip` never hits and every drawn result  *)
(* pushes a bubble of its own.  The map_bubbles run shows the consequence *)
(* on small lists; these theorems show it for all of them.                *)
(***************************************************************************)
EXTENDS MapBubbles, SequenceTheorems, TLAPS

\* The bubbles the loop builds: location, name and radius, no ip.
Bubble == [geo: Geos, name: IPs, radius: Nat]

(* A result at 0,0 (an internal IP) leaves the bubbles as they are.       *)
LEMMA InternalSkipped ==
    ASSUME NEW b, NEW r, Internal(r)
    PROVE  AddBubble(b, r) = b
BY DEF AddBubble

(* No bubble of the loop has an ip, so none is the same IP as a result.    *)
LEMMA NoBubbleHasIP ==
    ASSUME NEW bubble \in Bubble, NEW r
    PROVE  ~SameIP(bubble, r)
BY DEF Bubble, SameIP

(* Every drawn result, whatever bubbles were built before it, pushes a     *)
(* new bubble of radius 2 at its own location: the search of bubbles for  *)
(* result.ip (line 371) never finds one, and the bubbles stay bubbles.     *)
THEOREM NeverMerges ==
    ASSUME NEW b \in Seq(Bubble), NEW r \in Result, ~Internal(r)
    PROVE  /\ AddBubble(b, r) = Append(b, NewBubble(r))
           /\ AddBubble(b, r) \in Seq(Bubble)
<1>1. \A i \in DOMAIN b : ~SameIP(b[i], r)
    <2>1. \A i \in DOMAIN b : b[i] \in Bubble
        BY LenProperties
    <2>2. QED
        BY <2>1, NoBubbleHasIP
<1>2. AddBubble(b, r) = Append(b, NewBubble(r))
    BY <1>1 DEF AddBubble
<1>3. NewBubble(r) \in Bubble
    BY DEF NewBubble, Bubble, Result
<1>4. QED
    BY <1>2, <1>3, AppendProperties

(* So a drawn result whose IP already has a bubble gives that IP a second *)
(* bubble, of radius 2, and the first one does not grow: two results of   *)
(* one IP are drawn as two markers of equal weight, not one of double     *)
(* weight as the grouping of spec 4.2 step 4 asks.                         *)
THEOREM RepeatedIPDrawnTwice ==
    ASSUME NEW b \in Seq(Bubble), NEW r \in Result, ~Internal(r),
           NEW i \in DOMAIN b, b[i].name = r.ip
    PROVE  LET c == AddBubble(b, r)
           IN  /\ Len(b) + 1 \in DOMAIN c
               /\ i # Len(b) + 1
               /\ c[i] = b[i]
               /\ c[Len(b) + 1].name = c[i].name
               /\ c[Len(b) + 1].radius = 2
<1>1. AddBubble(b, r) = Append(b, NewBubble(r))
    BY NeverMerges
<1>2. /\ Len(b) \in Nat
      /\ DOMAIN b = 1..Len(b)
    BY LenProperties
<1>3. NewBubble(r) \in Bubble
    BY DEF NewBubble, Bubble, Result
<1>4. /\ DOMAIN Append(b, NewBubble(r)) = 1..Len(b) + 1
      /\ Append(b, NewBubble(r))[i] = b[i]
      /\ Append(b, NewBubble(r))[Len(b) + 1] = NewBubble(r)
    BY <1>2, <1>3, AppendProperties, LenProperties
<1>5. QED
    BY <1>1, <1>2, <1>4 DEF NewBubble
====
