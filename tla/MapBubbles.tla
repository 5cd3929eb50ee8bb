----------------------------- MODULE MapBubbles -----------------------------
(***************************************************************************)
(* updateMap() of campaign_results.js: the bubbles drawn on the world map *)
(* are rebuilt from campaign.results on every poll.  A result is reduced  *)
(* to its IP and its geolocation; a bubble to the IP it names, the        *)
(* location it is drawn at and its radius.                                *)
(***************************************************************************)
EXTENDS Integers, Sequences, FiniteSets

CONSTANTS
    IPs,          \* result.ip values
    Geos,         \* result.latitude / result.longitude pairs
    Zero,         \* the pair latitude 0, longitude 0 (internal address)
    MaxResults    \* bound on the number of results

VARIABLE results   \* campaign.results, in order

Result == [ip: IPs, geo: Geos]

\* result.latitude == 0 && result.longitude == 0: an internal IP, not drawn.
Internal(r) == r.geo = Zero

\* The bubble pushed for a result: its location, name: result.ip and
\* radius 2.  The object has no ip property.
NewBubble(r) == [geo |-> r.geo, name |-> r.ip, radius |-> 2]

\* bubble.ip == result.ip: the property ip of a bubble is read, and is
\* undefined unless the object has one, which equals no IP of a result.
SameIP(bubble, r) == "ip" \in DOMAIN bubble /\ bubble.ip = r.ip

\* One iteration of $.each(campaign.results): the first bubble whose ip
\* equals result.ip grows by one, else a new bubble is pushed.
AddBubble(b, r) ==
    IF Internal(r) THEN b
    ELSE IF \E i \in DOMAIN b : SameIP(b[i], r)
         THEN LET i == CHOOSE i \in DOMAIN b : SameIP(b[i], r)
              IN  [b EXCEPT ![i].radius = @ + 1]
         ELSE Append(b, NewBubble(r))

\* bubbles after the loop (the `if (!map) return` of a page without map
\* aside).
UpdateMap(rs) ==
    LET f[n \in 0..Len(rs)] == IF n = 0 THEN <<>> ELSE AddBubble(f[n - 1], rs[n])
    IN  f[Len(rs)]

Init == results \in UNION {[1..n -> Result] : n \in 0..MaxResults}

\* The aggregation is a pure function of the results: nothing else changes.
Next == UNCHANGED results

Spec == Init /\ [][Next]_results

-----------------------------------------------------------------------------
\* The positions of the drawn results carrying IP ip.
Drawn(rs, ip) == {j \in 1..Len(rs) : rs[j].ip = ip /\ ~Internal(rs[j])}

(* The marker aggregation of spec 4.2 step 4: the results are grouped by  *)
(* IP, so there is one bubble per IP of a drawn result and none for an IP *)
(* seen only at 0,0, and the bubbles' weights are proportional to the     *)
(* number of drawn results sharing their IP.                               *)
BubblesGroupedByIP ==
    LET B == UpdateMap(results)
    IN  /\ \A i, k \in DOMAIN B : B[i].name = B[k].name => i = k
        /\ {B[i].name : i \in DOMAIN B} = {ip \in IPs : Drawn(results, ip) # {}}
        /\ \A i, k \in DOMAIN B :
              B[i].radius * Cardinality(Drawn(results, B[k].name)) =
                  B[k].radius * Cardinality(Drawn(results, B[i].name))
=============================================================================
