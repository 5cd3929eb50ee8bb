--------------------------- MODULE CampaignSession ---------------------------
(***************************************************************************)
(* What the campaign results page promises about its session with the     *)
(* backend, without tables, charts or replies: the view goes from loading *)
(* to shown or to "not found", and from shown to gone; a request is sent  *)
(* only while polling, and polling, once stopped, never resumes; closing *)
(* the campaign (completion) stops polling for good.                      *)
(***************************************************************************)
EXTENDS Naturals

VARIABLES
    phase,     \* "loading", "shown", "notfound" or "left"
    polling,   \* the poll loop may still send requests
    closed,    \* the campaign is completed as far as the page knows
    sent       \* requests sent so far

svars == <<phase, polling, closed, sent>>

SInit ==
    /\ phase = "loading"
    /\ polling = TRUE
    /\ closed = FALSE
    /\ sent = 1

\* A request of the poll loop.
Fetch ==
    /\ polling
    /\ phase # "left"
    /\ sent' = sent + 1
    /\ UNCHANGED <<phase, polling, closed>>

\* The campaign is shown; when it is already completed, polling stops.
Show ==
    /\ phase = "loading"
    /\ phase' = "shown"
    /\ \/ UNCHANGED <<polling, closed>>
       \/ closed' = TRUE /\ polling' = FALSE
    /\ UNCHANGED sent

\* The first fetch failed.
NotFound ==
    /\ phase = "loading"
    /\ phase' = "notfound"
    /\ UNCHANGED <<polling, closed, sent>>

\* The user completes the shown campaign.
Complete ==
    /\ phase = "shown"
    /\ ~closed
    /\ closed' = TRUE
    /\ polling' = FALSE
    /\ UNCHANGED <<phase, sent>>

\* The user leaves the shown (deleted) campaign.
Leave ==
    /\ phase = "shown"
    /\ phase' = "left"
    /\ UNCHANGED <<polling, closed, sent>>

SNext == Fetch \/ Show \/ NotFound \/ Complete \/ Leave

SSpec == SInit /\ [][SNext]_svars

-----------------------------------------------------------------------------
(* A closed campaign is no longer polled: completing it, or showing it     *)
(* already completed, stops the poll loop in the same step.                *)
SessionSafe == closed => ~polling

(* Nothing the session does is undone: a closed campaign stays closed, a *)
(* stopped poll loop never restarts, the view never goes back to loading, *)
(* and the not-found and left views are final.                            *)
StableStep ==
    /\ closed => closed'
    /\ ~polling => ~polling'
    /\ phase # "loading" => phase' # "loading"
    /\ phase \in {"notfound", "left"} => phase' = phase

SessionStable == [][StableStep]_svars
====
