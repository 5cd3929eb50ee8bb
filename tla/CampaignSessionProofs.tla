------------------------ MODULE CampaignSessionProofs ------------------------
(***************************************************************************)
(* The campaign results page implements the abstract session of           *)
(* CampaignSession under the mapping Session of CampaignView, for every    *)
(* value of the constants.                                                 *)
(***************************************************************************)
EXTENDS CampaignViewProofs

(* Two more facts the mapping needs.  The page is left only through the   *)
(* OK button of "Campaign Deleted!", which nothing closes afterwards; the *)
(* complete dialog is opened only from an enabled #complete_button, and   *)
(* the button is disabled only by that dialog's success or by a load      *)
(* reply, which cannot arrive while a dialog is open.                      *)
SessionInv ==
    /\ view = "left" => dlg = "deleted"
    /\ dlg = "complete" => completeEnabled

(* $(document).ready opens no dialog and leaves nothing.                *)
LEMMA InitSessionInv == Init => SessionInv
BY DEF Init, SessionInv

(* No handler of the page breaks the two facts.                          *)
LEMMA NextSessionInv == IInv /\ SessionInv /\ [Next]_vars => SessionInv'
<1> SUFFICES ASSUME IInv, SessionInv, [Next]_vars PROVE SessionInv'
    OBVIOUS
<1>1. CASE \E t \in Targets, s \in Stages : ServerEvent(t, s)
    BY <1>1 DEF ServerEvent, SessionInv
<1>2. CASE Refresh
    BY <1>2 DEF Refresh, SessionInv
<1>3. ASSUME NEW r \in pending, NEW ok \in BOOLEAN, Reply(r, ok)
      PROVE  SessionInv'
    <2>1. CASE r.kind = "load"
        \* A load reply finds the page loading, hence no dialog open.
        <3>1. view = "loading" /\ dlg = "none"
            BY <1>3, <2>1 DEF IInv, Control
        <3>2. view' \in {"shown", "notfound"} /\ dlg' = dlg
            BY <1>3, <2>1 DEF Reply, LoadSuccess
        <3>3. QED
            BY <3>1, <3>2 DEF SessionInv
    <2>2. CASE r.kind # "load"
        <3>1. UNCHANGED <<view, dlg, completeEnabled>>
            BY <1>3, <2>2 DEF Reply, PollSuccess
        <3>2. QED
            BY <3>1 DEF SessionInv
    <2>3. QED
        BY <2>1, <2>2
<1>4. CASE \E t \in Targets : ToggleDetail(t)
    BY <1>4 DEF ToggleDetail, SessionInv
<1>5. CASE ConfirmComplete
    BY <1>5 DEF ConfirmComplete, SessionInv
<1>6. CASE ConfirmDelete
    BY <1>6 DEF ConfirmDelete, SessionInv
<1>7. CASE Serve
    BY <1>7 DEF Serve, SessionInv
<1>8. CASE Succeed
    BY <1>8 DEF Succeed, SessionInv
<1>9. CASE Fail
    BY <1>9 DEF Fail, SessionInv
<1>10. CASE Leave
    BY <1>10 DEF Leave, SessionInv
<1>11. CASE UNCHANGED vars
    BY <1>11 DEF vars, SessionInv
<1>12. QED
    BY <1>1, <1>2, <1>3, <1>4, <1>5, <1>6, <1>7, <1>8, <1>9, <1>10, <1>11 DEF Next

(* Every step of the page is a step of the session or leaves the mapped   *)
(* state alone.                                                            *)
LEMMA StepRefines ==
    IInv /\ SessionInv /\ [Next]_vars => [Session!SNext]_Session!svars
<1> SUFFICES ASSUME IInv, SessionInv, [Next]_vars
             PROVE  [Session!SNext]_Session!svars
    OBVIOUS
<1>0. TypeOK /\ Control
    BY DEF IInv
<1>1. CASE \E t \in Targets, s \in Stages : ServerEvent(t, s)
    BY <1>1 DEF ServerEvent, Session!svars
<1>2. CASE Refresh
    <2>1. CASE ~doPoll
        BY <1>2, <2>1 DEF Refresh, Session!svars
    <2>2. CASE doPoll
        <3>1. Session!Fetch
            BY <1>2, <2>2 DEF Refresh, Issue, Session!Fetch
        <3>2. QED
            BY <3>1 DEF Session!SNext
    <2>3. QED
        BY <2>1, <2>2
<1>3. ASSUME NEW r \in pending, NEW ok \in BOOLEAN, Reply(r, ok)
      PROVE  [Session!SNext]_Session!svars
    <2>1. CASE r.kind = "load" /\ ok
        <3>1. view = "loading"
            BY <1>0, <1>3, <2>1 DEF Control
        <3>2. Session!Show
            BY <1>3, <2>1, <3>1 DEF Reply, LoadSuccess, Session!Show
        <3>3. QED
            BY <3>2 DEF Session!SNext
    <2>2. CASE r.kind = "load" /\ ~ok
        <3>1. view = "loading"
            BY <1>0, <1>3, <2>2 DEF Control
        <3>2. Session!NotFound
            BY <1>3, <2>2, <3>1 DEF Reply, Session!NotFound
        <3>3. QED
            BY <3>2 DEF Session!SNext
    <2>3. CASE r.kind # "load"
        <3>1. UNCHANGED <<view, doPoll, timer, completeEnabled, fetches>>
            BY <1>3, <2>3 DEF Reply, PollSuccess
        <3>2. QED
            BY <3>1 DEF Session!svars
    <2>4. QED
        BY <2>1, <2>2, <2>3
<1>4. CASE \E t \in Targets : ToggleDetail(t)
    BY <1>4 DEF ToggleDetail, Session!svars
<1>5. CASE ConfirmComplete
    BY <1>5 DEF ConfirmComplete, Session!svars
<1>6. CASE ConfirmDelete
    BY <1>6 DEF ConfirmDelete, Session!svars
<1>7. CASE Serve
    BY <1>7 DEF Serve, Session!svars
<1>8. CASE Succeed
    <2>1. CASE dlg = "complete"
        \* The dialog was opened over the shown page with the button enabled.
        <3>1. view = "shown" /\ completeEnabled
            BY <1>0, <2>1 DEF Control, SessionInv
        <3>2. Session!Complete
            BY <1>8, <2>1, <3>1 DEF Succeed, Session!Complete
        <3>3. QED
            BY <3>2 DEF Session!SNext
    <2>2. CASE dlg # "complete"
        BY <1>8, <2>2 DEF Succeed, Session!svars
    <2>3. QED
        BY <2>1, <2>2
<1>9. CASE Fail
    BY <1>9 DEF Fail, Session!svars
<1>10. CASE Leave
    <2>1. view \in {"shown", "left"}
        BY <1>0, <1>10 DEF Leave, Control
    <2>2. CASE view = "shown"
        <3>1. Session!Leave
            BY <1>10, <2>2 DEF Leave, Session!Leave
        <3>2. QED
            BY <3>1 DEF Session!SNext
    <2>3. CASE view = "left"
        BY <1>10, <2>3 DEF Leave, Session!svars
    <2>4. QED
        BY <2>1, <2>2, <2>3
<1>11. CASE UNCHANGED vars
    BY <1>11 DEF vars, Session!svars
<1>12. QED
    BY <1>1, <1>2, <1>3, <1>4, <1>5, <1>6, <1>7, <1>8, <1>9, <1>10, <1>11 DEF Next

(* The results page implements the abstract session for every number of   *)
(* targets, stages, backend changes and requests: load() ends in the shown *)
(* or the not-found view, requests are sent only by the poll loop while   *)
(* doPoll is set and the timeout armed, completion (by the user, or a     *)
(* Completed campaign loaded) stops the loop for good, and the page is    *)
(* left only from the shown view.                                          *)
THEOREM Refinement == Spec => SessionRefined
<1>1. Init => Session!SInit
    BY DEF Init, Session!SInit
<1>2. IInv /\ SessionInv /\ [Next]_vars => [Session!SNext]_Session!svars
    BY StepRefines
<1>3. QED
    BY <1>1, <1>2, InitIInv, NextIInv, InitSessionInv, NextSessionInv, PTL
       DEF Spec, SessionRefined, Session!SSpec

-----------------------------------------------------------------------------
(* What the refinement buys.  The two facts below are proved of the        *)
(* abstract session once, and carried to the page through Refinement.     *)

(* Every session step keeps the session's commitments.                    *)
LEMMA SessionStepStable ==
    [Session!SNext]_Session!svars => [Session!StableStep]_Session!svars
BY DEF Session!SNext, Session!Fetch, Session!Show, Session!NotFound,
       Session!Complete, Session!Leave, Session!StableStep, Session!svars

(* The session starts unclosed and no session step closes the campaign     *)
(* without stopping the poll loop.                                         *)
LEMMA SessionSafeInductive ==
    /\ Session!SInit => Session!SessionSafe
    /\ Session!SessionSafe /\ [Session!SNext]_Session!svars
           => Session!SessionSafe'
BY DEF Session!SInit, Session!SNext, Session!Fetch, Session!Show,
       Session!NotFound, Session!Complete, Session!Leave,
       Session!SessionSafe, Session!svars

(* Once #complete_button is disabled (the user's completion succeeded, or *)
(* load() found the campaign completed), the poll loop is stopped: doPoll *)
(* is cleared or no refresh timeout is armed, in every state of the page. *)
THEOREM CompletedNotPolled == Spec => []Session!SessionSafe
BY Refinement, SessionSafeInductive, PTL DEF SessionRefined, Session!SSpec

(* No handler of the page undoes what the session did: a disabled complete *)
(* button is never re-enabled, a stopped poll loop never restarts, the     *)
(* page never goes back to loading, and the not-found and left views are   *)
(* final, however replies, ticks and clicks interleave.                    *)
THEOREM SessionNeverUndone == Spec => Session!SessionStable
BY Refinement, SessionStepStable, PTL
   DEF SessionRefined, Session!SSpec, Session!SessionStable
====
