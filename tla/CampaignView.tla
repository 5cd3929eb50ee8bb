---------------------------- MODULE CampaignView ----------------------------
(***************************************************************************)
(* The campaign results page of GophishUSB (campaign_results.js): the     *)
(* initial load(), the 60-second refresh() timer and its poll(), the      *)
(* detail-row toggle of the results table, and the complete / delete      *)
(* confirmation dialogs, together with the backend they talk to.          *)
(*                                                                         *)
(* The page runs on one thread; concurrency comes from asynchronous ajax  *)
(* replies, which may arrive in any order, and from the timer.  A request *)
(* carries the snapshot of the backend campaign taken when it is issued.  *)
(* A campaign snapshot is abstracted to the length of its timeline (ver), *)
(* its status and the stage of each target's result.                      *)
(***************************************************************************)
EXTENDS Integers, FiniteSets

CONSTANTS
    Targets,      \* the targets (USB devices) of the campaign, one result each
    Stages,       \* the result statuses the backend may report
    None,         \* "no value": campaign before load, a cell never written
    MaxVersion,   \* bound on the number of timeline events on the backend
    MaxFetches    \* bound on the number of results requests the page issues

ASSUME ConstantsAssumption ==
    /\ Targets # {} /\ Stages # {}
    /\ MaxVersion \in Nat
    /\ MaxFetches \in Nat \ {0}

VARIABLES
    srv,              \* the campaign as the backend holds it
    campaign,         \* the global `campaign` of the page
    view,             \* which part of the page is visible
    rows,             \* the results DataTable: target id -> row
    doPoll,           \* the global `doPoll` flag
    timer,            \* a refresh() timeout is armed (setRefresh)
    pending,          \* results requests in flight
    fetches,          \* number of results requests issued so far
    completeEnabled,  \* the #complete_button is enabled
    dlg,              \* the SweetAlert dialog on screen
    served            \* the backend has applied the dialog's request

vars == <<srv, campaign, view, rows, doPoll, timer, pending, fetches,
          completeEnabled, dlg, served>>

Ver == 0..MaxVersion
CampaignStatus == {"Active", "Completed"}

\* What GET /campaigns/:id/results returns: the campaign with its results.
Snap == [ver: Ver, status: CampaignStatus, stage: [Targets -> Stages]]

Server == [ver: Ver, status: CampaignStatus, stage: [Targets -> Stages],
           deleted: BOOLEAN]

\* A results request: load() issues one of kind "load", poll() of kind
\* "poll"; gone means the campaign was deleted when the backend answered.
Request == [id: 1..MaxFetches, kind: {"load", "poll"}, gone: BOOLEAN,
            snap: Snap]

\* A table row: the status column (index 5), the array slot 6 that poll()
\* writes, whether the child (timeline) row is shown, and the timeline
\* version it was rendered from (-1: never rendered).
Row == [status: Stages, col6: Stages \cup {None}, shown: BOOLEAN,
        child: Ver \cup {-1}]

ASSUME NoneAssumption == None \notin Snap \cup Stages

SnapOf(s) == [ver |-> s.ver, status |-> s.status, stage |-> s.stage]

\* Issue GET /campaigns/:id/results (api.campaignId.results).
Issue(kind) ==
    /\ fetches < MaxFetches
    /\ pending' = pending \cup {[id |-> fetches + 1, kind |-> kind,
                                 gone |-> srv.deleted, snap |-> SnapOf(srv)]}
    /\ fetches' = fetches + 1

\* The page after $(document).ready: load() has sent its request and the
\* first refresh() timeout is armed.
Init ==
    /\ srv \in [ver: {0}, status: CampaignStatus, stage: [Targets -> Stages],
                deleted: {FALSE}]
    /\ campaign = None
    /\ view = "loading"
    /\ rows = [t \in {} |-> None]
    /\ doPoll = TRUE
    /\ timer = TRUE
    /\ pending = {[id |-> 1, kind |-> "load", gone |-> FALSE,
                   snap |-> SnapOf(srv)]}
    /\ fetches = 1
    /\ completeEnabled = TRUE
    /\ dlg = "none"
    /\ served = FALSE

-----------------------------------------------------------------------------
(* The backend records an event of target t: its result gets status s.    *)
ServerEvent(t, s) ==
    /\ ~srv.deleted
    /\ srv.status = "Active"
    /\ srv.ver < MaxVersion
    /\ srv' = [srv EXCEPT !.ver = @ + 1, !.stage[t] = s]
    /\ UNCHANGED <<campaign, view, rows, doPoll, timer, pending, fetches,
                   completeEnabled, dlg, served>>

\* Mutant of Refresh: clearTimeout/setTimeout moved above the doPoll check.
RefreshRearmAlways ==
    /\ view # "left"
    /\ dlg # "delete"
    /\ timer
    /\ \/ /\ ~doPoll
          /\ UNCHANGED <<pending, fetches>>
       \/ /\ doPoll
          /\ Issue("poll")
    /\ timer' = TRUE
    /\ UNCHANGED <<srv, campaign, view, rows, doPoll, completeEnabled, dlg,
                   served>>

(* refresh(): the timeout fires; without doPoll it returns and is not     *)
(* re-armed, otherwise it calls poll() and re-arms itself at once.  The  *)
(* synchronous DELETE (query(..., false)) blocks the page: no timeout or  *)
(* ajax callback runs while it is outstanding.                            *)
Refresh ==
    /\ view # "left"
    /\ dlg # "delete"
    /\ timer
    /\ \/ /\ ~doPoll
          /\ timer' = FALSE
          /\ UNCHANGED <<pending, fetches>>
       \/ /\ doPoll
          /\ Issue("poll")
          /\ timer' = TRUE
    /\ UNCHANGED <<srv, campaign, view, rows, doPoll, completeEnabled, dlg,
                   served>>

\* Mutant of LoadSuccess: `doPoll = false` dropped from the Completed branch.
LoadSuccessKeepPolling(r) ==
    /\ campaign' = r.snap
    /\ view' = "shown"
    /\ rows' = [t \in Targets |-> [status |-> r.snap.stage[t], col6 |-> None,
                                   shown |-> FALSE, child |-> -1]]
    /\ IF r.snap.status = "Completed"
          THEN completeEnabled' = FALSE /\ UNCHANGED doPoll
          ELSE UNCHANGED <<completeEnabled, doPoll>>

(* The success handler of load(): set up the table (every detail row      *)
(* closed) and, for a completed campaign, disable completion and polling. *)
LoadSuccess(r) ==
    /\ campaign' = r.snap
    /\ view' = "shown"
    /\ rows' = [t \in Targets |-> [status |-> r.snap.stage[t], col6 |-> None,
                                   shown |-> FALSE, child |-> -1]]
    /\ IF r.snap.status = "Completed"
          THEN completeEnabled' = FALSE /\ doPoll' = FALSE
          ELSE UNCHANGED <<completeEnabled, doPoll>>

\* Mutants of PollSuccess: the campaign's status written into the row; the
\* shown child row not re-rendered; the child row hidden by the refresh.
PollSuccessCampaignStatus(r) ==
    /\ campaign' = r.snap
    /\ rows' = IF view = "shown"
                 THEN [t \in DOMAIN rows |->
                         [rows[t] EXCEPT !.col6 = r.snap.status,
                                         !.child = IF rows[t].shown
                                                     THEN r.snap.ver ELSE @]]
                 ELSE rows
    /\ UNCHANGED <<view, completeEnabled, doPoll>>

PollSuccessNoRerender(r) ==
    /\ campaign' = r.snap
    /\ rows' = IF view = "shown"
                 THEN [t \in DOMAIN rows |-> [rows[t] EXCEPT !.col6 = r.snap.stage[t]]]
                 ELSE rows
    /\ UNCHANGED <<view, completeEnabled, doPoll>>

PollSuccessCollapse(r) ==
    /\ campaign' = r.snap
    /\ rows' = IF view = "shown"
                 THEN [t \in DOMAIN rows |->
                         [rows[t] EXCEPT !.col6 = r.snap.stage[t], !.shown = FALSE]]
                 ELSE rows
    /\ UNCHANGED <<view, completeEnabled, doPoll>>

(* The success handler of poll(): replace campaign, then for every table  *)
(* row write the result's status into rowData[6] and re-render a shown    *)
(* child row.  Before load() has built the charts, the handler throws at  *)
(* timeline_chart.series right after replacing campaign.                  *)
PollSuccess(r) ==
    /\ campaign' = r.snap
    /\ rows' = IF view = "shown"
                 THEN [t \in DOMAIN rows |->
                         [rows[t] EXCEPT !.col6 = r.snap.stage[t],
                                         !.child = IF rows[t].shown
                                                     THEN r.snap.ver ELSE @]]
                 ELSE rows
    /\ UNCHANGED <<view, completeEnabled, doPoll>>

(* A reply to request r arrives: success, or an error (network, server,   *)
(* 404 once deleted).  load() shows "Campaign not found!" on error; poll() *)
(* has no error handler.                                                   *)
Reply(r, ok) ==
    /\ view # "left"
    /\ dlg # "delete"
    /\ r \in pending
    /\ ok => ~r.gone
    /\ pending' = pending \ {r}
    /\ \/ /\ r.kind = "load" /\ ok
          /\ LoadSuccess(r)
       \/ /\ r.kind = "load" /\ ~ok
          /\ view' = "notfound"
          /\ UNCHANGED <<campaign, rows, completeEnabled, doPoll>>
       \/ /\ r.kind = "poll" /\ ok
          /\ PollSuccess(r)
       \/ /\ r.kind = "poll" /\ ~ok
          /\ UNCHANGED <<campaign, view, rows, completeEnabled, doPoll>>
    /\ UNCHANGED <<srv, timer, fetches, dlg, served>>

(* The click handler on td.details-control: hide a shown child row, or    *)
(* render the timeline from the global campaign and show it.              *)
ToggleDetail(t) ==
    /\ view = "shown"
    /\ dlg = "none"
    /\ t \in DOMAIN rows
    /\ \/ /\ rows[t].shown
          /\ rows' = [rows EXCEPT ![t].shown = FALSE]
       \/ /\ ~rows[t].shown
          /\ rows' = [rows EXCEPT ![t].shown = TRUE, ![t].child = campaign.ver]
    /\ UNCHANGED <<srv, campaign, view, doPoll, timer, pending, fetches,
                   completeEnabled, dlg, served>>

-----------------------------------------------------------------------------
(* completeCampaign() / deleteCampaign(): the user confirms the dialog,   *)
(* whose preConfirm sends the request.                                    *)
ConfirmComplete ==
    /\ view = "shown"
    /\ completeEnabled
    /\ dlg = "none"
    /\ dlg' = "complete"
    /\ served' = FALSE
    /\ UNCHANGED <<srv, campaign, view, rows, doPoll, timer, pending, fetches,
                   completeEnabled>>

ConfirmDelete ==
    /\ view = "shown"
    /\ dlg = "none"
    /\ dlg' = "delete"
    /\ served' = FALSE
    /\ UNCHANGED <<srv, campaign, view, rows, doPoll, timer, pending, fetches,
                   completeEnabled>>

(* The backend applies GET /campaigns/:id/complete or DELETE /campaigns/:id. *)
Serve ==
    /\ dlg \in {"complete", "delete"}
    /\ ~served
    /\ ~srv.deleted
    /\ srv' = IF dlg = "complete" THEN [srv EXCEPT !.status = "Completed"]
                                  ELSE [srv EXCEPT !.deleted = TRUE]
    /\ served' = TRUE
    /\ UNCHANGED <<campaign, view, rows, doPoll, timer, pending, fetches,
                   completeEnabled, dlg>>

(* The request succeeded: completion disables the button and sets doPoll  *)
(* to false (the armed timeout is left to fire); deletion shows the       *)
(* success dialog whose OK button leaves the page.                         *)
Succeed ==
    /\ dlg \in {"complete", "delete"}
    /\ served
    /\ \/ /\ dlg = "complete"
          /\ dlg' = "none"
          /\ completeEnabled' = FALSE
          /\ doPoll' = FALSE
       \/ /\ dlg = "delete"
          /\ dlg' = "deleted"
          /\ UNCHANGED <<completeEnabled, doPoll>>
    /\ UNCHANGED <<srv, campaign, view, rows, timer, pending, fetches, served>>

(* The request failed (its effect may or may not have been applied): the  *)
(* dialog shows the error and the user dismisses it.                       *)
Fail ==
    /\ dlg \in {"complete", "delete"}
    /\ dlg' = "none"
    /\ served' = FALSE
    /\ UNCHANGED <<srv, campaign, view, rows, doPoll, timer, pending, fetches,
                   completeEnabled>>

(* OK on "Campaign Deleted!": location.href = '/campaigns'.               *)
Leave ==
    /\ dlg = "deleted"
    /\ view' = "left"
    /\ UNCHANGED <<srv, campaign, rows, doPoll, timer, pending, fetches,
                   completeEnabled, dlg, served>>

-----------------------------------------------------------------------------
Next ==
    \/ \E t \in Targets, s \in Stages : ServerEvent(t, s)
    \/ Refresh
    \/ \E r \in pending, ok \in BOOLEAN : Reply(r, ok)
    \/ \E t \in Targets : ToggleDetail(t)
    \/ ConfirmComplete
    \/ ConfirmDelete
    \/ Serve
    \/ Succeed
    \/ Fail
    \/ Leave

\* The synchronous DELETE returns, with the backend's answer or an error.
DeleteReturns == dlg = "delete" /\ (Succeed \/ Fail)

(* Fairness.  An armed setTimeout runs whenever the event loop is free,    *)
(* so a refresh enabled again and again (between blocking DELETEs) does   *)
(* run: strong fairness.  A synchronous XHR does not block forever.       *)
Spec == Init /\ [][Next]_vars /\ SF_vars(Refresh) /\ WF_vars(DeleteReturns)

-----------------------------------------------------------------------------
(* The refinement mapping onto the abstract session: the view is the      *)
(* phase, the loop polls while doPoll is set and the timeout armed, the   *)
(* campaign is closed once the complete button is disabled, and every     *)
(* GET /results is a request sent.                                         *)
Session == INSTANCE CampaignSession
    WITH phase <- view, polling <- doPoll /\ timer,
         closed <- ~completeEnabled, sent <- fetches

-----------------------------------------------------------------------------
(* Properties.                                                             *)

TypeOK ==
    /\ srv \in Server
    /\ campaign \in Snap \cup {None}
    /\ view \in {"loading", "shown", "notfound", "left"}
    /\ DOMAIN rows \in {{}, Targets}
    /\ rows \in [DOMAIN rows -> Row]
    /\ doPoll \in BOOLEAN
    /\ timer \in BOOLEAN
    /\ pending \in SUBSET Request
    /\ fetches \in 1..MaxFetches
    /\ completeEnabled \in BOOLEAN
    /\ dlg \in {"none", "complete", "delete", "deleted"}
    /\ served \in BOOLEAN

(* An expanded timeline row always shows the timeline of the campaign the *)
(* page currently holds: poll() re-renders every shown child row from the *)
(* campaign it has just stored, however the replies interleave with the   *)
(* user's clicks.                                                          *)
ExpandedDetailFresh ==
    \A t \in DOMAIN rows : rows[t].shown => rows[t].child = campaign.ver

(* No refresh collapses an expanded timeline row: a shown child row is    *)
(* hidden only by the user's own click on that row.                        *)
ExpandedRowsPersist ==
    [][\A t \in DOMAIN rows :
          (rows[t].shown /\ ~(t \in DOMAIN rows' /\ rows'[t].shown))
              => ToggleDetail(t)]_vars

(* Once completion is known to the page (the user's completion succeeded, *)
(* or load() found the campaign completed), no results request is issued *)
(* any more, though the armed timeout still fires.                         *)
NoFetchAfterCompletion ==
    [][~completeEnabled => fetches' = fetches]_vars

(* Once polling is switched off, the refresh timeout is eventually no     *)
(* longer armed (or the page has been left).                               *)
PollingWindsDown ==
    ~doPoll ~> (~timer \/ view = "left")

(* The status column of every table row shows the status of that target's *)
(* result in the campaign the page holds (spec 4.2 step 3).               *)
StatusCellCurrent ==
    view = "shown" => \A t \in DOMAIN rows : rows[t].status = campaign.stage[t]

(* The page's campaign never goes back to an older backend state: one    *)
(* reconciliation at a time, each with a fresher fetch (spec 4.2, 5).      *)
ReconciledStateNeverRegresses ==
    [][(campaign # None /\ campaign' # None) => campaign'.ver >= campaign.ver]_campaign

(* A tick polls only while the campaign the page holds is Active (spec 4.2). *)
NoPollOnceCompletedSeen ==
    [][(campaign # None /\ campaign.status = "Completed") => fetches' = fetches]_vars

(* The page implements the abstract session: load() ends in the shown or   *)
(* the not-found view, only the poll loop sends requests and only while    *)
(* doPoll is set and the timeout armed, a disabled complete button or a    *)
(* loaded Completed campaign stops the loop for good, and the page is left *)
(* only from the shown view.                                               *)
SessionRefined == Session!SSpec

=============================================================================
