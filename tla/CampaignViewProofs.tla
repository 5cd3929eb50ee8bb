------------------------- MODULE CampaignViewProofs -------------------------
(***************************************************************************)
(* Proofs about CampaignView for every value of the constants.            *)
(***************************************************************************)
EXTENDS CampaignView, TLAPS

(* The shape of the table follows the page: it exists, with one row per  *)
(* target and a stored campaign, exactly once load() has succeeded.       *)
RowsShape ==
    /\ view \in {"shown", "left"} => campaign \in Snap /\ DOMAIN rows = Targets
    /\ view \in {"loading", "notfound"} => DOMAIN rows = {}

(* The control facts of the page: load() sends one request, answered     *)
(* while the page still shows its loading indicator; the dialogs are      *)
(* opened from the loaded page; the complete button is disabled only     *)
(* together with doPoll.                                                   *)
Control ==
    /\ \A r \in pending : r.kind = "load" => view = "loading"
    /\ \A r1, r2 \in pending : r1.kind = "load" /\ r2.kind = "load" => r1 = r2
    /\ dlg # "none" => view \in {"shown", "left"}
    /\ ~completeEnabled => ~doPoll

(* The inductive invariant: TypeOK alone is not inductive, because        *)
(* ToggleDetail reads campaign.ver, which needs a stored campaign.         *)
IInv == TypeOK /\ RowsShape /\ Control /\ ExpandedDetailFresh

USE ConstantsAssumption

(* Membership in the record sets of the model, one field at a time.       *)
LEMMA ServerElim ==
    ASSUME NEW x \in Server
    PROVE  /\ x = [ver |-> x.ver, status |-> x.status, stage |-> x.stage,
                   deleted |-> x.deleted]
           /\ x.ver \in Ver /\ x.status \in CampaignStatus
           /\ x.stage \in [Targets -> Stages] /\ x.deleted \in BOOLEAN
BY DEF Server

LEMMA ServerIntro ==
    ASSUME NEW v \in Ver, NEW st \in CampaignStatus,
           NEW f \in [Targets -> Stages], NEW d \in BOOLEAN
    PROVE  [ver |-> v, status |-> st, stage |-> f, deleted |-> d] \in Server
BY DEF Server

LEMMA SnapOfServer ==
    ASSUME NEW x \in Server
    PROVE  SnapOf(x) \in Snap
BY ServerElim DEF SnapOf, Snap

LEMMA SnapElim ==
    ASSUME NEW x \in Snap
    PROVE  x.ver \in Ver /\ x.status \in CampaignStatus /\ x.stage \in [Targets -> Stages]
BY DEF Snap

LEMMA RowElim ==
    ASSUME NEW x \in Row
    PROVE  /\ x = [status |-> x.status, col6 |-> x.col6, shown |-> x.shown,
                   child |-> x.child]
           /\ x.status \in Stages /\ x.col6 \in Stages \cup {None}
           /\ x.shown \in BOOLEAN /\ x.child \in Ver \cup {-1}
BY DEF Row

LEMMA RowIntro ==
    ASSUME NEW st \in Stages, NEW c6 \in Stages \cup {None}, NEW sh \in BOOLEAN,
           NEW ch \in Ver \cup {-1}
    PROVE  [status |-> st, col6 |-> c6, shown |-> sh, child |-> ch] \in Row
BY DEF Row

LEMMA RequestElim ==
    ASSUME NEW r \in Request
    PROVE  r.snap \in Snap /\ r.kind \in {"load", "poll"}
BY DEF Request

THEOREM InitIInv == Init => IInv
<1> SUFFICES ASSUME Init PROVE IInv
    OBVIOUS
<1>1. TypeOK
    <2>1. srv \in Server
        <3>1. srv = [ver |-> srv.ver, status |-> srv.status, stage |-> srv.stage,
                     deleted |-> srv.deleted]
            BY DEF Init
        <3>2. srv.ver = 0 /\ srv.status \in CampaignStatus
              /\ srv.stage \in [Targets -> Stages] /\ srv.deleted = FALSE
            BY DEF Init
        <3>3. 0 \in Ver
            BY DEF Ver
        <3>4. QED
            BY <3>1, <3>2, <3>3, ServerIntro
    <2>2. SnapOf(srv) \in Snap
        BY <2>1, SnapOfServer
    <2>3. 1 \in 1..MaxFetches
        OBVIOUS
    <2>4. pending \in SUBSET Request
        BY <2>2, <2>3 DEF Init, Request
    <2>5. DOMAIN rows = {} /\ rows \in [DOMAIN rows -> Row]
        BY DEF Init
    <2>6. /\ campaign = None /\ view = "loading" /\ doPoll = TRUE /\ timer = TRUE
          /\ fetches = 1 /\ completeEnabled = TRUE /\ dlg = "none" /\ served = FALSE
        BY DEF Init
    <2>7. campaign \in Snap \cup {None}
        BY <2>6
    <2>8. DOMAIN rows \in {{}, Targets}
        BY <2>5
    <2>9. fetches \in 1..MaxFetches
        BY <2>6
    <2>10. /\ view \in {"loading", "shown", "notfound", "left"}
           /\ doPoll \in BOOLEAN /\ timer \in BOOLEAN /\ completeEnabled \in BOOLEAN
           /\ dlg \in {"none", "complete", "delete", "deleted"} /\ served \in BOOLEAN
        BY <2>6
    <2>11. QED
        BY <2>1, <2>4, <2>5, <2>7, <2>8, <2>9, <2>10 DEF TypeOK
<1>2. RowsShape
    BY DEF Init, RowsShape
<1>3. ExpandedDetailFresh
    BY DEF Init, ExpandedDetailFresh
<1>4. Control
    BY DEF Init, Control
<1>5. QED
    BY <1>1, <1>2, <1>3, <1>4 DEF IInv

(* A new results request is well typed.                                   *)
LEMMA IssueTyped ==
    ASSUME TypeOK, NEW kind \in {"load", "poll"}, Issue(kind)
    PROVE  pending' \in SUBSET Request /\ fetches' \in 1..MaxFetches
<1>1. SnapOf(srv) \in Snap
    BY SnapOfServer DEF TypeOK
<1>2. fetches + 1 \in 1..MaxFetches
    BY DEF TypeOK, Issue
<1>3. [id |-> fetches + 1, kind |-> kind, gone |-> srv.deleted,
       snap |-> SnapOf(srv)] \in Request
    BY <1>1, <1>2, ServerElim DEF TypeOK, Request
<1>4. QED
    BY <1>2, <1>3 DEF TypeOK, Issue

THEOREM NextIInv == IInv /\ [Next]_vars => IInv'
<1> SUFFICES ASSUME IInv, [Next]_vars PROVE IInv'
    OBVIOUS
<1>0. /\ TypeOK /\ RowsShape /\ Control /\ ExpandedDetailFresh
    BY DEF IInv
<1>1. ASSUME NEW t \in Targets, NEW s \in Stages, ServerEvent(t, s)
      PROVE  IInv'
    <2>1. srv' \in Server
        <3>1. srv \in Server
            BY <1>0 DEF TypeOK
        <3>6. srv = [ver |-> srv.ver, status |-> srv.status, stage |-> srv.stage,
                     deleted |-> srv.deleted]
            BY <3>1, ServerElim
        <3>2. srv' = [ver |-> srv.ver + 1, status |-> srv.status,
                      stage |-> [srv.stage EXCEPT ![t] = s], deleted |-> srv.deleted]
            BY <1>1, <3>6 DEF ServerEvent
        <3>3. srv.ver + 1 \in Ver
            BY <1>1, <3>1, ServerElim DEF ServerEvent, Ver
        <3>4. [srv.stage EXCEPT ![t] = s] \in [Targets -> Stages]
            BY <3>1, ServerElim
        <3>5. QED
            BY <3>1, <3>2, <3>3, <3>4, ServerElim, ServerIntro
    <2>2. QED
        BY <1>0, <1>1, <2>1 DEF ServerEvent, IInv, TypeOK, RowsShape, Control, ExpandedDetailFresh
<1>2. ASSUME Refresh PROVE IInv'
    <2>1. CASE ~doPoll /\ timer' = FALSE /\ UNCHANGED <<pending, fetches>>
        BY <1>0, <1>2, <2>1 DEF Refresh, IInv, TypeOK, RowsShape, Control, ExpandedDetailFresh
    <2>2. CASE doPoll /\ Issue("poll") /\ timer' = TRUE
        <3>1. pending' \in SUBSET Request /\ fetches' \in 1..MaxFetches
            BY <1>0, <2>2, IssueTyped
        <3>2. \A x \in pending' : x \in pending \/ x.kind = "poll"
            BY <2>2 DEF Issue
        <3>3. Control'
            BY <1>0, <1>2, <3>2 DEF Refresh, Control
        <3>4. QED
            BY <1>0, <1>2, <2>2, <3>1, <3>3 DEF Refresh, IInv, TypeOK, RowsShape, ExpandedDetailFresh
    <2>3. QED
        BY <1>2, <2>1, <2>2 DEF Refresh
<1>3. ASSUME NEW r \in pending, NEW ok \in BOOLEAN, Reply(r, ok)
      PROVE  IInv'
    <2>0. r \in Request /\ pending' \in SUBSET Request
        BY <1>0, <1>3 DEF Reply, TypeOK
    <2>1. CASE r.kind = "load" /\ ok /\ LoadSuccess(r)
        <3>0. r.snap \in Snap
            BY <2>0, RequestElim
        <3>1. rows' \in [Targets -> Row]
            <4>1. \A t \in Targets :
                    [status |-> r.snap.stage[t], col6 |-> None, shown |-> FALSE,
                     child |-> -1] \in Row
                BY <3>0, SnapElim, RowIntro
            <4>2. QED
                BY <2>1, <4>1 DEF LoadSuccess
        <3>2. campaign' \in Snap
            BY <2>1, <3>0 DEF LoadSuccess
        <3>3. TypeOK'
            BY <1>0, <1>3, <2>0, <2>1, <3>1, <3>2 DEF Reply, LoadSuccess, TypeOK
        <3>4. RowsShape'
            BY <1>3, <2>1, <3>1, <3>2 DEF Reply, LoadSuccess, RowsShape
        <3>5. ExpandedDetailFresh'
            BY <2>1 DEF LoadSuccess, ExpandedDetailFresh
        <3>7. Control'
            <4>1. \A x \in pending' : x.kind # "load"
                BY <1>0, <1>3, <2>1 DEF Reply, Control
            <4>2. (~completeEnabled => ~doPoll)'
                BY <1>0, <2>1 DEF LoadSuccess, Control
            <4>3. QED
                BY <1>3, <2>1, <4>1, <4>2 DEF Reply, LoadSuccess, Control
        <3>6. QED
            BY <3>3, <3>4, <3>5, <3>7 DEF IInv
    <2>2. CASE r.kind = "load" /\ ~ok /\ view' = "notfound"
                 /\ UNCHANGED <<campaign, rows, completeEnabled, doPoll>>
        <3>1. r.kind = "load"
            BY <2>2
        <3>2. view = "loading"
            BY <1>0, <3>1 DEF Control
        <3>3. \A r2 \in pending' : r2.kind # "load"
            BY <1>0, <1>3, <3>1 DEF Reply, Control
        <3>4. QED
            BY <1>0, <1>3, <2>0, <2>2, <3>2, <3>3 DEF Reply, IInv, TypeOK, RowsShape, Control, ExpandedDetailFresh
    <2>3. CASE r.kind = "poll" /\ ok /\ PollSuccess(r)
        <3>1. campaign' \in Snap
            BY <2>0, <2>3 DEF PollSuccess, Request
        <3>2. CASE view = "shown"
            <4>1. rows' = [t \in DOMAIN rows |->
                             [rows[t] EXCEPT !.col6 = r.snap.stage[t],
                                             !.child = IF rows[t].shown
                                                         THEN r.snap.ver ELSE @]]
                BY <2>3, <3>2 DEF PollSuccess
            <4>2. DOMAIN rows = Targets
                BY <1>0, <3>2 DEF RowsShape
            <4>6. r.snap \in Snap
                BY <2>0, RequestElim
            <4>7. ASSUME NEW t \in DOMAIN rows
                  PROVE  /\ rows'[t] = [status |-> rows[t].status,
                                        col6 |-> r.snap.stage[t],
                                        shown |-> rows[t].shown,
                                        child |-> IF rows[t].shown THEN r.snap.ver
                                                                   ELSE rows[t].child]
                         /\ rows'[t] \in Row
                <5>1. rows[t] \in Row
                    BY <1>0 DEF TypeOK
                <5>2. rows[t] = [status |-> rows[t].status, col6 |-> rows[t].col6,
                                 shown |-> rows[t].shown, child |-> rows[t].child]
                    BY <5>1, RowElim
                <5>3. rows'[t] = [status |-> rows[t].status,
                                  col6 |-> r.snap.stage[t],
                                  shown |-> rows[t].shown,
                                  child |-> IF rows[t].shown THEN r.snap.ver
                                                             ELSE rows[t].child]
                    BY <4>1, <5>2
                <5>4. r.snap.stage[t] \in Stages /\ r.snap.ver \in Ver
                    BY <4>2, <4>6, SnapElim
                <5>5. QED
                    BY <5>1, <5>3, <5>4, RowElim, RowIntro
            <4>3. rows' \in [DOMAIN rows -> Row] /\ DOMAIN rows' = DOMAIN rows
                BY <4>1, <4>7
            <4>4. ExpandedDetailFresh'
                <5>1. SUFFICES ASSUME NEW t \in DOMAIN rows', rows'[t].shown
                               PROVE  rows'[t].child = campaign'.ver
                    BY DEF ExpandedDetailFresh
                <5>2. t \in DOMAIN rows
                    BY <4>3
                <5>3. rows'[t] = [status |-> rows[t].status,
                                  col6 |-> r.snap.stage[t],
                                  shown |-> rows[t].shown,
                                  child |-> IF rows[t].shown THEN r.snap.ver
                                                             ELSE rows[t].child]
                    BY <4>7, <5>2
                <5>4. rows[t].shown
                    BY <5>1, <5>3
                <5>5. rows'[t].child = r.snap.ver
                    BY <5>3, <5>4
                <5>6. QED
                    BY <2>3, <5>5 DEF PollSuccess
            <4>5. QED
                BY <1>0, <1>3, <2>0, <2>3, <3>1, <3>2, <4>2, <4>3, <4>4
                   DEF Reply, PollSuccess, IInv, TypeOK, RowsShape, Control
        <3>3. CASE view # "shown"
            <4>1. rows' = rows /\ view' = view
                BY <2>3, <3>3 DEF PollSuccess
            <4>2. view \in {"loading", "notfound"} \/ view = "left"
                BY <1>0, <3>3 DEF TypeOK
            <4>3. CASE view = "left"
                BY <1>3, <4>3 DEF Reply
            <4>4. CASE view \in {"loading", "notfound"}
                <5>1. DOMAIN rows = {}
                    BY <1>0, <4>4 DEF RowsShape
                <5>2. QED
                    BY <1>0, <1>3, <2>0, <2>3, <3>1, <4>1, <4>4, <5>1
                       DEF Reply, PollSuccess, IInv, TypeOK, RowsShape, Control, ExpandedDetailFresh
            <4>5. QED
                BY <4>2, <4>3, <4>4
        <3>4. QED
            BY <3>2, <3>3
    <2>4. CASE r.kind = "poll" /\ ~ok
                 /\ UNCHANGED <<campaign, view, rows, completeEnabled, doPoll>>
        BY <1>0, <1>3, <2>0, <2>4 DEF Reply, IInv, TypeOK, RowsShape, Control, ExpandedDetailFresh
    <2>5. QED
        BY <1>3, <2>1, <2>2, <2>3, <2>4 DEF Reply
<1>4. ASSUME NEW t \in Targets, ToggleDetail(t)
      PROVE  IInv'
    <2>1. campaign \in Snap /\ DOMAIN rows = Targets /\ rows[t] \in Row
        BY <1>0, <1>4 DEF ToggleDetail, RowsShape, TypeOK
    <2>2. CASE rows[t].shown /\ rows' = [rows EXCEPT ![t].shown = FALSE]
        <3>1. rows' \in [DOMAIN rows -> Row] /\ DOMAIN rows' = DOMAIN rows
            BY <1>0, <2>1, <2>2 DEF TypeOK, Row
        <3>2. QED
            BY <1>0, <1>4, <2>1, <2>2, <3>1
               DEF ToggleDetail, IInv, TypeOK, RowsShape, Control, ExpandedDetailFresh
    <2>3. CASE ~rows[t].shown /\ rows' = [rows EXCEPT ![t].shown = TRUE, ![t].child = campaign.ver]
        <3>1. rows' \in [DOMAIN rows -> Row] /\ DOMAIN rows' = DOMAIN rows
            BY <1>0, <2>1, <2>3 DEF TypeOK, Row, Snap, Ver
        <3>2. QED
            BY <1>0, <1>4, <2>1, <2>3, <3>1
               DEF ToggleDetail, IInv, TypeOK, RowsShape, Control, ExpandedDetailFresh
    <2>4. QED
        BY <1>4, <2>2, <2>3 DEF ToggleDetail
<1>5. CASE ConfirmComplete
    BY <1>0, <1>5 DEF ConfirmComplete, IInv, TypeOK, RowsShape, Control, ExpandedDetailFresh
<1>11. CASE ConfirmDelete
    BY <1>0, <1>11 DEF ConfirmDelete, IInv, TypeOK, RowsShape, Control, ExpandedDetailFresh
<1>12. CASE Fail
    BY <1>0, <1>12 DEF Fail, IInv, TypeOK, RowsShape, Control, ExpandedDetailFresh
<1>6. CASE Serve
    <2>1. srv' \in Server
        <3>1. srv \in Server
            BY <1>0 DEF TypeOK
        <3>5. srv = [ver |-> srv.ver, status |-> srv.status, stage |-> srv.stage,
                     deleted |-> srv.deleted]
            BY <3>1, ServerElim
        <3>2. CASE dlg = "complete"
            <4>1. srv' = [ver |-> srv.ver, status |-> "Completed",
                          stage |-> srv.stage, deleted |-> srv.deleted]
                BY <1>6, <3>2, <3>5 DEF Serve
            <4>2. QED
                BY <3>1, <4>1, ServerElim, ServerIntro DEF CampaignStatus
        <3>3. CASE dlg # "complete"
            <4>1. srv' = [ver |-> srv.ver, status |-> srv.status,
                          stage |-> srv.stage, deleted |-> TRUE]
                BY <1>6, <3>3, <3>5 DEF Serve
            <4>2. QED
                BY <3>1, <4>1, ServerElim, ServerIntro
        <3>4. QED
            BY <3>2, <3>3
    <2>2. QED
        BY <1>0, <1>6, <2>1 DEF Serve, IInv, TypeOK, RowsShape, Control, ExpandedDetailFresh
<1>7. CASE Succeed
    <2>1. CASE dlg = "complete"
        <3>1. dlg' = "none" /\ ~completeEnabled' /\ ~doPoll'
            BY <1>7, <2>1 DEF Succeed
        <3>2. QED
            BY <1>0, <1>7, <3>1 DEF Succeed, IInv, TypeOK, RowsShape, Control, ExpandedDetailFresh
    <2>2. CASE dlg = "delete"
        <3>1. dlg' = "deleted" /\ UNCHANGED <<completeEnabled, doPoll>>
            BY <1>7, <2>2 DEF Succeed
        <3>2. QED
            BY <1>0, <1>7, <3>1 DEF Succeed, IInv, TypeOK, RowsShape, Control, ExpandedDetailFresh
    <2>3. QED
        BY <1>7, <2>1, <2>2 DEF Succeed
<1>8. CASE Leave
    <2>1. view \in {"shown", "left"}
        BY <1>0, <1>8 DEF Leave, Control
    <2>2. QED
        BY <1>0, <1>8, <2>1 DEF Leave, IInv, TypeOK, RowsShape, Control, ExpandedDetailFresh
<1>9. CASE UNCHANGED vars
    BY <1>0, <1>9 DEF vars, IInv, TypeOK, RowsShape, Control, ExpandedDetailFresh
<1>10. QED
    BY <1>1, <1>2, <1>3, <1>4, <1>5, <1>6, <1>7, <1>8, <1>9, <1>11, <1>12 DEF Next

(* The page's state is always well typed.                                 *)
THEOREM TypeCorrect == Spec => []TypeOK
<1>1. IInv => TypeOK
    BY DEF IInv
<1>2. QED
    BY <1>1, InitIInv, NextIInv, PTL DEF Spec

(* An expanded timeline row always shows the timeline of the campaign the *)
(* page holds, for every number of targets, stages, events and requests:  *)
(* poll() re-renders every shown child row of the table it refreshes.     *)
THEOREM DetailAlwaysFresh == Spec => []ExpandedDetailFresh
<1>1. IInv => ExpandedDetailFresh
    BY DEF IInv
<1>2. QED
    BY <1>1, InitIInv, NextIInv, PTL DEF Spec

(* Once the complete button is disabled (completion succeeded, or load()  *)
(* found the campaign completed), refresh() issues no results request.    *)
THEOREM NoFetchAfterCompletionHolds == Spec => NoFetchAfterCompletion
<1>1. IInv /\ [Next]_vars => [~completeEnabled => fetches' = fetches]_vars
    <2> SUFFICES ASSUME IInv, [Next]_vars, ~completeEnabled
                 PROVE  fetches' = fetches
        OBVIOUS
    <2>1. ~doPoll
        BY DEF IInv, Control
    <2>2. CASE Refresh
        BY <2>1, <2>2 DEF Refresh
    <2>3. CASE ~Refresh
        BY <2>3 DEF Next, vars, ServerEvent, Reply, ToggleDetail, ConfirmComplete,
                    ConfirmDelete, Serve, Succeed, Fail, Leave
    <2>4. QED
        BY <2>2, <2>3
<1>2. QED
    BY <1>1, InitIInv, NextIInv, PTL DEF Spec, NoFetchAfterCompletion

(* No refresh collapses an expanded timeline row: load() builds rows only *)
(* before any exists, and poll() rewrites a row's status slot and child   *)
(* but keeps whether it is shown, so only the user's click hides it.     *)
THEOREM RowsPersist == Spec => ExpandedRowsPersist
<1>1. IInv /\ [Next]_vars =>
        [\A t \in DOMAIN rows :
            (rows[t].shown /\ ~(t \in DOMAIN rows' /\ rows'[t].shown))
                => ToggleDetail(t)]_vars
    <2> SUFFICES ASSUME IInv, [Next]_vars, NEW t \in DOMAIN rows, rows[t].shown,
                        ~(t \in DOMAIN rows' /\ rows'[t].shown)
                 PROVE  ToggleDetail(t)
        OBVIOUS
    <2>0. TypeOK /\ RowsShape /\ Control
        BY DEF IInv
    \* A step that leaves rows alone cannot hide row t.
    <2>1. rows' # rows
        OBVIOUS
    <2>2. ASSUME NEW r \in pending, NEW ok \in BOOLEAN, Reply(r, ok)
          PROVE  FALSE
        <3>1. CASE r.kind = "load"
            \* The load reply comes while loading, when there are no rows.
            <4>1. view = "loading"
                BY <2>0, <2>2, <3>1 DEF Control
            <4>2. DOMAIN rows = {}
                BY <2>0, <4>1 DEF RowsShape
            <4>3. QED
                BY <4>2
        <3>2. CASE r.kind # "load" /\ ok
            <4>1. rows[t] \in Row
                BY <2>0 DEF TypeOK
            <4>2. rows[t] = [status |-> rows[t].status, col6 |-> rows[t].col6,
                             shown |-> rows[t].shown, child |-> rows[t].child]
                BY <4>1, RowElim
            <4>3. CASE view = "shown"
                <5>1. rows' = [u \in DOMAIN rows |->
                                 [rows[u] EXCEPT !.col6 = r.snap.stage[u],
                                                 !.child = IF rows[u].shown
                                                              THEN r.snap.ver ELSE @]]
                    BY <2>2, <3>2, <4>3 DEF Reply, PollSuccess
                <5>2. t \in DOMAIN rows' /\ rows'[t].shown = rows[t].shown
                    BY <5>1, <4>2
                <5>3. QED
                    BY <5>2
            <4>4. CASE view # "shown"
                BY <2>1, <2>2, <3>2, <4>4 DEF Reply, PollSuccess
            <4>5. QED
                BY <4>3, <4>4
        <3>3. CASE r.kind # "load" /\ ~ok
            BY <2>1, <2>2, <3>3 DEF Reply
        <3>4. QED
            BY <3>1, <3>2, <3>3
    <2>3. ASSUME NEW u \in Targets, ToggleDetail(u)
          PROVE  ToggleDetail(t)
        <3>1. CASE u = t
            BY <2>3, <3>1
        <3>2. CASE u # t
            <4>1. DOMAIN rows' = DOMAIN rows /\ rows'[t] = rows[t]
                BY <2>3, <3>2 DEF ToggleDetail
            <4>2. QED
                BY <4>1
        <3>3. QED
            BY <3>1, <3>2
    <2>4. QED
        BY <2>1, <2>2, <2>3 DEF Next, vars, ServerEvent, Refresh, ConfirmComplete,
                               ConfirmDelete, Serve, Succeed, Fail, Leave
<1>2. QED
    BY <1>1, InitIInv, NextIInv, PTL DEF Spec, ExpandedRowsPersist

=============================================================================
