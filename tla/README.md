# TLA+ models of the GophishUSB web front end

The code under `src/static/js/src/app/` is the browser side of GophishUSB. It is
a set of jQuery pages that talk to a REST backend through `query()` in
`gophishusb.js`. The backend itself is not in `src/`. The one page with real
concurrency is the campaign results page (`campaign_results.js`). It has:

- an asynchronous `load()`;
- a `setTimeout` loop (`refresh()` → `poll()`, every 60 s) whose replies may
  overlap and arrive in any order;
- detail rows that the user expands and collapses between polls;
- two confirmation dialogs whose `preConfirm` sends the *complete* request
  (asynchronous) or the *delete* request (synchronous, `async: false`).

The page also has pure algorithms that `load()` and `poll()` run on every
reply:

- the funnel backfill and donut percentages;
- the per-target timeline filter (`renderTimeline`);
- the map bubbles (`updateMap`), which are meant to group results by IP.

## Inventory

| Part | Source | State | Operations | Module |
|---|---|---|---|---|
| Results page control | campaign_results.js 82-155, 408-691; gophishusb.js 38-50, 95-106 | `campaign`, `doPoll`, `setRefresh`, table rows with their child rows, complete button, Swal dialog | ready/load, load reply (ok / error), refresh tick, poll reply (ok / no handler), details click, complete, delete, OK → leave | `CampaignView` |
| Funnel and donuts | campaign_results.js 64-70, 431-462, 556-576, 618-639 | `target_series_data` | backfill loop, percentages | `Funnel` |
| Timeline detail | campaign_results.js 194-224 | — | filter by hostname, statuses lookup | `Timeline` |
| Map bubbles | campaign_results.js 359-388 | `bubbles` | skip 0,0, search by `bubble.ip`, push | `MapBubbles` |
| Chart series, CSV export, flashes | campaign_results.js 158-357; gophishusb.js | — | rendering | not modelled (pure I/O) |
| Results page, abstract | spec 4.2 lifecycle | phase, polling, closed, requests sent | fetch, show, not found, complete, leave | `CampaignSession` |
| Dashboard charts | dashboard.js 46-51, 120-161 | — | pie sums and shares | `DashboardStats` |
| Dashboard list | dashboard.js 53-61, 244-320 | campaign list | load once, confirm + delete + reload | not modelled (no overlap) |
| Groups and USB pages | groups.js, usbs.js 20-49 | backend list, shown elements, `groups`/`usbs`, table rows, list requests, modal / dialog | load, reply (non-empty / empty / error), edit, save (sync) → load, dismiss, delete (groups sync, USB async), OK → reload | `ListPage` |
| Settings | settings.js | one form, `use_map` flag | submit | not modelled (no concurrency) |

## CampaignView

`CampaignView.tla` is the page together with an environment backend. Its
variables map to the code as follows.

| Variable | Code |
|---|---|
| `srv` | the backend campaign: version, status, stage of each target, deleted flag |
| `campaign` | the global `campaign` (`None` before the first reply) |
| `view` | `#loading` / results shown / "Campaign not found!" / navigated away |
| `rows` | the DataTable rows. Per target: the status cell (column 5), the stray cell `rowData[6]`, whether the child row is shown, and which campaign version the child was rendered from |
| `doPoll`, `timer` | `doPoll` and the armed `setRefresh` timeout |
| `pending`, `fetches` | outstanding GET `/results` requests, each carrying the snapshot the backend will answer with; `fetches` counts requests sent, bounded by `MaxFetches` |
| `completeEnabled` | `#complete_button` not disabled |
| `dlg`, `served` | the Swal dialog, and whether the backend applied its request |

The actions map to the code as follows:

- `Init` is `$(document).ready`: load sent, first timeout armed.
- `Refresh` is `refresh()`.
- `Reply` is a reply to a request. `LoadSuccess` and `PollSuccess` are the two
  success handlers.
- `ToggleDetail` is the details-control click.
- `ConfirmComplete`, `ConfirmDelete`, `Serve`, `Succeed`, `Fail` and `Leave` are
  the two dialogs, the backend applying their request, and the OK click.
- `ServerEvent` is the backend recording a target event.

A request's reply may arrive in any order and may fail. A request sent after
deletion cannot succeed. The synchronous DELETE blocks the page: `Refresh` and
`Reply` are disabled while `dlg = "delete"`.

**Fairness.** `SF_vars(Refresh)`: an armed timeout runs whenever the event loop
is free. Strong fairness is needed because a user may keep re-trying a failing
delete, which disables the timer again and again. `WF_vars(DeleteReturns)`: a
synchronous XHR returns. Ajax replies get no fairness: `query()` sets no
timeout, so a reply may never arrive. The user is never forced to act.

## CampaignSession and the refinement

`CampaignSession.tla` states what the results page promises, without tables,
charts or replies. It has four variables: `phase` (loading, shown, notfound,
left), `polling`, `closed` and `sent`. Its actions are:

- `Fetch`: a request, only while polling and not left;
- `Show`: the first reply, which may close the campaign and stop polling;
- `NotFound`: the first reply failed;
- `Complete`: the user completes the shown campaign, which stops polling;
- `Leave`: from the shown view.

`CampaignView` maps onto it with `Session == INSTANCE CampaignSession WITH
phase <- view, polling <- doPoll /\ timer, closed <- ~completeEnabled, sent <-
fetches`, and `SessionRefined == Session!SSpec` is a property of the
`campaign_view` run. Every poll reply, detail click, dialog step and backend
event is a stutter of the session. A refresh with `doPoll` is `Fetch`, the load
reply is `Show` or `NotFound`, a successful completion is `Complete` and the
first OK after deletion is `Leave`.

`CampaignSession` also states two commitments of the session:

- `SessionSafe`: a closed campaign is not polled;
- `StableStep` / `SessionStable`: nothing is undone. A closed campaign stays
  closed, a stopped poll loop never restarts, the view never returns to
  loading, and the not-found and left views are final.

They are proved of the page through the refinement; see Proofs.

## ListPage (groups.js, usbs.js)

`Page` selects the groups or the USB page. A list is the set of its item ids
(model values) and the backend's version of it. The variables are:

| Variable | Code |
|---|---|
| `srv` | the backend list and its version |
| `shown` | which of `#groupTable`/`#usbTable`, `#emptyMessage`, `#loading` are visible |
| `list`, `rows` | the global `groups`/`usbs`, and the ids of the DataTable rows |
| `pending`, `loads` | outstanding list requests with the list each will return; requests sent (`MaxLoads`) |
| `applied` | the version of the last list applied |
| `dlg`, `editing` | the modal or Swal dialog, and the id it acts on (`New` is edit(-1)) |

The actions map to the code as follows:

- `LoadReply` is the success and error handlers of `load()`.
- `OpenEdit` is `edit(id)`.
- `Save` is a successful `save()`: the synchronous POST/PUT, then `load()` and
  the modal closing. A failed save only shows `modalError`, so it is a stutter.
- `CloseModal` is `dismiss`.
- `ConfirmDelete` is `deleteGroup`/`deleteUsb` after their lookup and the
  confirmation.
- `DeleteReply` is the asynchronous USB delete returning.
- `Reload` is the OK of "Deleted!".
- `ServerChange` is another administrator, or a device registering.

No fairness is assumed, and the runs check safety only. The runs stop checking
deadlock because the bounds end every behaviour.

## DashboardStats (dashboard.js)

`Init` enumerates every list of one or two campaigns with `stats.total` up to 3.
The stats are cumulative (`total >= active >= mount >= macro >= exec`), as the
funnel of spec 8 defines stage counts. `AddStats` is one campaign of the outer
`$.each`, with the falsy test `!stats_series_data[status]`. `SumStats` folds it
over the list. `Share` is `Math.floor(count / total * 100)`, which gives NaN on
0/0. `Pies` is each pie's data: the share and the remainder.

## Runs

Every MC run of `CampaignView` uses:

- targets {t1, t2} and stages {s1, s2}, both model values;
- `MaxVersion = 2`, so the backend changes twice;
- `MaxFetches = 3`: the load and two polls, which is enough for two replies to
  overlap and one to be stale.

| Run | Expect | What it shows |
|---|---|---|
| `campaign_view` | pass (712k states) | `SessionRefined`: the page implements `CampaignSession`; `TypeOK`; `ExpandedDetailFresh`: an expanded detail row was rendered from the campaign the page now holds (which may be an older one, see `out_of_order_replies`); `ExpandedRowsPersist`: only a click collapses a row; `PollingWindsDown`: after `doPoll` is cleared the timer disarms |
| `status_cell_stale` | violation | `poll()` writes `rowData[6]`, so the status column never updates (**code bug**, line 472) |
| `out_of_order_replies` | violation | an older reply overwrites a newer campaign (line 678/690) |
| `poll_after_completed_seen` | violation | a Completed campaign seen by a poll is polled on |
| `funnel` | pass | `CountsMatchReference`: backfill = reference count of results at or beyond each stage (which also makes the funnel monotone and the counts ≤ the number of results) |
| `donuts_empty_campaign` | violation | 0/0 gives NaN donuts |
| `timeline_unknown_message` | violation | an unknown message throws instead of showing Unknown |
| `map_bubbles` | violation | `BubblesGroupedByIP`: two drawn results of one IP give two radius-2 bubbles, because the search compares `bubble.ip`, which the pushed bubbles never have (**code bug**, line 371) |
| `list_pages` | pass | `UsbsViewExclusive`: the USB page never shows its table and the empty message together, across list replies, outside changes, the asynchronous DELETE and reloads. Its `load()` has the groups page's flaw (line 73 shows the empty message without hiding the table), but only one list request is out at a time. Both pages run (`Init` picks the page), so every action fires |
| `groups_view_exclusive` | violation | creating the first group while the first load (of the empty list) is out: the save's reply shows the table, then the old empty reply shows the empty message too (**code bug**, line 140) |
| `dashboard_stats` | pass | `SeriesMatchReference`: the summed pie series equal a reference sum, despite the falsy-zero test; `PiesWellFormed`: with some target, every pie is a share in 0..100 and its remainder |

The pure modules enumerate every input up to the bound:

- `Funnel`: up to 3 results;
- `Timeline`: up to 3 events over two hosts and one unknown message (the violation needs one);
- `MapBubbles`: up to 4 results over two IPs and two locations plus 0,0 (the violation needs two).

- `ListPage`: two items, two outside changes and three list requests. This is
  enough for the page's first load and a save's load to overlap, for a reply to
  be stale, and for an asynchronous USB delete to race a change.
- `DashboardStats`: up to two campaigns with up to three targets each, so zero
  counts (the falsy test) occur both before and after non-zero ones.

These bounds include empty inputs, repeats, interleavings of hosts and results
at every stage.

`Percent` uses exact integer division. IEEE `Math.floor(c / n * 100)` agrees
with it for every n < 50, so the model is exact at the checked bounds. The first
disagreement is 29 of 50, which gives 57; this is listed as an uncovered hazard.

Every property of a passing run has a mutant in `PROJECT.json`: a plausible bug
of the mapped code under which TLC finds the property violated.

## Proofs

### CampaignViewProofs.tla, CampaignSessionProofs.tla

The proofs hold for all `Targets`, `Stages`, `MaxVersion` and `MaxFetches` that
satisfy `ConstantsAssumption`. The proved theorems are:

- `TypeCorrect`: `Spec => []TypeOK`;
- `DetailAlwaysFresh`: `Spec => []ExpandedDetailFresh`;
- `NoFetchAfterCompletionHolds`: `Spec => NoFetchAfterCompletion`: once the
  button is disabled, no request is sent. No run checks it, because
  `SessionRefined` implies it;
- `RowsPersist`: `Spec => ExpandedRowsPersist`. It is an action property whose
  step proof cites `ToggleDetail(t)`, with no `ENABLED`.

All four rest on the inductive invariant `IInv`, which is `TypeOK /\ RowsShape
/\ Control /\ ExpandedDetailFresh`. `ExpandedDetailFresh` alone is not
inductive. Before the table exists there is no campaign, so a load reply must
build rows for exactly the targets (`RowsShape`). `Control` adds four facts:

- a load request is pending only while loading, and there is at most one, so
  the load-failure branch cannot meet shown rows;
- a dialog is open only over a shown or left view;
- a disabled complete button implies `~doPoll`, which gives
  `NoFetchAfterCompletion`.

TLC checked `IInv` as an invariant before it was proved.

The proof of `NextIInv` has one case per action. `RowsPersist` uses `IInv` in
two ways. A load reply finds no rows, because `Control` gives a loading view and
`RowsShape` gives an empty table. A poll reply's `EXCEPT` on `col6` and `child`
keeps the `shown` field, as `RowElim` shows. Record-set membership goes
through the field lemmas `ServerIntro`/`ServerElim`, `RowIntro`/`RowElim`,
`SnapElim` and `RequestElim`.

`CampaignSessionProofs.tla` proves `Refinement`: `Spec => SessionRefined`. The
proof needs two more invariants (`SessionInv`). First, the page is left only
with `dlg = "deleted"`. Second, the complete dialog is open only while the
button is enabled. With these, `Succeed` of the complete dialog finds the view
shown and the campaign not yet closed, which `Complete` requires, and `Leave`
from a left view is a stutter. `Control` already gives that a load reply finds
the view loading, which is what `Show`/`NotFound` require. The lemma
`StepRefines` (`IInv /\ SessionInv /\ [Next]_vars => [Session!SNext]_...`)
has one case per action. TLC checked `IInv /\ SessionInv` on the
`campaign_view` instance first.

The refinement is then used to prove two facts about the page. Each is
proved once, on the abstract session, and carried over by `Refinement` and PTL:

- `CompletedNotPolled`: `Spec => []Session!SessionSafe`. Whenever
  `#complete_button` is disabled, `doPoll` is cleared or no refresh timeout is
  armed. The abstract invariant is inductive as it stands
  (`SessionSafeInductive`).
- `SessionNeverUndone`: `Spec => Session!SessionStable`. No handler of the page
  does any of the following, however replies, ticks and clicks interleave:
  - re-enables the complete button;
  - restarts a stopped poll loop;
  - sends the page back to loading;
  - leaves the not-found or left view.

  Every session action satisfies `StableStep` (`SessionStepStable`).

TLC checked both on the `campaign_view` instance before they were proved. They
are not run properties, because no plausible single-line bug of the page breaks
them without also breaking `SessionRefined`, which the run checks.

### ListPageProofs.tla

The theorems hold for every `Pages`, `Items`, `MaxVersion` and `MaxLoads`
allowed by `ListPageAssumption`:

- `UsbsViewAlwaysExclusive`: `Spec => []UsbsViewExclusive`, the property of
  the `list_pages` run. This is
  the positive side of the `groups_view_exclusive` finding. The strengthening
  `UsbsSingleLoad` says that on the USB page the modal is never open, and that
  either nothing is pending and the view is exclusive, or exactly one request is
  pending with only `#loading` shown. The modal conjunct is needed because
  `Save` has no page guard of its own: it is unreachable on the USB page only
  because `OpenEdit` is. TLC checked `UsbsSingleLoad` on the `list_pages`
  instance before it was proved.

### FunnelProofs.tla, DashboardStatsProofs.tla

These two modules hold lemmas about the loop bodies, for every input:

- `AddResultMonotone` and `AddResultBounded`: one backfill iteration keeps the
  funnel monotone and adds at most one per stage.
- `PercentRange` and `PieShares`: the floor percentage of a count within a
  non-empty total, and its remainder, lie in 0..100.
- `AddStatsIsSum`: the falsy test of `generateStatsPieCharts` computes a plain
  sum.
- `AddStatsWithinTotal`: adding a campaign keeps every stage's sum within the
  summed total.

These are the induction steps of `CountsMatchReference`'s consequences (the
funnel is monotone, the counts are bounded), of `SeriesMatchReference` and `PiesWellFormed`. The induction itself is not done
here; see below.

### MapBubblesProofs.tla, TimelineProofs.tla

These modules prove facts about the loop bodies of `updateMap` and
`renderTimeline` for every set of IPs, locations and hostnames, and for every
input. They need only `SequenceTheorems`.

- `NeverMerges` (with `NoBubbleHasIP` and `InternalSkipped`): for any bubbles
  the loop can build, every drawn result pushes a new radius-2 bubble. The
  pushed objects have no `ip` property, so `SameIP` never holds.
- `RepeatedIPDrawnTwice`: a drawn result whose IP already has a bubble adds a
  second bubble with that name and leaves the first one unchanged. This is the
  `map_bubbles` violation, for lists of any length.
- `RenderStepOrdered` (with `ErrorSticky`) is about one iteration of
  `renderTimeline` (`RenderStep`), starting from listed events that the row
  shows and that are in timeline order:
  - an event the row shows whose message has no `statuses` entry throws;
  - otherwise the event is appended exactly when it is campaign-level or the
    row's own;
  - the list stays in timeline order;
  - once thrown, the `TypeError` is final.

This says what each iteration of the filter lists and that the order is kept.
No run compares the whole loop with a reference: such a reference would restate
the same guard.

Some results are checked by TLC only:

- `PollingWindsDown`, because liveness under fairness is beyond TLAPS.
- What the loops compute over a whole list: `Counts`, `SumStats`,
  `RenderTimeline` and `UpdateMap` are recursive functions over a sequence.
  Unfolding them, and inducting over the sequence, needs the library's
  recursion and induction theorems, whose operator parameter the installed
  provers cannot instantiate. `CountsMatchReference`, `SeriesMatchReference`
  and `PiesWellFormed` therefore rest on the runs, with the step lemmas above
  proved for every input.

## Known issues without a run

These were found while modelling. They are not among the runs, and
`PROJECT.json` lists them as hazards.

- After "Campaign not found!" the results page keeps polling, although spec 4.2
  calls Error terminal. `CampaignSession` records this behaviour: its `NotFound`
  leaves polling on.
- The groups page's two overlapping list replies can arrive in reverse order,
  and the older list is drawn last. This is the same overlap as
  `groups_view_exclusive`.
- The dashboard pies are NaN when no campaign has a target. This is the same
  0/0 as `donuts_empty_campaign`.
- `generateTimelineChart` plots `(macro + exec) / total`. With cumulative stage
  counts a target is counted twice, and the percentage reaches 200. Whether the
  backend's counts are cumulative is not in this repository.
- Even if the search in `updateMap` compared `bubble.name`, a bubble's radius
  would be count + 1, which is not proportional to the count as spec 4.2
  step 4 says.

## Not modelled

- The chart option objects, CSV export, flashes and HTML escaping: pure I/O.
- The throw of `poll()` on an unknown message, after `campaign = c`: it is shown
  in `Timeline`, not yet in `CampaignView`.
- Row matching on `result.id` against `target_id`: the backend's ids are not in
  this repository.
- The dashboard's campaign list and delete: the list is loaded once per page,
  and a delete ends in `location.reload()`, so no two requests overlap.
- The settings page: one form post and a checkbox, with no concurrency.
- The groups and USB modal texts (names, the GET that fills the name field):
  these only fill text.

## Plan for later sittings

1. The unknown-message abort inside `poll()` and `load()`, as a
   partial-failure step of `CampaignView`.
2. Further proofs: `Control` on its own as a theorem, and a type invariant for
   `ListPage`.
