------------------------------ MODULE ListPage ------------------------------
(***************************************************************************)
(* The list pages groups.js and usbs.js: load() fetches the list          *)
(* asynchronously and redraws the table or the empty message; the groups *)
(* page saves through a modal (synchronous POST/PUT, then load() again)   *)
(* and deletes synchronously, the USB page deletes asynchronously; the OK *)
(* of "Deleted!" reloads the page.  A list is reduced to the set of its   *)
(* item ids and the backend's version of it.                              *)
(***************************************************************************)
EXTENDS Integers, FiniteSets

CONSTANTS
    Pages,        \* the pages checked: "groups", "usbs" or both
    Items,        \* item ids
    New,          \* the id -1 of edit(-1): a new group
    MaxVersion,   \* bound on backend changes
    MaxLoads      \* bound on list requests

ASSUME ListPageAssumption ==
    /\ Pages \subseteq {"groups", "usbs"} /\ Pages # {}
    /\ New \notin Items
    /\ MaxVersion \in Nat /\ MaxLoads \in Nat \ {0}

VARIABLES
    page,      \* the page loaded: "groups" or "usbs"
    srv,       \* the backend list: [items, ver]
    shown,     \* the visible ones of #xTable, #emptyMessage, #loading
    list,      \* the global groups / usbs
    rows,      \* the rows of the DataTable
    pending,   \* outstanding GET requests, with the list they will return
    loads,     \* requests sent
    applied,   \* version of the last list reply applied (-1: none yet)
    dlg,       \* "none", "modal", "deleting" (async DELETE out), "deleted"
    editing    \* the id the modal saves, or New

vars == <<page, srv, shown, list, rows, pending, loads, applied, dlg, editing>>


\* load(): hide the table and the empty message, show #loading and send
\* GET /groups/summary (or /usbs/), both asynchronous; the backend answers
\* with its list as it is after the step (save() sends it after its POST).
StartLoad ==
    /\ loads < MaxLoads
    /\ shown' = {"loading"}
    /\ pending' = pending \cup {[id |-> loads + 1, snap |-> srv']}
    /\ loads' = loads + 1

\* $(document).ready(load), and location.reload() re-running it.
PageStart ==
    /\ list' = {}
    /\ rows' = {}
    /\ applied' = -1
    /\ dlg' = "none"
    /\ editing' = New

Init ==
    /\ page \in Pages
    /\ srv \in [items: SUBSET Items, ver: {0}]
    /\ shown = {"loading"}
    /\ list = {} /\ rows = {}
    /\ pending = {[id |-> 1, snap |-> srv]}
    /\ loads = 1
    /\ applied = -1
    /\ dlg = "none"
    /\ editing = New

-----------------------------------------------------------------------------
(* Another administrator, or a USB device registering, changes the list.  *)
ServerChange(s) ==
    /\ srv.ver < MaxVersion
    /\ s # srv.items
    /\ srv' = [items |-> s, ver |-> srv.ver + 1]
    /\ UNCHANGED <<shown, list, rows, pending, loads, applied, dlg, editing>>

\* Mutant of LoadReply: the table drawn without `groups = response.groups`.
LoadReplyNoList(r, ok) ==
    /\ r \in pending
    /\ pending' = pending \ {r}
    /\ \/ /\ ok /\ r.snap.items # {}
          /\ shown' = (shown \ {"loading", "empty"}) \cup {"table"}
          /\ rows' = r.snap.items
          /\ applied' = r.snap.ver
          /\ UNCHANGED list
       \/ /\ ok /\ r.snap.items = {}
          /\ shown' = (shown \ {"loading"}) \cup {"empty"}
          /\ applied' = r.snap.ver
          /\ UNCHANGED <<list, rows>>
       \/ /\ ~ok
          /\ UNCHANGED <<shown, list, rows, applied>>
    /\ UNCHANGED <<srv, loads, dlg, editing>>

(* The reply to a list request.  Success hides #loading; a non-empty list *)
(* is stored, the table redrawn and shown and the empty message hidden;   *)
(* an empty one shows the empty message and touches nothing else.  An    *)
(* error only flashes "Error fetching ...": #loading stays shown.         *)
LoadReply(r, ok) ==
    /\ r \in pending
    /\ pending' = pending \ {r}
    /\ \/ /\ ok /\ r.snap.items # {}
          /\ shown' = (shown \ {"loading", "empty"}) \cup {"table"}
          /\ list' = r.snap.items /\ rows' = r.snap.items
          /\ applied' = r.snap.ver
       \/ /\ ok /\ r.snap.items = {}
          /\ shown' = (shown \ {"loading"}) \cup {"empty"}
          /\ applied' = r.snap.ver
          /\ UNCHANGED <<list, rows>>
       \/ /\ ~ok
          /\ UNCHANGED <<shown, list, rows, applied>>
    /\ UNCHANGED <<srv, loads, dlg, editing>>

-----------------------------------------------------------------------------
(* edit(id) from the New Group button or a row's pencil: bind Save to     *)
(* save(id) and open the modal (the synchronous GET of the group only    *)
(* fills the name field).                                                  *)
OpenEdit(id) ==
    /\ page = "groups"
    /\ dlg = "none"
    /\ id = New \/ ("table" \in shown /\ id \in rows)
    /\ dlg' = "modal"
    /\ editing' = id
    /\ UNCHANGED <<srv, shown, list, rows, pending, loads, applied>>

(* save(id): the synchronous POST (new) or PUT (edit) succeeds: the      *)
(* backend has the group, load() runs and the modal closes.  A failed     *)
(* request (a PUT of a group deleted meanwhile, say) only shows           *)
(* modalError: the modal stays open and nothing else changes.            *)
Save ==
    /\ dlg = "modal"
    /\ srv.ver < MaxVersion
    /\ IF editing = New
         THEN \E i \in Items \ srv.items :
                 srv' = [items |-> srv.items \cup {i}, ver |-> srv.ver + 1]
         ELSE /\ editing \in srv.items
              /\ srv' = [srv EXCEPT !.ver = @ + 1]
    /\ StartLoad
    /\ dlg' = "none"
    /\ UNCHANGED <<list, rows, applied, editing>>

(* Closing the modal (dismiss()).                                          *)
CloseModal ==
    /\ dlg = "modal"
    /\ dlg' = "none"
    /\ UNCHANGED <<srv, shown, list, rows, pending, loads, applied, editing>>

-----------------------------------------------------------------------------
(* deleteGroup(id) / deleteUsb(id): the row's trash button, after the     *)
(* lookup in groups / usbs and the confirmation.  The groups DELETE is     *)
(* synchronous and resolves at once: deleted, or an error shown in the    *)
(* dialog, which the user cancels; the USB DELETE is sent asynchronously. *)
ConfirmDelete(id) ==
    /\ dlg = "none"
    /\ "table" \in shown
    /\ id \in rows
    /\ id \in list
    /\ \/ /\ page = "groups"
          /\ id \in srv.items
          /\ srv.ver < MaxVersion
          /\ srv' = [items |-> srv.items \ {id}, ver |-> srv.ver + 1]
          /\ dlg' = "deleted"
          /\ UNCHANGED editing
       \/ /\ page = "usbs"
          /\ dlg' = "deleting"
          /\ editing' = id
          /\ UNCHANGED srv
    /\ UNCHANGED <<shown, list, rows, pending, loads, applied>>

(* The reply to the asynchronous DELETE /usbs/:id.                          *)
DeleteReply(ok) ==
    /\ dlg = "deleting"
    /\ \/ /\ ok
          /\ editing \in srv.items
          /\ srv.ver < MaxVersion
          /\ srv' = [items |-> srv.items \ {editing}, ver |-> srv.ver + 1]
          /\ dlg' = "deleted"
       \/ /\ ~ok
          /\ dlg' = "none"
          /\ UNCHANGED srv
    /\ UNCHANGED <<shown, list, rows, pending, loads, applied, editing>>

\* Mutant of Reload: the page's elements kept across the reload.
ReloadKeepView ==
    /\ dlg = "deleted"
    /\ PageStart
    /\ loads < MaxLoads
    /\ shown' = shown \cup {"loading"}
    /\ pending' = {[id |-> loads + 1, snap |-> srv]}
    /\ loads' = loads + 1
    /\ UNCHANGED srv

(* OK on "Deleted!": location.reload() starts the page afresh; the old    *)
(* page's outstanding requests are abandoned.                              *)
Reload ==
    /\ dlg = "deleted"
    /\ PageStart
    /\ loads < MaxLoads
    /\ shown' = {"loading"}
    /\ pending' = {[id |-> loads + 1, snap |-> srv]}
    /\ loads' = loads + 1
    /\ UNCHANGED srv

\* The page stays the same: location.reload() reloads it.
Next ==
    /\ UNCHANGED page
    /\ \/ \E s \in SUBSET Items : ServerChange(s)
       \/ \E r \in pending, ok \in BOOLEAN : LoadReply(r, ok)
       \/ \E id \in Items \cup {New} : OpenEdit(id)
       \/ Save
       \/ CloseModal
       \/ \E id \in Items : ConfirmDelete(id)
       \/ \E ok \in BOOLEAN : DeleteReply(ok)
       \/ Reload

Spec == Init /\ [][Next]_vars

-----------------------------------------------------------------------------
(* The table and the empty message are never shown together.              *)
ViewExclusive == ~({"table", "empty"} \subseteq shown)

(* On the USB page the table and the empty message are never shown        *)
(* together, however list replies, outside changes, the asynchronous      *)
(* DELETE and reloads interleave: the page sends a list request only from *)
(* $(document).ready and location.reload(), so one is out at a time and  *)
(* each reply meets the #loading-only view load() left.                   *)
UsbsViewExclusive == page = "usbs" => ViewExclusive

====
