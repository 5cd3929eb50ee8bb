---------------------------- MODULE ListPageProofs ----------------------------
(***************************************************************************)
(* Proofs about the list pages for every value of the constants.          *)
(***************************************************************************)
EXTENDS ListPage, TLAPS

(* The USB page has no modal, and it sends a list request only from       *)
(* $(document).ready and from location.reload(), each a fresh page: at    *)
(* most one request is out, and while it is, only #loading is shown.      *)
UsbsSingleLoad ==
    page = "usbs" =>
        /\ dlg # "modal"
        /\ \/ pending = {} /\ ViewExclusive
           \/ \E r0 \in pending : pending = {r0} /\ shown = {"loading"}

USE ListPageAssumption

(* On the USB page no step breaks UsbsSingleLoad: the modal and the save  *)
(* that sends a second load() exist only on the groups page.              *)
LEMMA UsbsStep == UsbsSingleLoad /\ [Next]_vars => UsbsSingleLoad'
<1> SUFFICES ASSUME UsbsSingleLoad, [Next]_vars, page' = "usbs"
             PROVE  UsbsSingleLoad'
    BY DEF UsbsSingleLoad
<1>0. page = "usbs"
    BY DEF Next, vars
<1>1. CASE \E s \in SUBSET Items : ServerChange(s)
    BY <1>0, <1>1 DEF ServerChange, UsbsSingleLoad, ViewExclusive
<1>2. ASSUME NEW r \in pending, NEW ok \in BOOLEAN, LoadReply(r, ok)
      PROVE  UsbsSingleLoad'
    \* The one request is answered: nothing is pending afterwards, and the
    \* reply shows at most one of the table and the empty message.
    <2>1. pending = {r} /\ shown = {"loading"}
        BY <1>0, <1>2 DEF UsbsSingleLoad, LoadReply
    <2>2. pending' = {}
        BY <1>2, <2>1 DEF LoadReply
    <2>3. shown' \in {{"table"}, {"empty"}, {"loading"}}
        BY <1>2, <2>1 DEF LoadReply
    <2>4. dlg' # "modal"
        BY <1>0, <1>2 DEF UsbsSingleLoad, LoadReply
    <2>5. QED
        BY <2>2, <2>3, <2>4 DEF UsbsSingleLoad, ViewExclusive
<1>3. CASE \E id \in Items \cup {New} : OpenEdit(id)
    BY <1>0, <1>3 DEF OpenEdit
<1>4. CASE Save
    BY <1>0, <1>4 DEF Save, UsbsSingleLoad
<1>5. CASE CloseModal
    BY <1>0, <1>5 DEF CloseModal, UsbsSingleLoad, ViewExclusive
<1>6. CASE \E id \in Items : ConfirmDelete(id)
    BY <1>0, <1>6 DEF ConfirmDelete, UsbsSingleLoad, ViewExclusive
<1>7. CASE \E ok \in BOOLEAN : DeleteReply(ok)
    BY <1>0, <1>7 DEF DeleteReply, UsbsSingleLoad, ViewExclusive
<1>8. CASE Reload
    BY <1>0, <1>8 DEF Reload, PageStart, UsbsSingleLoad
<1>9. CASE UNCHANGED vars
    BY <1>0, <1>9 DEF vars, UsbsSingleLoad, ViewExclusive
<1>10. QED
    BY <1>1, <1>2, <1>3, <1>4, <1>5, <1>6, <1>7, <1>8, <1>9 DEF Next

(* The USB page never shows its table and the empty message together, for *)
(* any number of devices, changes and requests: unlike save() on the      *)
(* groups page, nothing there sends a second load() while one is out.     *)
THEOREM UsbsViewAlwaysExclusive == Spec => []UsbsViewExclusive
<1>1. Init => UsbsSingleLoad
    BY DEF Init, UsbsSingleLoad
<1>2. UsbsSingleLoad => UsbsViewExclusive
    BY DEF UsbsSingleLoad, UsbsViewExclusive, ViewExclusive
<1>3. QED
    BY <1>1, <1>2, UsbsStep, PTL DEF Spec
====
