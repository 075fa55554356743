------------------------------ MODULE GlzWindow -----------------------------
(***************************************************************************)
(* The GLZ dictionary as a component: insertions of images of any size     *)
(* under any identifier, and clear.                                        *)
(***************************************************************************)
EXTENDS GlzDict, FiniteSetsExt

CONSTANTS
    Ids,            \* image identifiers
    Sizes,          \* image sizes
    MaxInserts      \* bound: insertions

ASSUME SizesAssumption == Sizes \subseteq Nat

VARIABLE win        \* images, bytes_used, next_seq

DictInit == win = EmptyWindow

InsertImage(id, bytes) ==
    /\ win.nextSeq < MaxInserts
    /\ win' = Insert(win, id, bytes, "pixels")

Clear == win' = ClearWindow(win)

DictNext ==
    \/ \E id \in Ids, bytes \in Sizes : InsertImage(id, bytes)
    \/ Clear

DictSpec == DictInit /\ [][DictNext]_win

-----------------------------------------------------------------------------
Images == win.images
StoredBytes == MapThenSumSet(LAMBDA id : Images[id].bytes, DOMAIN Images)

DictTypeOK ==
    /\ DOMAIN Images \subseteq Ids
    /\ \A id \in DOMAIN Images :
          Images[id].bytes \in Sizes /\ Images[id].seq \in 0 .. MaxInserts - 1
    /\ win.used \in Nat /\ win.nextSeq \in 0 .. MaxInserts

(***************************************************************************)
(* bytes_used is exactly the size of what is stored: neither replacement   *)
(* nor eviction makes the running total drift, and the saturating          *)
(* subtractions never saturate.                                            *)
(***************************************************************************)
BytesUsedIsExact == win.used = StoredBytes

(***************************************************************************)
(* Insertion numbers are unique, so "the oldest" is one image and eviction *)
(* does not depend on the order a HashMap iterates in.                     *)
(***************************************************************************)
InsertionOrderIsTotal ==
    \A a, b \in DOMAIN Images :
        /\ Images[a].seq < win.nextSeq
        /\ Images[a].seq = Images[b].seq => a = b

(***************************************************************************)
(* What an insertion leaves behind is within the budget, or is one image:  *)
(* the eviction loop does not stop too early, and does not run dry.        *)
(***************************************************************************)
BudgetIsKept == win.used <= Capacity \/ Cardinality(DOMAIN Images) = 1

\* The running total of bytes does not drift, the oldest image is always one
\* image, and the budget is kept.
DictionaryAddsUp == BytesUsedIsExact /\ InsertionOrderIsTotal /\ BudgetIsKept

(***************************************************************************)
(* The dictionary implements GlzBudget: replacement, the running total and *)
(* the eviction loop together keep the longest run of latest images that   *)
(* fits, and the image just inserted even when it alone exceeds the        *)
(* budget.                                                                 *)
(***************************************************************************)
StoredSizes == [id \in DOMAIN Images |-> Images[id].bytes]
ByAge == {p \in (DOMAIN Images) \X (DOMAIN Images) : Images[p[1]].seq < Images[p[2]].seq}

Promise == INSTANCE GlzBudget WITH Budget <- Capacity, sizes <- StoredSizes, before <- ByAge

KeepsLatestThatFit == Promise!Spec
=============================================================================
