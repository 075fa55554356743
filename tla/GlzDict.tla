------------------------------- MODULE GlzDict ------------------------------
(***************************************************************************)
(* The GLZ image dictionary as a value (capsaicin-glz/src/lib.rs,          *)
(* GlzWindow): what an insertion does to it.  Sizes are counted in         *)
(* kibibytes, so the floor of 1024 bytes on the capacity is 1.             *)
(***************************************************************************)
EXTENDS Integers, FiniteSets, Functions

CONSTANT CapacityBytes      \* the budget GlzWindow::new is given

ASSUME CapacityAssumption == CapacityBytes \in Nat

\* capacity_bytes.max(1024)
Capacity == IF CapacityBytes < 1 THEN 1 ELSE CapacityBytes

\* An entry: its size, what its pixels are (whatever the user of this module
\* tells apart), and its insertion number.
Entry(bytes, pixels, seq) == [bytes |-> bytes, pixels |-> pixels, seq |-> seq]

EmptyWindow == [images |-> <<>>, used |-> 0, nextSeq |-> 0]

\* usize::saturating_sub
SaturatingSub(a, b) == IF a > b THEN a - b ELSE 0

\* Mutated form: the entry goes, its bytes stay charged.
DropImageKeepsBytes(w, id) ==
    [w EXCEPT !.images = Restrict(w.images, DOMAIN w.images \ {id})]

\* images.remove(id), with its bytes given back; nothing when id is absent.
DropImage(w, id) ==
    IF id \notin DOMAIN w.images THEN w
    ELSE [w EXCEPT !.images = Restrict(w.images, DOMAIN w.images \ {id}),
                   !.used = SaturatingSub(w.used, w.images[id].bytes)]

\* Mutated form: the newest entry is the victim.
VictimNewest(w) ==
    CHOOSE id \in DOMAIN w.images :
        \A other \in DOMAIN w.images : w.images[other].seq <= w.images[id].seq

\* The entry inserted first.
Victim(w) ==
    CHOOSE id \in DOMAIN w.images :
        \A other \in DOMAIN w.images : w.images[id].seq <= w.images[other].seq

\* The condition of the eviction loop.
OverBudget(w) == w.used > Capacity /\ Cardinality(DOMAIN w.images) > 1

\* The eviction loop, unrolled: at most one round per image.
Evict(w) ==
    LET rounds == Cardinality(DOMAIN w.images)
        after[k \in 0 .. rounds] ==
            IF k = 0 THEN w
            ELSE IF OverBudget(after[k - 1])
                 THEN DropImage(after[k - 1], Victim(after[k - 1]))
                 ELSE after[k - 1]
    IN  after[rounds]

\* GlzWindow::insert
Insert(w, id, bytes, pixels) ==
    LET freed == DropImage(w, id)
        kept  == freed.images
        added == [i \in DOMAIN kept \cup {id} |->
                     IF i = id THEN Entry(bytes, pixels, w.nextSeq) ELSE kept[i]]
    IN  Evict([images  |-> added,
               used    |-> freed.used + bytes,
               nextSeq |-> w.nextSeq + 1])

\* GlzWindow::clear
ClearWindow(w) == [w EXCEPT !.images = <<>>, !.used = 0]
=============================================================================
