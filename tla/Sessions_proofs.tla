--------------------------- MODULE Sessions_proofs --------------------------
(***************************************************************************)
(* Sessions and slots for any number of clients: open sessions stay apart  *)
(* and live, and connection slots are neither lost nor invented.           *)
(***************************************************************************)
EXTENDS Sessions, FiniteSetTheorems, TLAPS

\* Once the accept loop has ended nothing runs.
StoppedIsOver == ~serving => \A c \in Conns : st[c] = "gone"

\* The inductive invariant: OpenSessionsAreLive is what keeps a fresh id
\* distinct, and the two together what lets a session end on its own.
IInv ==
    /\ TypeOK
    /\ OpenSessionsAreDistinct
    /\ OpenSessionsAreLive
    /\ SlotsAddUp
    /\ StoppedIsOver

-----------------------------------------------------------------------------
\* Who holds a permit can be counted.
LEMMA HoldingFinite == IsFiniteSet(Holding) /\ Cardinality(Holding) \in Nat
<1>1. IsFiniteSet(Conns) /\ Holding \subseteq Conns
  BY SessionsAssumption DEF Holding
<1>2. IsFiniteSet(Holding)
  BY <1>1, FS_Subset
<1>. QED BY <1>2, FS_CardinalityType

\* A task that starts takes one slot.
LEMMA HoldingGrows ==
    ASSUME NEW c \in Conns, st \in [Conns -> States], st[c] = "new",
           st' = [st EXCEPT ![c] = "link"]
    PROVE  Cardinality(Holding') = Cardinality(Holding) + 1
<1>1. Holding' = Holding \cup {c} /\ c \notin Holding
  BY DEF Holding
<1>. QED BY <1>1, HoldingFinite, FS_AddElement

\* A task that ends gives one back.
LEMMA HoldingShrinks ==
    ASSUME NEW c \in Conns, st \in [Conns -> States], st[c] = "leaving",
           st' = [st EXCEPT ![c] = "gone"]
    PROVE  Cardinality(Holding') = Cardinality(Holding) - 1
<1>1. Holding' = Holding \ {c} /\ c \in Holding
  BY DEF Holding
<1>. QED BY <1>1, HoldingFinite, FS_RemoveElement

\* Everything between keeps the slot it has.
LEMMA HoldingStays ==
    ASSUME NEW c \in Conns, NEW s \in {"link", "boot", "main", "sub", "leaving"},
           st \in [Conns -> States],
           st[c] \in {"link", "boot", "main", "sub", "leaving"},
           st' = [st EXCEPT ![c] = s]
    PROVE  Holding' = Holding
BY DEF Holding

\* A connection that is turned away never had one.
LEMMA HoldingRefused ==
    ASSUME NEW c \in Conns, st \in [Conns -> States], st[c] = "new",
           st' = [st EXCEPT ![c] = "gone"]
    PROVE  Holding' = Holding
BY DEF Holding

\* At the start no slot is taken.
LEMMA HoldingInit ==
    ASSUME Init
    PROVE  Cardinality(Holding) = 0
<1>1. Holding = {}
  BY DEF Init, Holding
<1>. QED BY <1>1, FS_EmptySet

-----------------------------------------------------------------------------
\* No connection has begun at first.
LEMMA InitIInv == Init => IInv
<1>. SUFFICES ASSUME Init PROVE IInv
  OBVIOUS
<1>1. TypeOK
  BY SessionsAssumption DEF Init, TypeOK, States
<1>2. OpenSessionsAreDistinct /\ OpenSessionsAreLive
  BY DEF Init, OpenSessionsAreDistinct, OpenSessionsAreLive, Open
<1>3. SlotsAddUp
  BY HoldingInit, SessionsAssumption DEF Init, SlotsAddUp
<1>4. StoppedIsOver
  BY DEF Init, StoppedIsOver
<1>. QED BY <1>1, <1>2, <1>3, <1>4 DEF IInv

\* The steps of one connection whose table entry, id and slot all stay.
MoveOn(c) ==
    \E s \in {"link", "boot", "main", "sub", "leaving"} :
        /\ st[c] \in {"link", "boot", "main", "sub", "leaving"}
        /\ s = "main" => st[c] = "boot"
        /\ s # "boot" /\ st' = [st EXCEPT ![c] = s]
        /\ UNCHANGED <<sid, permits, live, serving>>

\* A connection moves from one place that holds a permit to another.
LEMMA MovesOn ==
    ASSUME NEW c \in Conns,
           LinkFails(c) \/ LinkSub(c) \/ BootDone(c) \/ BootFails(c) \/ SubEnds(c)
    PROVE  MoveOn(c)
BY DEF LinkFails, LinkSub, BootDone, BootFails, SubEnds, Goto, MoveOn

\* So no permit is lost on the way.
LEMMA MoveOnIInv ==
    ASSUME IInv, NEW c \in Conns, MoveOn(c)
    PROVE  IInv'
<1>0. PICK s \in {"link", "boot", "main", "sub", "leaving"} :
        /\ st[c] \in {"link", "boot", "main", "sub", "leaving"}
        /\ s = "main" => st[c] = "boot"
        /\ s # "boot" /\ st' = [st EXCEPT ![c] = s]
        /\ UNCHANGED <<sid, permits, live, serving>>
  BY DEF MoveOn
<1>. USE <1>0 DEF IInv, TypeOK
<1>1. TypeOK'
  BY DEF States
<1>2. \A d \in Conns : Open(d)' => Open(d)
  BY DEF Open
<1>3. OpenSessionsAreDistinct' /\ OpenSessionsAreLive'
  BY <1>2 DEF OpenSessionsAreDistinct, OpenSessionsAreLive, Open
<1>4. SlotsAddUp'
  BY HoldingStays DEF SlotsAddUp
<1>5. StoppedIsOver'
  BY DEF StoppedIsOver
<1>. QED BY <1>1, <1>3, <1>4, <1>5

\* The invariant is inductive.
LEMMA NextIInv == IInv /\ [Next]_vars => IInv'
<1>. SUFFICES ASSUME IInv, [Next]_vars PROVE IInv'
  OBVIOUS
<1>. USE DEF IInv
<1>1. ASSUME NEW c \in Conns, Accept(c) PROVE IInv'
  <2>. USE <1>1 DEF Accept, Goto
  <2>1. TypeOK'
    BY SessionsAssumption DEF TypeOK, States
  <2>2. OpenSessionsAreDistinct' /\ OpenSessionsAreLive'
    BY DEF TypeOK, OpenSessionsAreDistinct, OpenSessionsAreLive, Open
  <2>3. SlotsAddUp'
    <3>1. Cardinality(Holding') = Cardinality(Holding) + 1
      BY HoldingGrows DEF TypeOK
    <3>. QED BY <3>1, HoldingFinite, SessionsAssumption DEF TypeOK, SlotsAddUp
  <2>4. StoppedIsOver'
    BY DEF StoppedIsOver
  <2>. QED BY <2>1, <2>2, <2>3, <2>4
<1>2. ASSUME NEW c \in Conns, Refuse(c) PROVE IInv'
  <2>. USE <1>2 DEF Refuse, Goto
  <2>1. TypeOK'
    BY DEF TypeOK, States
  <2>2. OpenSessionsAreDistinct' /\ OpenSessionsAreLive'
    BY DEF TypeOK, OpenSessionsAreDistinct, OpenSessionsAreLive, Open
  <2>3. SlotsAddUp'
    BY HoldingRefused DEF TypeOK, SlotsAddUp
  <2>4. StoppedIsOver'
    BY DEF StoppedIsOver
  <2>. QED BY <2>1, <2>2, <2>3, <2>4
<1>3. ASSUME NEW c \in Conns, LinkMain(c) PROVE IInv'
  <2>0. PICK id \in Ids \ live :
          /\ live' = live \cup {id} /\ sid' = [sid EXCEPT ![c] = id]
          /\ st[c] = "link" /\ st' = [st EXCEPT ![c] = "boot"]
          /\ UNCHANGED <<permits, serving>>
    BY <1>3 DEF LinkMain, Goto
  <2>. USE <2>0
  <2>1. TypeOK'
    BY DEF TypeOK, States
  <2>2. ~Open(c) /\ \A d \in Conns : Open(d)' => d = c \/ Open(d)
    BY DEF TypeOK, Open
  <2>3. OpenSessionsAreDistinct' /\ OpenSessionsAreLive'
    BY <2>2 DEF TypeOK, OpenSessionsAreDistinct, OpenSessionsAreLive
  <2>4. SlotsAddUp'
    BY HoldingStays DEF TypeOK, SlotsAddUp
  <2>5. StoppedIsOver'
    BY DEF StoppedIsOver
  <2>. QED BY <2>1, <2>3, <2>4, <2>5
<1>4. ASSUME NEW c \in Conns, MainEnds(c) PROVE IInv'
  <2>. USE <1>4 DEF MainEnds, Goto
  <2>1. TypeOK'
    BY DEF TypeOK, States
  <2>2. Open(c) /\ \A d \in Conns : Open(d)' => d # c /\ Open(d)
    BY DEF TypeOK, Open
  <2>3. OpenSessionsAreDistinct' /\ OpenSessionsAreLive'
    BY <2>2 DEF TypeOK, OpenSessionsAreDistinct, OpenSessionsAreLive
  <2>4. SlotsAddUp'
    BY HoldingStays DEF TypeOK, SlotsAddUp
  <2>5. StoppedIsOver'
    BY DEF StoppedIsOver
  <2>. QED BY <2>1, <2>3, <2>4, <2>5
<1>5. ASSUME NEW c \in Conns, Release(c) PROVE IInv'
  <2>. USE <1>5 DEF Release, Goto
  <2>1. serving
    BY DEF StoppedIsOver
  <2>2. SlotsAddUp' /\ permits + 1 <= MaxConns
    <3>1. permits + Cardinality(Holding) = MaxConns /\ permits \in Nat
      BY <2>1 DEF SlotsAddUp, TypeOK
    <3>2. Cardinality(Holding') = Cardinality(Holding) - 1
      BY HoldingShrinks DEF TypeOK
    <3>3. Cardinality(Holding') \in Nat
      <4>1. IsFiniteSet(Holding') /\ Holding' \subseteq Conns
        BY SessionsAssumption, FS_Subset DEF Holding
      <4>. QED BY <4>1, FS_CardinalityType
    <3>. QED BY <3>1, <3>2, <3>3, HoldingFinite, SessionsAssumption DEF SlotsAddUp
  <2>3. TypeOK'
    BY <2>2, SessionsAssumption DEF TypeOK, States
  <2>4. OpenSessionsAreDistinct' /\ OpenSessionsAreLive'
    BY DEF TypeOK, OpenSessionsAreDistinct, OpenSessionsAreLive, Open
  <2>5. StoppedIsOver'
    BY <2>1 DEF StoppedIsOver
  <2>. QED BY <2>2, <2>3, <2>4, <2>5
<1>6. ASSUME AcceptFails PROVE IInv'
  BY <1>6 DEF AcceptFails, TypeOK, States, OpenSessionsAreDistinct,
     OpenSessionsAreLive, Open, SlotsAddUp, StoppedIsOver
<1>7. ASSUME UNCHANGED vars PROVE IInv'
  BY <1>7 DEF vars, TypeOK, OpenSessionsAreDistinct, OpenSessionsAreLive, Open,
     SlotsAddUp, Holding, StoppedIsOver
<1>8. ASSUME NEW c \in Conns, Step(c) PROVE IInv'
  BY <1>1, <1>2, <1>3, <1>4, <1>5, <1>8, MovesOn, MoveOnIInv DEF Step
<1>. QED BY <1>6, <1>7, <1>8 DEF Next

(***************************************************************************)
(* The inductive invariant holds, for every limit and every set of ids.    *)
(***************************************************************************)
THEOREM SessionsInvariance == Spec => []IInv
<1>. QED BY InitIInv, NextIInv, PTL DEF Spec

(***************************************************************************)
(* Type correctness: in particular the semaphore never exceeds its limit.  *)
(***************************************************************************)
THEOREM SessionsTypeCorrect == Spec => []TypeOK
<1>1. IInv => TypeOK
  BY DEF IInv
<1>. QED BY <1>1, SessionsInvariance, PTL

(***************************************************************************)
(* Two open main channels never share a session id.                        *)
(***************************************************************************)
THEOREM SessionsStayDistinct == Spec => []OpenSessionsAreDistinct
<1>1. IInv => OpenSessionsAreDistinct
  BY DEF IInv
<1>. QED BY <1>1, SessionsInvariance, PTL

(***************************************************************************)
(* An open session is live until its own main channel ends.                *)
(***************************************************************************)
THEOREM SessionsStayLive == Spec => []OpenSessionsAreLive
<1>1. IInv => OpenSessionsAreLive
  BY DEF IInv
<1>. QED BY <1>1, SessionsInvariance, PTL

(***************************************************************************)
(* No way out of a handler loses its slot, none gives back two.            *)
(***************************************************************************)
THEOREM SlotsAreConserved == Spec => []SlotsAddUp
<1>1. IInv => SlotsAddUp
  BY DEF IInv
<1>. QED BY <1>1, SessionsInvariance, PTL
=============================================================================
