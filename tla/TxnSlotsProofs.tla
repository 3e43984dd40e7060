--------------------------- MODULE TxnSlotsProofs ---------------------------
(***************************************************************************)
(* The slot count is exact and a waiting close is never stranded, for      *)
(* every set of transactions and closes.                                   *)
(***************************************************************************)
EXTENDS TxnSlots, FiniteSetTheorems, TLAPS

\* A close that waits has set the closing flag.
FlagFirst == \A c \in Closers : closer[c] \in {"begun", "waiting"} => closing

IInv == TypeOK /\ SlotsCounted /\ FlagFirst /\ NotStranded

\* The counted transactions are finitely many.
LEMMA CountedFinite == IsFiniteSet(Counted)
  BY SlotsAssumption, FS_Subset, Counted \subseteq Txns DEF Counted

\* A transaction that joins the counted ones makes them one more, and one that
\* leaves them makes them one fewer.
LEMMA CountedChanges ==
  ASSUME NEW t \in Txns
  PROVE  /\ Counted' = Counted => Cardinality(Counted') = Cardinality(Counted)
         /\ Counted' = Counted \cup {t} /\ t \notin Counted
              => Cardinality(Counted') = Cardinality(Counted) + 1
         /\ Counted' = Counted \ {t} /\ t \in Counted
              => Cardinality(Counted') = Cardinality(Counted) - 1
  BY CountedFinite, FS_AddElement, FS_RemoveElement

\* While somebody holds a slot the count is not zero.
LEMMA CountedPositive ==
  ASSUME SlotsCounted, NEW t \in Counted
  PROVE  open \in Nat /\ open > 0
<1>1. Cardinality(Counted) \in Nat
  BY CountedFinite, FS_CardinalityType
<1>2. Cardinality(Counted) # 0
  BY CountedFinite, FS_EmptySet
<1> QED
  BY <1>1, <1>2 DEF SlotsCounted

\* A transaction's steps keep the invariant.
LEMMA TxnSteps ==
  ASSUME IInv, NEW t \in Txns, Enter(t) \/ Leave(t)
  PROVE  IInv'
<1> USE DEF Goes, TxnPC, slots
<1>1. CASE CheckFirst(t)
  <2>1. TypeOK' /\ FlagFirst' /\ NotStranded'
    BY <1>1 DEF CheckFirst, IInv, TypeOK, FlagFirst, NotStranded
  <2>2. Counted' = Counted
    BY <1>1 DEF CheckFirst, IInv, TypeOK, Counted
  <2> QED
    BY <1>1, <2>1, <2>2, CountedChanges DEF CheckFirst, IInv, SlotsCounted
<1>2. CASE Count(t)
  <2>1. TypeOK' /\ FlagFirst' /\ NotStranded'
    BY <1>2 DEF Count, IInv, TypeOK, FlagFirst, NotStranded
  <2>2. Counted' = Counted \cup {t} /\ t \notin Counted
    BY <1>2 DEF Count, IInv, TypeOK, Counted
  <2> QED
    BY <1>2, <2>1, <2>2, CountedChanges DEF Count, IInv, SlotsCounted
<1>3. CASE CheckAgain(t)
  <2>1. TypeOK' /\ FlagFirst' /\ NotStranded'
    BY <1>3 DEF CheckAgain, IInv, TypeOK, FlagFirst, NotStranded
  <2>2. Counted' = Counted
    BY <1>3 DEF CheckAgain, IInv, TypeOK, Counted
  <2> QED
    BY <1>3, <2>1, <2>2, CountedChanges DEF CheckAgain, IInv, SlotsCounted
<1>4. CASE GiveBack(t)
  <2>0. t \in Counted
    BY <1>4 DEF GiveBack, Counted
  <2>1. open > 0 /\ open \in Nat
    BY <2>0, CountedPositive DEF IInv
  <2>2. TypeOK' /\ FlagFirst'
    BY <1>4, <2>1 DEF GiveBack, IInv, TypeOK, FlagFirst
  <2>3. NotStranded'
    <3>1. open' > 0 \/ txn'[t] = "last"
      BY <1>4, <2>1 DEF GiveBack, IInv, TypeOK
    <3> QED
      BY <1>4, <3>1 DEF GiveBack, NotStranded
  <2>4. Counted' = Counted \ {t}
    BY <1>4 DEF GiveBack, IInv, TypeOK, Counted
  <2> QED
    BY <1>4, <2>0, <2>2, <2>3, <2>4, CountedChanges DEF GiveBack, IInv, SlotsCounted
<1>5. CASE CountDown(t)
  <2>1. TypeOK' /\ FlagFirst'
    BY <1>5 DEF CountDown, IInv, TypeOK, FlagFirst
  <2>2. NotStranded'
    BY <1>5 DEF CountDown, IInv, FlagFirst, NotStranded
  <2>3. Counted' = Counted
    BY <1>5 DEF CountDown, IInv, TypeOK, Counted
  <2> QED
    BY <1>5, <2>1, <2>2, <2>3, CountedChanges DEF CountDown, IInv, SlotsCounted
<1> QED
  BY <1>1, <1>2, <1>3, <1>4, <1>5 DEF Enter, Leave

\* A close's steps keep the invariant; none of them touches the count.
LEMMA CloserSteps ==
  ASSUME IInv, NEW c \in Closers, BeginClose(c) \/ Waits(c) \/ TimedOut(c)
  PROVE  IInv'
<1> USE DEF Moves, CloserPC, slots
<1>0. SlotsCounted'
  BY DEF BeginClose, Waits, Quiesce, Wake, CloseEngine, TimedOut, IInv, SlotsCounted, Counted
<1>1. CASE BeginClose(c)
  BY <1>0, <1>1 DEF BeginClose, IInv, TypeOK, FlagFirst, NotStranded
<1>2. CASE Quiesce(c)
  BY <1>0, <1>2 DEF Quiesce, IInv, TypeOK, FlagFirst, NotStranded
<1>3. CASE Wake(c)
  BY <1>0, <1>3 DEF Wake, IInv, TypeOK, FlagFirst, NotStranded
<1>4. CASE CloseEngine(c)
  BY <1>0, <1>4 DEF CloseEngine, IInv, TypeOK, FlagFirst, NotStranded
<1>5. CASE TimedOut(c)
  BY <1>0, <1>5 DEF TimedOut, IInv, TypeOK, FlagFirst, NotStranded
<1> QED
  BY <1>1, <1>2, <1>3, <1>4, <1>5 DEF Waits

\* The invariant of all states.
LEMMA Inductive == Spec => []IInv
<1>1. Init => IInv
  <2> SUFFICES ASSUME Init PROVE IInv
    OBVIOUS
  <2>1. Counted = {}
    BY DEF Init, Counted
  <2> QED
    BY <2>1, FS_EmptySet
    DEF Init, IInv, TypeOK, SlotsCounted, FlagFirst, NotStranded, TxnPC, CloserPC
<1>2. IInv /\ [Next]_vars => IInv'
  <2>1. ASSUME IInv, UNCHANGED vars PROVE IInv'
    BY <2>1 DEF IInv, vars, slots, TypeOK, SlotsCounted, Counted, FlagFirst, NotStranded
  <2> QED
    BY <2>1, TxnSteps, CloserSteps DEF Next
<1> QED
  BY <1>1, <1>2, PTL DEF Spec

\* The count is the number of slots in existence, whatever order enter, drop
\* and close interleave their accesses in.
THEOREM CountExact == Spec => [](TypeOK /\ SlotsCounted)
  BY Inductive, PTL DEF IInv

\* No close waits for a wake-up that is not coming: the last slot dropped, or
\* the latch, is always still ahead of it.
THEOREM NeverStranded == Spec => []NotStranded
  BY Inductive, PTL DEF IInv
=============================================================================
