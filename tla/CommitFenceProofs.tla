--------------------------- MODULE CommitFenceProofs ---------------------------
(****************************************************************************)
(* Proofs about CommitFence for any finite set of commits and any set of    *)
(* begins: the count is exact, and a begin through DB::new_txn sees every   *)
(* commit abandoned before it.                                              *)
(****************************************************************************)
EXTENDS CommitFence, FiniteSetTheorems, TLAPS

\* Where the caller and the owner can be for each value of the state word.
WordInv ==
  \A c \in Commits :
    /\ word[c] = "PENDING" => /\ caller[c] \in {"none", "waiting", "raised", "answered"}
                              /\ owner[c] \in {"none", "working", "settled"}
    /\ word[c] = "ABANDONED" => caller[c] = "left"
    /\ word[c] = "DONE" => owner[c] = "done"
    /\ caller[c] = "none" <=> owner[c] = "none"
    /\ caller[c] = "answered" => owner[c] # "working"
    /\ c \in landed => owner[c] \notin {"none", "working"}

\* What a begin is owed stays decided, and nothing a cleared begin is owed can
\* still land.
BeginInv ==
  \A b \in Begins :
    /\ \A c \in owed[b] : caller[c] \in {"left", "answered"}
    /\ b \notin Unfenced /\ begin[b] \in {"clear", "open"} =>
         \A c \in owed[b] : owner[c] \notin {"none", "working"}

IInv == TypeOK /\ WordInv /\ CountExact /\ BeginInv /\ BeginSeesAbandoned

----------------------------------------------------------------------------
\* The set of fences still owed is finite, so its size is a natural number,
\* and zero only when nothing is owed.
LEMMA OwedFinite ==
  /\ IsFiniteSet(Owed)
  /\ Cardinality(Owed) \in Nat
  /\ Cardinality(Owed) = 0 <=> Owed = {}
  <1>1. Owed \subseteq Commits
    BY DEF Owed
  <1>2. IsFiniteSet(Owed)
    BY <1>1, FS_Subset, FenceAssumption
  <1> QED
    BY <1>2, FS_CardinalityType, FS_EmptySet

\* The initial state satisfies the inductive invariant: nothing is owed.
LEMMA InitIInv == Init => IInv
  <1> SUFFICES ASSUME Init PROVE IInv
    OBVIOUS
  <1>1. TypeOK
    BY DEF Init, TypeOK, States, CallerSteps, OwnerSteps, BeginSteps
  <1>2. Owed = {}
    BY DEF Init, Owed
  <1>3. CountExact
    BY <1>2, FS_EmptySet DEF Init, CountExact
  <1>4. WordInv /\ BeginInv /\ BeginSeesAbandoned
    BY DEF Init, WordInv, BeginInv, BeginSeesAbandoned
  <1> QED
    BY <1>1, <1>3, <1>4 DEF IInv

\* How a step that adds c to what is owed, takes it out, or leaves it alone
\* keeps the count exact.
LEMMA CountKept ==
  ASSUME CountExact, NEW c \in Commits,
         \/ outstanding' = outstanding + 1 /\ c \notin Owed /\ Owed' = Owed \cup {c}
         \/ outstanding' = outstanding - 1 /\ c \in Owed /\ Owed' = Owed \ {c}
         \/ outstanding' = outstanding /\ Owed' = Owed
  PROVE  CountExact' /\ outstanding' \in Nat
  <1>1. CASE outstanding' = outstanding + 1 /\ c \notin Owed /\ Owed' = Owed \cup {c}
    <2>1. Cardinality(Owed \cup {c}) = Cardinality(Owed) + 1
      BY <1>1, OwedFinite, FS_AddElement
    <2> QED
      BY <1>1, <2>1, OwedFinite DEF CountExact
  <1>2. CASE outstanding' = outstanding - 1 /\ c \in Owed /\ Owed' = Owed \ {c}
    <2>1. Cardinality(Owed \ {c}) = Cardinality(Owed) - 1
      BY <1>2, OwedFinite, FS_RemoveElement
    <2>2. Cardinality(Owed) # 0
      BY <1>2, OwedFinite
    <2> QED
      BY <1>2, <2>1, <2>2, OwedFinite DEF CountExact
  <1>3. CASE outstanding' = outstanding /\ Owed' = Owed
    BY <1>3, OwedFinite DEF CountExact
  <1> QED
    BY <1>1, <1>2, <1>3

----------------------------------------------------------------------------
\* Every step of a caller or an owner keeps the inductive invariant: the raise
\* of an abandon is owed until its own lowering, or the owner's.
LEMMA CommitStepIInv ==
  ASSUME IInv, NEW c \in Commits,
         New(c) \/ AbandonRaise(c) \/ Answered(c) \/ CallerStep(c) \/ OwnerStep(c)
  PROVE  IInv'
  <1> USE DEF IInv
  <1>1. TypeOK' /\ WordInv' /\ BeginInv' /\ BeginSeesAbandoned' /\ CountExact'
    <2>0. CASE New(c)
      <3>1. Owed' = Owed
        BY <2>0 DEF New, Owed, TypeOK, WordInv, States
      <3>2. CountExact' /\ outstanding' \in Nat
        BY <2>0, <3>1, CountKept DEF New
      <3>3. TypeOK'
        BY <2>0, <3>2 DEF New, TypeOK, CallerSteps, OwnerSteps, beginVars
      <3> QED
        BY <2>0, <3>2, <3>3 DEF New, TypeOK, WordInv, BeginInv, BeginSeesAbandoned, beginVars, States
    <2>1. CASE AbandonRaise(c)
      <3>1. c \notin Owed /\ Owed' = Owed \cup {c}
        BY <2>1 DEF AbandonRaise, Owed, TypeOK, WordInv, Raise
      <3>2. CountExact' /\ outstanding' \in Nat
        BY <2>1, <3>1, CountKept DEF AbandonRaise, Raise
      <3>3. TypeOK'
        BY <2>1, <3>2 DEF AbandonRaise, TypeOK, CallerSteps, beginVars
      <3> QED
        BY <2>1, <3>2, <3>3 DEF AbandonRaise, TypeOK, WordInv, BeginInv, BeginSeesAbandoned, beginVars
    <2>2. CASE Answered(c)
      <3>1. Owed' = Owed
        BY <2>2 DEF Answered, Owed, TypeOK, WordInv
      <3>2. CountExact' /\ outstanding' \in Nat
        BY <2>2, <3>1, CountKept DEF Answered
      <3>3. TypeOK'
        BY <2>2, <3>2 DEF Answered, TypeOK, CallerSteps, beginVars
      <3> QED
        BY <2>2, <3>2, <3>3 DEF Answered, TypeOK, WordInv, BeginInv, BeginSeesAbandoned, beginVars
    <2>3. CASE AbandonSwap(c)
      <3>1. Owed' = Owed
        BY <2>3 DEF AbandonSwap, Owed, TypeOK, WordInv
      <3>2. CountExact' /\ outstanding' \in Nat
        BY <2>3, <3>1, CountKept DEF AbandonSwap
      <3>3. TypeOK'
        BY <2>3, <3>2 DEF AbandonSwap, TypeOK, CallerSteps, States, beginVars
      <3> QED
        BY <2>3, <3>2, <3>3 DEF AbandonSwap, TypeOK, WordInv, BeginInv, BeginSeesAbandoned, beginVars, States
    <2>4. CASE AbandonLower(c)
      <3>1. c \in Owed /\ Owed' = Owed \ {c}
        BY <2>4 DEF AbandonLower, Owed, TypeOK, WordInv, States
      <3>2. CountExact' /\ outstanding' \in Nat
        BY <2>4, <3>1, CountKept DEF AbandonLower, Lower
      <3>3. TypeOK'
        BY <2>4, <3>2 DEF AbandonLower, TypeOK, CallerSteps, beginVars
      <3> QED
        BY <2>4, <3>2, <3>3 DEF AbandonLower, TypeOK, WordInv, BeginInv, BeginSeesAbandoned, beginVars, States
    <2>5. CASE AbandonNotify(c)
      <3>1. Owed' = Owed
        BY <2>5 DEF AbandonNotify, Owed, TypeOK, WordInv
      <3>2. CountExact' /\ outstanding' \in Nat
        BY <2>5, <3>1, CountKept DEF AbandonNotify
      <3>3. TypeOK'
        BY <2>5, <3>2 DEF AbandonNotify, TypeOK, CallerSteps, NotifyWaiters
      <3> QED
        BY <2>5, <3>2, <3>3 DEF AbandonNotify, TypeOK, WordInv, BeginInv, BeginSeesAbandoned, States
    <2>6. CASE Land(c) \/ Fail(c)
      <3>1. Owed' = Owed
        BY <2>6 DEF Land, Fail, Owed, TypeOK, WordInv
      <3>2. CountExact' /\ outstanding' \in Nat
        BY <2>6, <3>1, CountKept DEF Land, Fail
      <3>3. TypeOK'
        BY <2>6, <3>2 DEF Land, Fail, TypeOK, OwnerSteps, beginVars
      <3>4. WordInv' /\ BeginInv'
        BY <2>6 DEF Land, Fail, TypeOK, WordInv, BeginInv, beginVars
      <3>5. BeginSeesAbandoned'
        BY <2>6 DEF Land, Fail, TypeOK, BeginInv, BeginSeesAbandoned, beginVars
      <3> QED
        BY <3>2, <3>3, <3>4, <3>5
    <2>7. CASE FinishSwap(c)
      <3>1. Owed' = Owed
        BY <2>7 DEF FinishSwap, Owed, TypeOK, WordInv, States
      <3>2. CountExact' /\ outstanding' \in Nat
        BY <2>7, <3>1, CountKept DEF FinishSwap
      <3>3. TypeOK'
        BY <2>7, <3>2 DEF FinishSwap, TypeOK, OwnerSteps, States, beginVars
      <3> QED
        BY <2>7, <3>2, <3>3 DEF FinishSwap, TypeOK, WordInv, BeginInv, BeginSeesAbandoned, beginVars, States
    <2>8. CASE FinishLower(c)
      <3>1. c \in Owed /\ Owed' = Owed \ {c}
        BY <2>8 DEF FinishLower, Owed, TypeOK, WordInv, States
      <3>2. CountExact' /\ outstanding' \in Nat
        BY <2>8, <3>1, CountKept DEF FinishLower, Lower
      <3>3. TypeOK'
        BY <2>8, <3>2 DEF FinishLower, TypeOK, OwnerSteps, beginVars
      <3> QED
        BY <2>8, <3>2, <3>3 DEF FinishLower, TypeOK, WordInv, BeginInv, BeginSeesAbandoned, beginVars, States
    <2>9. CASE FinishNotify(c)
      <3>1. Owed' = Owed
        BY <2>9 DEF FinishNotify, Owed, TypeOK, WordInv
      <3>2. CountExact' /\ outstanding' \in Nat
        BY <2>9, <3>1, CountKept DEF FinishNotify
      <3>3. TypeOK'
        BY <2>9, <3>2 DEF FinishNotify, TypeOK, OwnerSteps, NotifyWaiters
      <3> QED
        <4>1. WordInv'
          BY <2>9 DEF FinishNotify, TypeOK, WordInv, States
        <4>2. BeginInv' /\ BeginSeesAbandoned'
          BY <2>9 DEF FinishNotify, TypeOK, BeginInv, BeginSeesAbandoned
        <4> QED BY <3>2, <3>3, <4>1, <4>2
    <2> QED
      BY <2>0, <2>1, <2>2, <2>3, <2>4, <2>5, <2>6, <2>7, <2>8, <2>9 DEF CallerStep, OwnerStep
  <1> QED
    BY <1>1

\* A begin that finds the count at zero is owed nothing that can still land:
\* a commit whose caller left is settled, or still counted.
LEMMA ZeroMeansSettled ==
  ASSUME IInv, ~any, NEW b \in Begins, NEW c \in owed[b]
  PROVE  owner[c] \notin {"none", "working"}
  <1>1. Owed = {}
    BY OwedFinite DEF IInv, CountExact, any
  <1>2. c \in Commits /\ caller[c] \in {"left", "answered"}
    BY DEF IInv, BeginInv, TypeOK
  <1>3. word[c] # "PENDING" \/ caller[c] = "answered"
    BY <1>2 DEF IInv, WordInv
  <1>4. word[c] \in States
    BY <1>2 DEF IInv, TypeOK
  <1> QED
    BY <1>1, <1>2, <1>3, <1>4 DEF IInv, WordInv, Owed, States

\* Every step of a begin keeps the inductive invariant.
LEMMA BeginStepIInv ==
  ASSUME IInv, NEW b \in Begins, Call(b) \/ BeginStep(b)
  PROVE  IInv'
  <1> USE DEF IInv
  <1>1. UNCHANGED fenceVars
    BY DEF Call, BeginStep, NewTxnLook, Arm, ClearedLook, Wake, Open
  <1>2. Owed' = Owed /\ WordInv'
    BY <1>1 DEF fenceVars, Owed, WordInv
  <1>3. CountExact'
    BY <1>1, <1>2 DEF fenceVars, CountExact
  <1>4. CASE Call(b)
    BY <1>1, <1>2, <1>3, <1>4
       DEF Call, TypeOK, BeginSteps, fenceVars, BeginInv, BeginSeesAbandoned, StoppedWaiting
  <1>5. CASE NewTxnLook(b) \/ ClearedLook(b)
    <2>1. TypeOK'
      BY <1>1, <1>5 DEF NewTxnLook, ClearedLook, TypeOK, BeginSteps, fenceVars
    <2>2. begin'[b] = "clear" => \A c \in owed[b] : owner[c] \notin {"none", "working"}
      <3>1. begin'[b] = "clear" => ~any
        BY <1>5 DEF NewTxnLook, ClearedLook, TypeOK
      <3> QED
        BY <3>1, ZeroMeansSettled
    <2>3. BeginInv'
      BY <1>1, <1>5, <2>2 DEF NewTxnLook, ClearedLook, TypeOK, BeginInv, fenceVars
    <2>4. BeginSeesAbandoned'
      BY <1>1, <1>5 DEF NewTxnLook, ClearedLook, TypeOK, BeginSeesAbandoned, fenceVars
    <2> QED
      BY <1>2, <1>3, <2>1, <2>3, <2>4
  <1>6. CASE Arm(b) \/ Wake(b)
    BY <1>1, <1>2, <1>3, <1>6
       DEF Arm, Wake, TypeOK, BeginSteps, fenceVars, BeginInv, BeginSeesAbandoned
  <1>7. CASE Open(b)
    <2>1. TypeOK'
      BY <1>1, <1>7 DEF Open, TypeOK, BeginSteps, fenceVars
    <2>2. BeginInv'
      BY <1>1, <1>7 DEF Open, TypeOK, BeginInv, fenceVars
    <2>3. BeginSeesAbandoned'
      BY <1>1, <1>7 DEF Open, TypeOK, BeginSeesAbandoned, fenceVars
    <2> QED
      BY <1>2, <1>3, <2>1, <2>2, <2>3
  <1> QED
    BY <1>4, <1>5, <1>6, <1>7 DEF BeginStep

----------------------------------------------------------------------------
\* The inductive invariant holds in every reachable state, whatever the
\* commits and the begins.
THEOREM FenceInvariant == Spec => []IInv
  <1>1. Init => IInv
    BY InitIInv
  <1>2. IInv /\ [Next]_vars => IInv'
    <2> SUFFICES ASSUME IInv, [Next]_vars PROVE IInv'
      OBVIOUS
    <2>1. CASE \E c \in Commits : New(c) \/ AbandonRaise(c) \/ Answered(c) \/ CallerStep(c) \/ OwnerStep(c)
      BY <2>1, CommitStepIInv
    <2>2. CASE \E b \in Begins : Call(b) \/ BeginStep(b)
      BY <2>2, BeginStepIInv
    <2>3. CASE UNCHANGED vars
      BY <2>3 DEF vars, fenceVars, beginVars, IInv, TypeOK, WordInv, CountExact, Owed,
                  BeginInv, BeginSeesAbandoned
    <2> QED
      BY <2>1, <2>2, <2>3 DEF Next
  <1> QED
    BY <1>1, <1>2, PTL DEF Spec

\* CommitFences.outstanding is exactly the number of fences still owed: raises
\* and lowerings of callers and owners racing on a state word always pair up.
THEOREM FenceCountExact == Spec => []CountExact
  BY FenceInvariant, PTL DEF IInv

\* A transaction that begins through DB::new_txn after a commit's caller
\* stopped waiting never opens ahead of that commit.
THEOREM FencedBegin == Spec => []BeginSeesAbandoned
  BY FenceInvariant, PTL DEF IInv
============================================================================
