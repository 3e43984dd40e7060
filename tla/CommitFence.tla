------------------------------ MODULE CommitFence ------------------------------
(****************************************************************************)
(* Commits whose caller stopped waiting, fenced until they land             *)
(* (crates/db/src/txn/fence.rs), and the transactions that begin meanwhile  *)
(* (DB::new_txn in crates/db/src/database/mod.rs).                          *)
(*                                                                          *)
(* Each commit has a state word that its caller and its owner each try once *)
(* to move out of PENDING.  Every atomic instruction of the code is a step. *)
(****************************************************************************)
EXTENDS Integers, FiniteSets

CONSTANTS Commits,    \* commits handed to their owners, one Fence each
          Begins,     \* transactions and reads that begin
          Unfenced    \* those of Begins that are engine-retried attempts

ASSUME FenceAssumption == /\ IsFiniteSet(Commits)
                          /\ Unfenced \subseteq Begins

VARIABLES outstanding,  \* CommitFences.outstanding
          word,         \* Fence.state
          caller,       \* where each commit's caller is
          owner,        \* where each commit's owner is
          landed,       \* the commits whose writes are visible
          begin,        \* where each begin is
          woken,        \* armed begins a notify_waiters has reached
          owed,         \* per begin: the commits whose caller had stopped
                        \* waiting, or was answered, when it was called
          saw           \* per begin: the commits its snapshot contains

fenceVars == <<outstanding, word, caller, owner, landed>>
beginVars == <<begin, woken, owed, saw>>
vars == <<fenceVars, beginVars>>

States == {"PENDING", "ABANDONED", "DONE"}
CallerSteps == {"none", "waiting", "raised", "refused", "notifying", "left", "answered"}
OwnerSteps == {"none", "working", "settled", "lowering", "notifying", "done"}
BeginSteps == {"idle", "called", "clearing", "armed", "waiting", "clear", "open"}

\* Every part is one of its states; the count, an unsigned word in the code,
\* never goes below zero.
TypeOK ==
  /\ outstanding \in Nat
  /\ word \in [Commits -> States]
  /\ caller \in [Commits -> CallerSteps]
  /\ owner \in [Commits -> OwnerSteps]
  /\ landed \in SUBSET Commits
  /\ begin \in [Begins -> BeginSteps]
  /\ woken \in SUBSET Begins
  /\ owed \in [Begins -> SUBSET Commits]
  /\ saw \in [Begins -> SUBSET Commits]

Init ==
  /\ outstanding = 0
  /\ word = [c \in Commits |-> "PENDING"]
  /\ caller = [c \in Commits |-> "none"]
  /\ owner = [c \in Commits |-> "none"]
  /\ landed = {}
  /\ begin = [b \in Begins |-> "idle"]
  /\ woken = {}
  /\ owed = [b \in Begins |-> {}]
  /\ saw = [b \in Begins |-> {}]

----------------------------------------------------------------------------
(* CommitFences *)

any == outstanding # 0

Raise == outstanding' = outstanding + 1

\* fetch_sub; whoever took the count from one to zero notifies next.
Lower == outstanding' = outstanding - 1

\* As if fetch_sub returned what it left rather than what it found.
WasLastAfter == outstanding = 0

WasLast == outstanding = 1

\* Notify::notify_waiters reaches every waiter armed by then.
NotifyWaiters == woken' = woken \cup {b \in Begins : begin[b] \in {"armed", "waiting"}}

----------------------------------------------------------------------------
(* Fence::new: the commit is handed over, its caller waits for the answer. *)

New(c) ==
  /\ caller[c] = "none"
  /\ caller' = [caller EXCEPT ![c] = "waiting"]
  /\ owner' = [owner EXCEPT ![c] = "working"]
  /\ UNCHANGED <<outstanding, word, landed, beginVars>>

----------------------------------------------------------------------------
(* The caller: Fence::abandon, from FenceOnDrop when its future is dropped *)

AbandonRaise(c) ==
  /\ caller[c] = "waiting"
  /\ Raise
  /\ caller' = [caller EXCEPT ![c] = "raised"]
  /\ UNCHANGED <<word, owner, landed, beginVars>>

AbandonSwap(c) ==
  /\ caller[c] = "raised"
  /\ IF word[c] = "PENDING"
     THEN /\ word' = [word EXCEPT ![c] = "ABANDONED"]
          /\ caller' = [caller EXCEPT ![c] = "left"]
     ELSE /\ caller' = [caller EXCEPT ![c] = "refused"]
          /\ UNCHANGED word
  /\ UNCHANGED <<outstanding, owner, landed, beginVars>>

\* As if the raise were not taken back when the owner was first.
AbandonLowerForgets(c) ==
  /\ caller[c] = "refused"
  /\ caller' = [caller EXCEPT ![c] = "left"]
  /\ UNCHANGED <<outstanding, word, owner, landed, beginVars>>

AbandonLower(c) ==
  /\ caller[c] = "refused"
  /\ Lower
  /\ caller' = [caller EXCEPT ![c] = IF WasLast THEN "notifying" ELSE "left"]
  /\ UNCHANGED <<word, owner, landed, beginVars>>

AbandonNotify(c) ==
  /\ caller[c] = "notifying"
  /\ NotifyWaiters
  /\ caller' = [caller EXCEPT ![c] = "left"]
  /\ UNCHANGED <<outstanding, word, owner, landed, begin, owed, saw>>

\* The answer goes out before the Landing is dropped; the caller disarms.
Answered(c) ==
  /\ caller[c] = "waiting"
  /\ owner[c] \notin {"none", "working"}
  /\ caller' = [caller EXCEPT ![c] = "answered"]
  /\ UNCHANGED <<outstanding, word, owner, landed, beginVars>>

----------------------------------------------------------------------------
(* The owner: the commit lands, fails or is dropped unrun; then the Landing *)
(* is dropped, which is Fence::finish.                                      *)

Land(c) ==
  /\ owner[c] = "working"
  /\ owner' = [owner EXCEPT ![c] = "settled"]
  /\ landed' = landed \cup {c}
  /\ UNCHANGED <<outstanding, word, caller, beginVars>>

Fail(c) ==
  /\ owner[c] = "working"
  /\ owner' = [owner EXCEPT ![c] = "settled"]
  /\ UNCHANGED <<outstanding, word, caller, landed, beginVars>>

FinishSwap(c) ==
  /\ owner[c] = "settled"
  /\ IF word[c] = "PENDING"
     THEN /\ word' = [word EXCEPT ![c] = "DONE"]
          /\ owner' = [owner EXCEPT ![c] = "done"]
     ELSE /\ owner' = [owner EXCEPT ![c] = "lowering"]
          /\ UNCHANGED word
  /\ UNCHANGED <<outstanding, caller, landed, beginVars>>

FinishLower(c) ==
  /\ owner[c] = "lowering"
  /\ Lower
  /\ owner' = [owner EXCEPT ![c] = IF WasLast THEN "notifying" ELSE "done"]
  /\ UNCHANGED <<word, caller, landed, beginVars>>

FinishNotify(c) ==
  /\ owner[c] = "notifying"
  /\ NotifyWaiters
  /\ owner' = [owner EXCEPT ![c] = "done"]
  /\ UNCHANGED <<outstanding, word, caller, landed, begin, owed, saw>>

----------------------------------------------------------------------------
(* A begin: DB::new_txn, waiting in CommitFences::cleared *)

StoppedWaiting == {c \in Commits : caller[c] \in {"left", "answered"}}

Call(b) ==
  /\ begin[b] = "idle"
  /\ begin' = [begin EXCEPT ![b] = IF b \in Unfenced THEN "clear" ELSE "called"]
  /\ owed' = [owed EXCEPT ![b] = StoppedWaiting]
  /\ UNCHANGED <<fenceVars, woken, saw>>

\* As if new_txn did not look at the fences.
NewTxnBlind(b) ==
  /\ begin[b] = "called"
  /\ begin' = [begin EXCEPT ![b] = "clear"]
  /\ UNCHANGED <<fenceVars, woken, owed, saw>>

NewTxnLook(b) ==
  /\ begin[b] = "called"
  /\ begin' = [begin EXCEPT ![b] = IF any THEN "clearing" ELSE "clear"]
  /\ UNCHANGED <<fenceVars, woken, owed, saw>>

Arm(b) ==
  /\ begin[b] = "clearing"
  /\ begin' = [begin EXCEPT ![b] = "armed"]
  /\ woken' = woken \ {b}
  /\ UNCHANGED <<fenceVars, owed, saw>>

ClearedLook(b) ==
  /\ begin[b] = "armed"
  /\ begin' = [begin EXCEPT ![b] = IF any THEN "waiting" ELSE "clear"]
  /\ UNCHANGED <<fenceVars, woken, owed, saw>>

Wake(b) ==
  /\ begin[b] = "waiting"
  /\ b \in woken
  /\ begin' = [begin EXCEPT ![b] = "clearing"]
  /\ UNCHANGED <<fenceVars, woken, owed, saw>>

\* BasicTxn::new takes the store's snapshot.
Open(b) ==
  /\ begin[b] = "clear"
  /\ begin' = [begin EXCEPT ![b] = "open"]
  /\ saw' = [saw EXCEPT ![b] = landed]
  /\ UNCHANGED <<fenceVars, woken, owed>>

----------------------------------------------------------------------------
CallerStep(c) == AbandonSwap(c) \/ AbandonLower(c) \/ AbandonNotify(c)
OwnerStep(c) == Land(c) \/ Fail(c) \/ FinishSwap(c) \/ FinishLower(c) \/ FinishNotify(c)
BeginStep(b) == NewTxnLook(b) \/ Arm(b) \/ ClearedLook(b) \/ Wake(b) \/ Open(b)

Next ==
  \/ \E c \in Commits : New(c) \/ AbandonRaise(c) \/ Answered(c) \/ CallerStep(c) \/ OwnerStep(c)
  \/ \E b \in Begins : Call(b) \/ BeginStep(b)

Spec == Init /\ [][Next]_vars

\* A destructor runs to its end, an owner ends every commit it was handed, a
\* begin that can go on is polled; nobody has to stop waiting or to begin.
Fairness ==
  /\ \A c \in Commits : WF_vars(CallerStep(c)) /\ WF_vars(OwnerStep(c))
  /\ \A b \in Begins : WF_vars(BeginStep(b))

FairSpec == Spec /\ Fairness

----------------------------------------------------------------------------
(* Properties *)

\* The raises not yet lowered: by a caller still inside abandon(), or left to
\* the owner of an abandoned commit.
Owed ==
  {c \in Commits : \/ caller[c] \in {"raised", "refused"}
                   \/ word[c] = "ABANDONED" /\ owner[c] \in {"working", "settled", "lowering"}}

\* fence.rs: the count is exactly the number of fences still owed, so it never
\* wraps below zero and never stays above it.
CountExact == outstanding = Cardinality(Owed)

\* fence.rs, `CommitFences`: whatever begins through DB::new_txn after a
\* caller stopped waiting (or was answered) contains that commit, if it lands
\* at all: it does not land behind the begin's snapshot.
BeginSeesAbandoned ==
  \A b \in Begins \ Unfenced : begin[b] = "open" => owed[b] \cap landed \subseteq saw[b]

\* fence.rs, `cleared` and `lower`: no wake is lost, so a begin that waits
\* opens once the commits it waits for have landed.
BeginsOpen == \A b \in Begins : begin[b] = "called" ~> begin[b] = "open"
============================================================================
