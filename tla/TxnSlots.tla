------------------------------ MODULE TxnSlots ------------------------------
(***************************************************************************)
(* The count of transactions a store has handed out, and the close that    *)
(* waits for the last of them (crates/storage/src/backends/regolith/       *)
(* slots.rs, and new_txn, transact_retry and close of store.rs).           *)
(*                                                                         *)
(* The count, the closing flag and the latch are separate atomics, so each *)
(* access is a step of its own.  What a transaction does while it holds    *)
(* its slot is left out.                                                   *)
(***************************************************************************)
EXTENDS Integers, FiniteSets

CONSTANTS
  Txns,       \* calls of new_txn and transact_retry
  Closers,    \* calls of close
  Deadline    \* whether close_timeout may pass

ASSUME SlotsAssumption == IsFiniteSet(Txns) /\ Deadline \in BOOLEAN

VARIABLES
  open,       \* TxnSlots.open
  closing,    \* TxnSlots.closing
  idle,       \* whether the latch TxnSlots.idle is open
  engine,     \* whether the engine is open
  txn,        \* where a transaction stands
  closer      \* where a close stands

slots == <<open, closing, idle>>
vars == <<slots, engine, txn, closer>>

TxnPC == {"new", "checked", "counted", "refused", "open", "last", "over"}
CloserPC == {"new", "begun", "waiting", "quiet", "closed", "failed", "already"}

Init ==
  /\ open = 0 /\ closing = FALSE /\ idle = FALSE /\ engine = TRUE
  /\ txn = [t \in Txns |-> "new"]
  /\ closer = [c \in Closers |-> "new"]

Goes(t, pc) == txn' = [txn EXCEPT ![t] = pc]
Moves(c, pc) == closer' = [closer EXCEPT ![c] = pc]

-----------------------------------------------------------------------------
(* enter. *)

CheckFirst(t) ==
  /\ txn[t] = "new"
  /\ Goes(t, IF closing THEN "over" ELSE "checked")
  /\ UNCHANGED <<slots, engine, closer>>

Count(t) ==
  /\ txn[t] = "checked"
  /\ open' = open + 1
  /\ Goes(t, "counted")
  /\ UNCHANGED <<closing, idle, engine, closer>>

\* Closing since the first check: the slot is given back.
CheckAgain(t) ==
  /\ txn[t] = "counted"
  /\ Goes(t, IF closing THEN "refused" ELSE "open")
  /\ UNCHANGED <<slots, engine, closer>>

-----------------------------------------------------------------------------
(* A slot dropped. *)

\* As if the last one were the one that leaves one behind.
GiveBackBefore(t) ==
  /\ txn[t] \in {"refused", "open"}
  /\ open' = open - 1
  /\ Goes(t, IF open = 2 THEN "last" ELSE "over")
  /\ UNCHANGED <<closing, idle, engine, closer>>

GiveBack(t) ==
  /\ txn[t] \in {"refused", "open"}
  /\ open' = open - 1
  /\ Goes(t, IF open = 1 THEN "last" ELSE "over")
  /\ UNCHANGED <<closing, idle, engine, closer>>

CountDown(t) ==
  /\ txn[t] = "last"
  /\ idle' = (idle \/ closing)
  /\ Goes(t, "over")
  /\ UNCHANGED <<open, closing, engine, closer>>

-----------------------------------------------------------------------------
(* close. *)

BeginClose(c) ==
  /\ closer[c] = "new"
  /\ closing' = TRUE
  /\ Moves(c, IF closing THEN "already" ELSE "begun")
  /\ UNCHANGED <<open, idle, engine, txn>>

Quiesce(c) ==
  /\ closer[c] = "begun"
  /\ Moves(c, IF open = 0 THEN "quiet" ELSE "waiting")
  /\ UNCHANGED <<slots, engine, txn>>

Wake(c) ==
  /\ closer[c] = "waiting" /\ idle
  /\ Moves(c, "quiet")
  /\ UNCHANGED <<slots, engine, txn>>

TimedOut(c) ==
  /\ closer[c] = "waiting" /\ Deadline
  /\ Moves(c, "failed")
  /\ UNCHANGED <<slots, engine, txn>>

CloseEngine(c) ==
  /\ closer[c] = "quiet"
  /\ engine' = FALSE
  /\ Moves(c, "closed")
  /\ UNCHANGED <<slots, txn>>

-----------------------------------------------------------------------------
Enter(t) == CheckFirst(t) \/ Count(t) \/ CheckAgain(t)
Leave(t) == GiveBack(t) \/ CountDown(t)
Waits(c) == Quiesce(c) \/ Wake(c) \/ CloseEngine(c)

Next ==
  \/ \E t \in Txns : Enter(t) \/ Leave(t)
  \/ \E c \in Closers : BeginClose(c) \/ Waits(c) \/ TimedOut(c)

Spec == Init /\ [][Next]_vars

\* Threads keep running and a transaction is dropped in the end; nobody has
\* to call close.
FairSpec ==
  /\ Spec
  /\ \A t \in Txns : WF_vars(Enter(t)) /\ WF_vars(Leave(t))
  /\ \A c \in Closers : WF_vars(Waits(c))

-----------------------------------------------------------------------------
\* The transactions whose place is counted.
Counted == {t \in Txns : txn[t] \in {"counted", "refused", "open"}}

\* Every variable keeps its type.
TypeOK ==
  /\ open \in Nat /\ closing \in BOOLEAN /\ idle \in BOOLEAN /\ engine \in BOOLEAN
  /\ txn \in [Txns -> TxnPC] /\ closer \in [Closers -> CloserPC]

\* A slot is given back exactly once on every path, a refused enter's
\* included: the count is the number of slots that exist.
SlotsCounted == open = Cardinality(Counted)

\* A close that waits has something to wait for: a transaction in flight, one
\* that found itself the last and has yet to look at the closing flag, or the
\* open latch.  The two cross their writes and reads, and one sees the other.
NotStranded ==
  \A c \in Closers : closer[c] = "waiting" =>
    idle \/ open > 0 \/ \E t \in Txns : txn[t] = "last"

\* quiesce "waits until every slot is given back, or timeout passes": the
\* engine closes under no transaction in flight.
NoneInFlight == ~engine => \A t \in Txns : txn[t] # "open"
=============================================================================
