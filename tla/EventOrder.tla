----------------------------- MODULE EventOrder -----------------------------
(***************************************************************************)
(* The stream that sends every commit's events out in the order of the     *)
(* commits' receipts (crates/storage/src/backends/regolith/event_order.rs) *)
(* and the owners that hand their work over to it (post_commit.rs).        *)
(*                                                                         *)
(* The engine is modelled from how the code uses it: a commit's receipt is *)
(* assigned after its Begin was queued, its one outcome is queued before   *)
(* the owner learns of it, and a commit that writes nothing has its        *)
(* snapshot as its receipt.  A commit's events are sent together and are   *)
(* one event here.                                                         *)
(***************************************************************************)
EXTENDS Integers, Sequences, FiniteSets, SequencesExt

CONSTANTS
  Commits,
  Writers,      \* the commits that write something
  Hooked,       \* the commits with hooks
  Unwinding,    \* the commits whose owner may end unwinding
  EarlyCancel   \* whether an owner may go before the engine's outcome

VARIABLES
  life,         \* EventOrder.life: what the engine reports
  work,         \* EventOrder.work: what the owners hand over
  free,         \* whether the one Drainer is in its queue
  slots,        \* Drainer.slots
  holding,      \* Drainer.holding
  ready,        \* Drainer.ready, a set
  completed,    \* Drainer.completed
  arrivals,     \* Drainer.arrivals
  seq,          \* the last receipt the engine assigned
  engine,       \* a commit in the engine: "new", "bound", "assigned", "committed", "aborted"
  receipt,      \* its receipt
  owner,        \* its owner: "new", "waiting", "hooks", "over"
  drain,        \* where the owner's drain stands, or "no"
  out,          \* the commits whose events went out, in order
  earlier       \* history: the commits whose owners were done when it was bound

queues == <<life, work>>
drainer == <<slots, holding, ready, completed, arrivals>>
vars == <<queues, free, drainer, seq, engine, receipt, owner, drain, out, earlier>>

None == -1

Slot == [floor : Nat \cup {None}, position : Nat \cup {None},
         events : BOOLEAN, attached : BOOLEAN, hooks : BOOLEAN, settled : BOOLEAN]

Blank == [floor |-> None, position |-> None, events |-> FALSE,
          attached |-> FALSE, hooks |-> FALSE, settled |-> FALSE]

Init ==
  /\ life = <<>> /\ work = <<>> /\ free = TRUE
  /\ slots = [c \in {} |-> Blank] /\ holding = <<>> /\ ready = {}
  /\ completed = 0 /\ arrivals = 0
  /\ seq = 0 /\ out = <<>>
  /\ engine = [c \in Commits |-> "new"] /\ receipt = [c \in Commits |-> 0]
  /\ owner = [c \in Commits |-> "new"] /\ drain = [c \in Commits |-> "no"]
  /\ earlier = [c \in Commits |-> {}]

-----------------------------------------------------------------------------
\* The durable commits whose owners have handed everything over and drained.
Done == {c \in Commits : engine[c] = "committed" /\ owner[c] = "over" /\ drain[c] = "no"}

Reported(message) == life' = Append(life, message) /\ UNCHANGED work

\* EventOrder::bind; a commit that writes nothing has begun, with the
\* snapshot of that moment, some time before.
Bind(c) ==
  /\ engine[c] = "new"
  /\ Reported([what |-> "begin", commit |-> c, receipt |-> 0])
  /\ engine' = [engine EXCEPT ![c] = "bound"]
  /\ owner' = [owner EXCEPT ![c] = "waiting"]
  /\ \E s \in 0..seq : receipt' = [receipt EXCEPT ![c] = IF c \in Writers THEN 0 ELSE s]
  /\ earlier' = [earlier EXCEPT ![c] = Done]
  /\ UNCHANGED <<free, drainer, seq, drain, out>>

\* The engine assigns the commit its place.
Assign(c) ==
  /\ engine[c] = "bound"
  /\ engine' = [engine EXCEPT ![c] = "assigned"]
  /\ IF c \in Writers THEN seq' = seq + 1 /\ receipt' = [receipt EXCEPT ![c] = seq + 1]
     ELSE UNCHANGED <<seq, receipt>>
  /\ UNCHANGED <<queues, free, drainer, owner, drain, out, earlier>>

\* The engine's on_commit callback.
ReportCommit(c) ==
  /\ engine[c] = "assigned"
  /\ Reported([what |-> "committed", commit |-> c, receipt |-> receipt[c]])
  /\ engine' = [engine EXCEPT ![c] = "committed"]
  /\ UNCHANGED <<free, drainer, seq, receipt, owner, drain, out, earlier>>

\* The engine's on_abort callback.
ReportAbort(c) ==
  /\ engine[c] = "bound"
  /\ Reported([what |-> "aborted", commit |-> c, receipt |-> 0])
  /\ engine' = [engine EXCEPT ![c] = "aborted"]
  /\ UNCHANGED <<free, drainer, seq, receipt, owner, drain, out, earlier>>

-----------------------------------------------------------------------------
\* Queue a message for the drainer; a thread that unwinds does not drain.
HandOver(c, message, unwinds) ==
  /\ work' = Append(work, message)
  /\ drain' = [drain EXCEPT ![c] = IF unwinds THEN "no" ELSE "take"]
  /\ UNCHANGED <<life, free, drainer, seq, engine, receipt, out, earlier>>

\* Binding::hand_over, by an owner that learned the outcome.
Learn(c) ==
  /\ owner[c] = "waiting" /\ engine[c] \in {"committed", "aborted"}
  /\ LET committed == engine[c] = "committed"
         hooks == committed /\ c \in Hooked
     IN /\ HandOver(c, [what |-> "attach", commit |-> c, events |-> committed,
                        hooks |-> hooks], FALSE)
        /\ owner' = [owner EXCEPT ![c] = IF hooks THEN "hooks" ELSE "over"]

\* Binding's Drop: the owner was cancelled before it learned the outcome.
Cancel(c) ==
  /\ owner[c] = "waiting" /\ (EarlyCancel \/ engine[c] \in {"committed", "aborted"})
  /\ \E unwinds \in {FALSE} \cup {c \in Unwinding} :
       HandOver(c, [what |-> "attach", commit |-> c, events |-> TRUE, hooks |-> FALSE], unwinds)
  /\ owner' = [owner EXCEPT ![c] = "over"]

\* HooksRunning::done, or its Drop.
HooksOver(c) ==
  /\ owner[c] = "hooks" /\ drain[c] = "no"
  /\ \E unwinds \in {FALSE} \cup {c \in Unwinding} :
       HandOver(c, [what |-> "done", commit |-> c, events |-> FALSE, hooks |-> FALSE], unwinds)
  /\ owner' = [owner EXCEPT ![c] = "over"]

-----------------------------------------------------------------------------
At(c, from, to) == drain[c] = from /\ drain' = [drain EXCEPT ![c] = to]

\* What a drainer does touches its own state only.
Private == UNCHANGED <<seq, engine, receipt, owner, earlier>>

\* Whoever takes the Drainer drains; nobody waits for it.
Take(c) ==
  /\ At(c, "take", IF free THEN "life" ELSE "no")
  /\ free' = FALSE
  /\ UNCHANGED <<queues, drainer, out>> /\ Private

SlotOf(c) == IF c \in DOMAIN slots THEN slots[c] ELSE Blank

WithSlot(c, slot) == [d \in DOMAIN slots \cup {c} |-> IF d = c THEN slot ELSE slots[d]]

\* Drainer::complete then Drainer::forget of the commit whose slot is now
\* `slot'; only a message of its owner forgets a commit that completes.
Completes(slot) == slot.position # None /\ ~slot.settled /\ slot.attached /\ ~slot.hooks

Complete(c, slot, forgets) ==
  LET after == IF Completes(slot) THEN [slot EXCEPT !.settled = TRUE, !.events = FALSE] ELSE slot
      sends == Completes(slot) /\ slot.events
  IN /\ slots' = IF forgets /\ after.settled /\ after.attached
                 THEN [d \in DOMAIN slots \ {c} |-> slots[d]]
                 ELSE WithSlot(c, after)
     /\ ready' = ready \cup (IF sends THEN {[position |-> slot.position, arrival |-> arrivals,
                                             commit |-> c]} ELSE {})
     /\ arrivals' = IF sends THEN arrivals + 1 ELSE arrivals

Highest(a, b) == IF a > b THEN a ELSE b

\* A receipt is raised to the floor of its commit.
Placed(slot, at) == Highest(at, slot.floor)

\* Drainer::apply_life.
ApplyLife(message) ==
  LET c == message.commit
      slot == SlotOf(c)
  IN CASE message.what = "begin" ->
            /\ slots' = WithSlot(c, [slot EXCEPT !.floor = completed])
            /\ holding' = Append(holding, c)
            /\ UNCHANGED <<ready, completed, arrivals>>
       [] message.what = "committed" ->
            /\ completed' = Highest(completed, Placed(slot, message.receipt))
            /\ Complete(c, [slot EXCEPT !.position = Placed(slot, message.receipt)], FALSE)
            /\ UNCHANGED holding
       [] message.what = "aborted" ->
            /\ Complete(c, [slot EXCEPT !.settled = TRUE, !.events = FALSE], TRUE)
            /\ UNCHANGED <<holding, completed>>

ReadLife(c) ==
  /\ life # <<>> /\ At(c, "life", "life")
  /\ ApplyLife(Head(life)) /\ life' = Tail(life)
  /\ UNCHANGED <<work, free, out>> /\ Private

LifeRead(c) ==
  /\ life = <<>> /\ At(c, "life", "work")
  /\ UNCHANGED <<queues, free, drainer, out>> /\ Private

\* As if a hook's commit were sent out before the hook is done.
ApplyWorkHookless(message) ==
  LET c == message.commit
      slot == SlotOf(c)
  IN /\ message.what = "attach" =>
          Complete(c, [slot EXCEPT !.attached = TRUE, !.hooks = FALSE,
                         !.events = IF slot.settled THEN @ ELSE message.events], TRUE)
     /\ message.what = "done" =>
          IF c \in DOMAIN slots THEN Complete(c, [slot EXCEPT !.hooks = FALSE], TRUE)
          ELSE UNCHANGED <<slots, ready, arrivals>>

\* Drainer::apply_work.
ApplyWork(message) ==
  LET c == message.commit
      slot == SlotOf(c)
  IN /\ message.what = "attach" =>
          Complete(c, [slot EXCEPT !.attached = TRUE, !.hooks = message.hooks,
                         !.events = IF slot.settled THEN @ ELSE message.events], TRUE)
     /\ message.what = "done" =>
          IF c \in DOMAIN slots THEN Complete(c, [slot EXCEPT !.hooks = FALSE], TRUE)
          ELSE UNCHANGED <<slots, ready, arrivals>>

ReadWork(c) ==
  /\ work # <<>> /\ At(c, "work", "work")
  /\ ApplyWork(Head(work)) /\ work' = Tail(work)
  /\ UNCHANGED <<life, free, holding, completed, out>> /\ Private

-----------------------------------------------------------------------------
InFlight(c) == c \in DOMAIN slots /\ ~slots[c].settled

\* Drainer::floor drops the settled commits at the front.
Held == IF \E i \in DOMAIN holding : InFlight(holding[i])
        THEN SubSeq(holding, CHOOSE i \in DOMAIN holding :
                               InFlight(holding[i]) /\ \A j \in 1..(i - 1) : ~InFlight(holding[j]),
                    Len(holding))
        ELSE <<>>

\* No commit in flight can precede the event.
MayGo(event) == Held = <<>> \/ event.position <= slots[Head(Held)].floor

Before(a, b) == a.position < b.position \/ (a.position = b.position /\ a.arrival < b.arrival)

\* Drainer::dispatch, once the owners' queue is empty.
Dispatch(c) ==
  /\ work = <<>> /\ At(c, "work", "put")
  /\ LET going == {event \in ready : MayGo(event)}
     IN /\ ready' = ready \ going
        /\ out' = out \o [i \in DOMAIN SetToSortSeq(going, Before) |->
                            SetToSortSeq(going, Before)[i].commit]
  /\ holding' = Held
  /\ UNCHANGED <<queues, free, slots, completed, arrivals>> /\ Private

\* The Drainer goes back.
Put(c) ==
  /\ At(c, "put", "check")
  /\ free' = TRUE
  /\ UNCHANGED <<queues, drainer, out>> /\ Private

\* As if a thread that drained did not look at the queues again.
CheckNot(c) ==
  /\ At(c, "check", "no")
  /\ UNCHANGED <<queues, free, drainer, out>> /\ Private

\* A message queued meanwhile found no Drainer: drain again.
Check(c) ==
  /\ At(c, "check", IF life = <<>> /\ work = <<>> THEN "no" ELSE "take")
  /\ UNCHANGED <<queues, free, drainer, out>> /\ Private

Drain(c) ==
  \/ Take(c) \/ ReadLife(c) \/ LifeRead(c) \/ ReadWork(c) \/ Dispatch(c) \/ Put(c) \/ Check(c)

Ends(c) == Assign(c) \/ ReportCommit(c) \/ ReportAbort(c)

Next == \E c \in Commits : \/ Bind(c) \/ Ends(c)
                           \/ Learn(c) \/ Cancel(c) \/ HooksOver(c)
                           \/ Drain(c)

Spec == Init /\ [][Next]_vars

\* The engine ends every commit, owners learn or are dropped, hooks end, and
\* a thread that drains goes on.
FairSpec ==
  /\ Spec
  /\ \A c \in Commits : /\ WF_vars(Ends(c)) /\ WF_vars(Learn(c) \/ Cancel(c))
                        /\ WF_vars(HooksOver(c)) /\ WF_vars(Drain(c))

-----------------------------------------------------------------------------
TypeOK ==
  /\ free \in BOOLEAN /\ completed \in Nat /\ arrivals \in Nat /\ seq \in Nat
  /\ DOMAIN slots \subseteq Commits /\ \A c \in DOMAIN slots : slots[c] \in Slot
  /\ holding \in Seq(Commits)
  /\ \A event \in ready : event.position \in Nat /\ event.commit \in Commits
  /\ \A c \in Commits : /\ engine[c] \in {"new", "bound", "assigned", "committed", "aborted"}
                        /\ owner[c] \in {"new", "waiting", "hooks", "over"}
                        /\ drain[c] \in {"no", "take", "life", "work", "put", "check"}
  /\ free <=> \A c \in Commits : drain[c] \notin {"life", "work", "put"}

Sent == Range(out)

\* Events go out in the order of the commits' receipts, whichever owner is
\* first, once per commit, and only of commits that are durable and whose
\* hooks are over (Drainer::dispatch, Drainer::complete).
InReceiptOrder ==
  /\ \A i, j \in DOMAIN out : i < j /\ {out[i], out[j]} \subseteq Writers
                                => receipt[out[i]] < receipt[out[j]]
  /\ \A i, j \in DOMAIN out : out[i] = out[j] => i = j
  /\ \A c \in Sent : engine[c] = "committed" /\ owner[c] = "over"

\* A commit bound after another's owner was done, even one that wrote nothing
\* and has an older receipt, does not overtake its events (the floor).
NoneOvertakes ==
  \A i \in DOMAIN out : \A d \in earlier[out[i]] : \E j \in 1..(i - 1) : out[j] = d

Quiet == \A c \in Commits : owner[c] \in {"new", "over"} /\ drain[c] = "no"

\* With every commit bound so far over and nobody draining no message and no
\* event is left behind, and nothing holds the stream back (the re-check of
\* EventOrder::drain).
NothingWaits ==
  Quiet => /\ life = <<>> /\ work = <<>> /\ ready = {}
           /\ \A c \in DOMAIN slots : slots[c].settled
=============================================================================
