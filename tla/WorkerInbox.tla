---------------------------- MODULE WorkerInbox ----------------------------
(***************************************************************************)
(* One worker of the pool and the threads that submit to it, wake its      *)
(* tasks and stop it: the two inboxes and their admission (crates/workers/ *)
(* src/worker/shared.rs), the run queue and the parking protocol           *)
(* (signal.rs), the worker's loop (run.rs), its tasks and per-key queues   *)
(* (local.rs, keyed.rs) and the slot a result goes into (completion.rs).   *)
(*                                                                         *)
(* Every access to shared memory is a step; the fences of notify, parking, *)
(* push and exit make the order of the steps one order for all threads.    *)
(* Byte permits follow item permits and are left out, as are the hook and  *)
(* the timers: a worker here is woken by nothing but a notify.             *)
(***************************************************************************)
EXTENDS Integers, Sequences, FiniteSets, SequencesExt

CONSTANTS
  Jobs,
  KeyOf,        \* a job's document key, or NoKey
  NoKey,
  Bound,        \* the jobs bound to the worker
  Suspends,     \* the jobs whose first poll is pending
  Panics,       \* the jobs whose last poll panics
  Cancels,      \* the jobs whose waiter may give up
  Cap,          \* inbox_items
  InboxBatch,
  RunBatch,
  Stops,        \* whether the pool is shut down
  Abandons      \* whether it may be told to stop at once

VARIABLES
  bound, free,  \* WorkerShared.bound and free
  items,        \* WorkerShared.items
  exited, abandon,
  closing,      \* PoolShared.closing
  state,        \* Signal.state
  token,        \* whether the worker's thread has been unparked
  ready,        \* Signal.ready
  tasks,        \* Local.tasks: the jobs that are tasks
  scheduled,    \* TaskWaker.scheduled
  keyed,        \* Keyed.waiting
  draining,     \* Local.draining
  worker,       \* where the worker stands: [pc, n, did, job]
  caller,       \* where every other thread stands
  slot,         \* a job's Completion slot
  polls,        \* how often a job was polled
  arrived,      \* history: what was pushed, in order
  started       \* history: the jobs whose make was called, in order

shared == <<bound, free, items, exited, abandon, closing>>
signal == <<state, token, ready>>
local == <<tasks, scheduled, keyed, draining>>
hist == <<arrived, started>>
vars == <<shared, signal, local, worker, caller, slot, polls, hist>>

Shutdown == "shutdown"
Submits == {"submit"} \X Jobs
Wakes == {"wake"} \X Jobs
Stoppers == {<<"stop">>, <<"abandon">>}
Callers == Submits \cup Wakes \cup Stoppers

\* A worker between two steps of a round.
At(pc) == [pc |-> pc, n |-> 0, did |-> FALSE, job |-> NoKey]

Init ==
  /\ bound = <<>> /\ free = <<>> /\ items = Cap
  /\ exited = FALSE /\ abandon = FALSE /\ closing = FALSE
  /\ state = "RUNNING" /\ token = FALSE /\ ready = <<>>
  /\ tasks = {} /\ scheduled = [j \in Jobs |-> FALSE]
  /\ keyed = [k \in {} |-> <<>>] /\ draining = FALSE
  /\ worker = At("inbox")
  /\ caller = [c \in Callers |-> "new"]
  /\ slot = [j \in Jobs |-> "EMPTY"]
  /\ polls = [j \in Jobs |-> 0] /\ arrived = <<>> /\ started = <<>>

Goes(c, pc) == caller' = [caller EXCEPT ![c] = pc]

\* Shared::put stores a result unless the slot holds something.
Put(js, value) ==
  slot' = [j \in Jobs |-> IF j \in js /\ slot[j] = "EMPTY" THEN value ELSE slot[j]]

-----------------------------------------------------------------------------
(* notify, the last thing a submission, a wake or a stop does. *)

After(c) == IF c \in Submits THEN "check" ELSE "done"

Look(c) ==
  /\ caller[c] = "notify"
  /\ state' = IF state = "PARKED" THEN "NOTIFIED" ELSE state
  /\ Goes(c, IF state = "PARKED" THEN "unpark" ELSE After(c))
  /\ UNCHANGED <<shared, token, ready, local, worker, slot, polls, hist>>

Unpark(c) ==
  /\ caller[c] = "unpark"
  /\ token' = TRUE
  /\ Goes(c, After(c))
  /\ UNCHANGED <<shared, state, ready, local, worker, slot, polls, hist>>

-----------------------------------------------------------------------------
(* A submission. *)

AdmitNow(j) ==
  LET c == <<"submit", j>> IN
  /\ caller[c] = "new"
  /\ Goes(c, IF closing THEN "refused" ELSE "routed")
  /\ UNCHANGED <<shared, signal, local, worker, slot, polls, hist>>

\* try_admit, or admit once there is room.
Admit(j) ==
  LET c == <<"submit", j>> IN
  /\ caller[c] = "routed" /\ items > 0
  /\ items' = items - 1
  /\ Goes(c, "admitted")
  /\ UNCHANGED <<bound, free, exited, abandon, closing, signal, local, worker, slot, polls, hist>>

Push(j) ==
  LET c == <<"submit", j>> IN
  /\ caller[c] = "admitted"
  /\ bound' = IF j \in Bound THEN Append(bound, j) ELSE bound
  /\ free' = IF j \in Bound THEN free ELSE Append(free, j)
  /\ arrived' = Append(arrived, j)
  /\ Goes(c, "notify")
  /\ UNCHANGED <<items, exited, abandon, closing, signal, local, worker, slot, polls, started>>

\* As if a push relied on the worker to find the job.
CheckNot(j) ==
  LET c == <<"submit", j>> IN
  /\ caller[c] = "check"
  /\ Goes(c, "done")
  /\ UNCHANGED <<shared, signal, local, worker, slot, polls, hist>>

Check(j) ==
  LET c == <<"submit", j>> IN
  /\ caller[c] = "check"
  /\ Goes(c, IF exited THEN "drain" ELSE "done")
  /\ UNCHANGED <<shared, signal, local, worker, slot, polls, hist>>

\* take(FALSE) of drain_orphans: the bound inbox first.
Orphan == IF bound # <<>> THEN Head(bound) ELSE Head(free)

DropOrphan ==
  /\ bound # <<>> \/ free # <<>>
  /\ bound' = IF bound # <<>> THEN Tail(bound) ELSE bound
  /\ free' = IF bound # <<>> THEN free ELSE Tail(free)
  /\ Put({Orphan} \cap Jobs, "ShutDown")
  /\ items' = IF Orphan = Shutdown THEN items ELSE items + 1

\* The submitter's drain_orphans, one message at a time.
SubmitterDrains(j) ==
  LET c == <<"submit", j>> IN
  /\ caller[c] = "drain"
  /\ \/ DropOrphan /\ UNCHANGED caller
     \/ bound = <<>> /\ free = <<>> /\ Goes(c, "done") /\ UNCHANGED <<bound, free, items, slot>>
  /\ UNCHANGED <<exited, abandon, closing, signal, local, worker, polls, hist>>

\* CancelOnDrop: the waiter is gone.
Cancel(j) ==
  /\ j \in Cancels /\ slot[j] = "EMPTY" /\ caller[<<"submit", j>>] \in {"check", "drain", "done"}
  /\ slot' = [slot EXCEPT ![j] = "CANCELLED"]
  /\ UNCHANGED <<shared, signal, local, worker, caller, polls, hist>>

-----------------------------------------------------------------------------
(* A wake of a task's waker, once per suspension. *)

Wake(j) ==
  LET c == <<"wake", j>> IN
  /\ caller[c] = "armed"
  /\ scheduled' = [scheduled EXCEPT ![j] = TRUE]
  /\ Goes(c, IF scheduled[j] THEN "done" ELSE "push")
  /\ UNCHANGED <<shared, signal, tasks, keyed, draining, worker, slot, polls, hist>>

Schedule(j) ==
  LET c == <<"wake", j>> IN
  /\ caller[c] = "push"
  /\ ready' = Append(ready, j)
  /\ Goes(c, "notify")
  /\ UNCHANGED <<shared, state, token, local, worker, slot, polls, hist>>

-----------------------------------------------------------------------------
(* Pool::shutdown and Pool::abandon. *)

BeginStop ==
  LET c == <<"stop">> IN
  /\ Stops /\ caller[c] = "new"
  /\ closing' = TRUE
  /\ Goes(c, "push")
  /\ UNCHANGED <<bound, free, items, exited, abandon, signal, local, worker, slot, polls, hist>>

PushStop ==
  LET c == <<"stop">> IN
  /\ caller[c] = "push"
  /\ bound' = Append(bound, Shutdown)
  /\ arrived' = Append(arrived, Shutdown)
  /\ Goes(c, "notify")
  /\ UNCHANGED <<free, items, exited, abandon, closing, signal, local, worker, slot, polls, started>>

Abandon ==
  LET c == <<"abandon">> IN
  /\ Abandons /\ caller[c] = "new"
  /\ abandon' = TRUE
  /\ Goes(c, "notify")
  /\ UNCHANGED <<bound, free, items, exited, closing, signal, local, worker, slot, polls, hist>>

-----------------------------------------------------------------------------
(* The worker's round: messages, then ready tasks. *)

Insert(j) ==
  /\ tasks' = tasks \cup {j}
  /\ scheduled' = [scheduled EXCEPT ![j] = TRUE]
  /\ ready' = Append(ready, j)

\* Local::start: behind its key's running task, or at once.
Start(j) ==
  LET k == KeyOf[j] IN
  \/ k # NoKey /\ k \in DOMAIN keyed
       /\ keyed' = [keyed EXCEPT ![k] = Append(@, j)]
       /\ UNCHANGED <<tasks, scheduled, ready>>
  \/ k # NoKey /\ k \notin DOMAIN keyed
       /\ keyed' = [l \in DOMAIN keyed \cup {k} |-> IF l = k THEN <<>> ELSE keyed[l]]
       /\ Insert(j)
  \/ k = NoKey /\ Insert(j) /\ UNCHANGED keyed

\* take(i % 2 == 1).
Take ==
  LET freeFirst == worker.n % 2 = 1
      fromFree == free # <<>> /\ (freeFirst \/ bound = <<>>)
      m == IF fromFree THEN Head(free) ELSE Head(bound) IN
  /\ worker.pc = "inbox" /\ worker.n < InboxBatch
  /\ bound # <<>> \/ free # <<>>
  /\ free' = IF fromFree THEN Tail(free) ELSE free
  /\ bound' = IF fromFree THEN bound ELSE Tail(bound)
  /\ \/ m = Shutdown /\ draining' = TRUE /\ UNCHANGED <<tasks, scheduled, keyed, ready>>
     \/ m # Shutdown /\ Start(m) /\ UNCHANGED draining
  /\ worker' = [worker EXCEPT !.n = @ + 1, !.did = TRUE]
  /\ UNCHANGED <<items, exited, abandon, closing, state, token, caller, slot, polls, hist>>

InboxDone ==
  /\ worker.pc = "inbox"
  /\ worker.n = InboxBatch \/ (bound = <<>> /\ free = <<>>)
  /\ worker' = [worker EXCEPT !.pc = "tasks", !.n = 0]
  /\ UNCHANGED <<shared, signal, local, caller, slot, polls, hist>>

\* A key whose task is gone: a stale wake, not counted.
PopStale ==
  /\ worker.pc = "tasks" /\ worker.n < RunBatch
  /\ ready # <<>> /\ Head(ready) \notin tasks
  /\ ready' = Tail(ready)
  /\ UNCHANGED <<shared, state, token, local, worker, caller, slot, polls, hist>>


\* poll: the mark is cleared, then the future runs; a job's first poll is
\* where it learns that its waiter has gone.
BeginPoll ==
  LET j == Head(ready) IN
  /\ worker.pc = "tasks" /\ worker.n < RunBatch
  /\ ready # <<>> /\ j \in tasks
  /\ ready' = Tail(ready)
  /\ scheduled' = [scheduled EXCEPT ![j] = FALSE]
  /\ worker' = [worker EXCEPT !.pc = "poll", !.job = j]
  /\ polls' = [polls EXCEPT ![j] = @ + 1]
  /\ started' = IF polls[j] = 0 /\ slot[j] # "CANCELLED" THEN Append(started, j) ELSE started
  /\ caller' = IF j \in Suspends /\ polls[j] = 0 /\ slot[j] # "CANCELLED"
               THEN [caller EXCEPT ![<<"wake", j>>] = "armed"] ELSE caller
  /\ UNCHANGED <<shared, state, token, tasks, keyed, draining, slot, arrived>>

Polled == worker' = [worker EXCEPT !.pc = "tasks", !.job = NoKey, !.n = @ + 1, !.did = TRUE]

EndPending ==
  /\ worker.pc = "poll"
  /\ caller[<<"wake", worker.job>>] # "new" /\ polls[worker.job] = 1
  /\ Polled
  /\ UNCHANGED <<shared, signal, local, caller, slot, polls, hist>>

\* Keyed::finished.
Finished(k) ==
  IF keyed[k] = <<>> THEN [l \in DOMAIN keyed \ {k} |-> keyed[l]]
  ELSE [keyed EXCEPT ![k] = Tail(@)]

\* finish: the result is in, the room is given back, and the next job of the
\* key is launched.
EndPoll ==
  LET j == worker.job  k == KeyOf[j]
      next == IF k # NoKey THEN keyed[k] ELSE <<>> IN
  /\ worker.pc = "poll"
  /\ caller[<<"wake", j>>] = "new" \/ polls[j] = 2
  /\ Put({j}, IF j \in Panics /\ j \in ToSet(started) THEN "Panicked" ELSE "FULL")
  /\ items' = items + 1
  /\ keyed' = IF k # NoKey THEN Finished(k) ELSE keyed
  /\ tasks' = (tasks \ {j}) \cup (IF next = <<>> THEN {} ELSE {Head(next)})
  /\ scheduled' = IF next = <<>> THEN scheduled ELSE [scheduled EXCEPT ![Head(next)] = TRUE]
  /\ ready' = IF next = <<>> THEN ready ELSE Append(ready, Head(next))
  /\ Polled
  /\ UNCHANGED <<bound, free, exited, abandon, closing, state, token, draining, caller, polls, hist>>

Over ==
  \/ abandon
  \/ draining /\ tasks = {} /\ DOMAIN keyed = {} /\ bound = <<>> /\ free = <<>>

\* The end of a round: stop, go round again, or idle.
TurnDone ==
  /\ worker.pc = "tasks" /\ (worker.n = RunBatch \/ ready = <<>>)
  /\ worker' = At(IF Over THEN "close" ELSE IF worker.did THEN "inbox" ELSE "rest")
  /\ UNCHANGED <<shared, signal, local, caller, slot, polls, hist>>

-----------------------------------------------------------------------------
(* idle: parking, one more look, and park. *)

HasWork == ready # <<>> \/ bound # <<>> \/ free # <<>>

Parking ==
  /\ worker.pc = "rest"
  /\ state' = "PARKED"
  /\ worker' = At("look")
  /\ UNCHANGED <<shared, token, ready, local, caller, slot, polls, hist>>

\* As if the worker parked on what it saw before.
LookNot ==
  /\ worker.pc = "look"
  /\ worker' = At("park")
  /\ UNCHANGED <<shared, signal, local, caller, slot, polls, hist>>

LookAgain ==
  /\ worker.pc = "look"
  /\ worker' = At(IF HasWork \/ Over THEN "inbox" ELSE "park")
  /\ state' = IF HasWork \/ Over THEN "RUNNING" ELSE state
  /\ UNCHANGED <<shared, token, ready, local, caller, slot, polls, hist>>

Park ==
  /\ worker.pc = "park" /\ token
  /\ token' = FALSE
  /\ worker' = At("woken")
  /\ UNCHANGED <<shared, state, ready, local, caller, slot, polls, hist>>

Running ==
  /\ worker.pc = "woken"
  /\ state' = "RUNNING"
  /\ worker' = At("inbox")
  /\ UNCHANGED <<shared, token, ready, local, caller, slot, polls, hist>>

-----------------------------------------------------------------------------
(* Stopping: Drop for Worker. *)

Waiting == UNION {ToSet(keyed[k]) : k \in DOMAIN keyed}

Close ==
  /\ worker.pc = "close"
  /\ tasks' = {} /\ keyed' = [k \in {} |-> <<>>]
  /\ Put(tasks \cup Waiting, "ShutDown")
  /\ items' = items + Cardinality(tasks \cup Waiting)
  /\ worker' = At("exit")
  /\ UNCHANGED <<bound, free, exited, abandon, closing, signal, scheduled, draining, caller, polls, hist>>

Exit ==
  /\ worker.pc = "exit"
  /\ exited' = TRUE
  /\ worker' = At("drain")
  /\ UNCHANGED <<bound, free, items, abandon, closing, signal, local, caller, slot, polls, hist>>

WorkerDrains ==
  /\ worker.pc = "drain"
  /\ \/ DropOrphan /\ UNCHANGED worker
     \/ bound = <<>> /\ free = <<>> /\ worker' = At("gone") /\ UNCHANGED <<bound, free, items, slot>>
  /\ UNCHANGED <<exited, abandon, closing, signal, local, caller, polls, hist>>

-----------------------------------------------------------------------------
Submit(j) == AdmitNow(j) \/ Admit(j) \/ Push(j) \/ Check(j) \/ SubmitterDrains(j)
Waker(j) == Wake(j) \/ Schedule(j)
Stop == BeginStop \/ PushStop \/ Abandon
Notify(c) == Look(c) \/ Unpark(c)

Turn ==
  \/ Take \/ InboxDone \/ PopStale \/ BeginPoll \/ EndPending \/ EndPoll \/ TurnDone
  \/ Parking \/ LookAgain \/ Park \/ Running \/ Close \/ Exit \/ WorkerDrains

Next ==
  \/ \E j \in Jobs : Submit(j) \/ Cancel(j) \/ Waker(j)
  \/ Stop
  \/ \E c \in Callers : Notify(c)
  \/ Turn

Spec == Init /\ [][Next]_vars

\* Threads keep running, and what a suspended job waits for comes; nobody has
\* to submit, give up or stop the pool.
FairSpec ==
  /\ Spec
  /\ WF_vars(Turn)
  /\ \A j \in Jobs :
       /\ WF_vars(Waker(j))
       /\ WF_vars(Admit(j) \/ Push(j) \/ Check(j) \/ SubmitterDrains(j))
  /\ WF_vars(PushStop)
  /\ \A c \in Callers : WF_vars(Notify(c))

-----------------------------------------------------------------------------
\* The members of s, in the order of t.
Sorted(s, t) ==
  SelectSeq(t, LAMBDA m : m \in ToSet(s))

\* Every variable keeps its type.
TypeOK ==
  /\ bound \in Seq(Jobs \cup {Shutdown}) /\ free \in Seq(Jobs) /\ items \in 0..Cap
  /\ state \in {"RUNNING", "PARKED", "NOTIFIED"} /\ ready \in Seq(Jobs)
  /\ tasks \subseteq Jobs /\ scheduled \in [Jobs -> BOOLEAN]
  /\ \A k \in DOMAIN keyed : keyed[k] \in Seq(Jobs)
  /\ slot \in [Jobs -> {"EMPTY", "FULL", "Panicked", "ShutDown", "CANCELLED"}]

\* notify and parking cross: a worker that sleeps with no unpark on its way
\* has nothing to do and has not been told to stop.
SleepsIdle ==
  worker.pc = "park" /\ ~token /\ (\A c \in Callers : caller[c] \notin {"notify", "unpark"})
    => ~HasWork /\ ~Over

\* The room a job was admitted to is held until the job is over, however it
\* ends, and then given back once.
RoomExact ==
  LET held == {j \in Jobs : caller[<<"submit", j>>] = "admitted"}
              \cup (ToSet(bound \o free) \ {Shutdown}) \cup tasks \cup Waiting
  IN  items + Cardinality(held) = Cap

\* Two jobs for one document are never tasks of the worker at once, and they
\* start in the order they arrived.
OneAtATime ==
  /\ \A j, l \in tasks : j # l => KeyOf[j] = NoKey \/ KeyOf[j] # KeyOf[l]
  /\ \A k \in {KeyOf[j] : j \in Jobs} \ {NoKey} :
       LET mine == SelectSeq(started, LAMBDA j : KeyOf[j] = k)
       IN  mine = Sorted(mine, arrived)

\* No step starts a task whose waiter gave up before.
StartsWanted ==
  \A j \in Jobs : slot[j] = "CANCELLED" /\ j \notin ToSet(started) => j \notin ToSet(started')

\* Told to finish and stop, the worker runs every job that was in an inbox
\* before the message.
FinishesQueued ==
  ~abandon /\ Shutdown \in ToSet(arrived) =>
    \A n \in 1..Len(arrived) :
      n < SelectInSeq(arrived, LAMBDA m : m = Shutdown) => slot[arrived[n]] # "ShutDown"

\* Whoever was admitted gets an answer, from the task, from a worker that
\* stops, or from the push that finds the worker gone.
Answered == \A j \in Jobs : caller[<<"submit", j>>] = "admitted" ~> slot[j] # "EMPTY"

\* A pool told to shut down does: no worker sleeps through the message.
Stopped == closing ~> worker.pc = "gone"

=============================================================================
