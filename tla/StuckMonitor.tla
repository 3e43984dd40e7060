---------------------------- MODULE StuckMonitor ----------------------------
(***************************************************************************)
(* How the pool goes around a worker stuck in a long poll: routing by key  *)
(* and by load (crates/workers/src/pool/routing.rs), the monitor that marks *)
(* the worker and moves its queued jobs (monitor.rs), the heartbeat it     *)
(* reads (worker/heartbeat.rs) and the worker that clears its own mark     *)
(* (worker/local.rs).                                                      *)
(*                                                                         *)
(* All workers are on one node.  Parking, suspension wakes and shutdown    *)
(* are those of WorkerInbox and are left out, as are jobs bound to a       *)
(* worker, which are never moved.  Every worker also polls a daemon, the   *)
(* recheck of its placement.  A scan is a process of its own, as under a   *)
(* MonitorDriver.                                                          *)
(***************************************************************************)
EXTENDS Integers, Sequences, FiniteSets, SequencesExt

CONSTANTS
  N,          \* the workers are 1..N
  Jobs,
  KeyOf,      \* a job's key, or NoKey
  NoKey,
  Home,       \* the worker a key's hash picks
  Hash,       \* the key's hash, for the pick of a fallback
  Twice,      \* the jobs that take two polls
  Endless,    \* the jobs whose poll never ends
  Long,       \* whether a poll may pass the limit
  Cap,        \* inbox_items
  Monitors

VARIABLES
  free,       \* WorkerShared.free
  items,      \* WorkerShared.items
  stuck,      \* WorkerShared.stuck
  beat,       \* the start of the poll Heartbeat shows, or Idle
  long,       \* whether that start is past the limit
  tasks,      \* Local.tasks
  keyed,      \* Keyed.waiting
  worker,     \* where a worker stands
  todo,       \* the tasks its round still polls
  polled,     \* the task it polls, or Daemon
  sent,       \* where a job was routed to, or 0
  left,       \* the polls a job still takes
  monitor     \* where a scan stands: [pc, at, seen, hand]

shared == <<free, items>>
local == <<tasks, keyed>>
vars == <<shared, stuck, beat, long, local, worker, todo, polled, sent, left, monitor>>

Workers == 1..N
Idle == 0
Daemon == NoKey
Resting == [pc |-> "next", at |-> 0, seen |-> Idle, hand |-> NoKey]

Init ==
  /\ free = [w \in Workers |-> <<>>] /\ items = [w \in Workers |-> Cap]
  /\ stuck = [w \in Workers |-> FALSE]
  /\ beat = [w \in Workers |-> Idle] /\ long = [w \in Workers |-> FALSE]
  /\ tasks = [w \in Workers |-> {}] /\ keyed = [w \in Workers |-> [k \in {} |-> <<>>]]
  /\ worker = [w \in Workers |-> "inbox"] /\ todo = [w \in Workers |-> {}]
  /\ polled = [w \in Workers |-> Daemon]
  /\ sent = [j \in Jobs |-> 0] /\ left = [j \in Jobs |-> IF j \in Twice THEN 2 ELSE 1]
  /\ monitor = [m \in Monitors |-> Resting]

-----------------------------------------------------------------------------
(* Routing. *)

Unstuck == SelectSeq([w \in Workers |-> w], LAMBDA w : ~stuck[w])
Load(w) == Cap - items[w]

\* key_worker: the key's home, or its fallback among the workers not stuck.
KeyWorker(k) ==
  IF ~stuck[Home[k]] \/ Unstuck = <<>> THEN Home[k] ELSE Unstuck[(Hash % Len(Unstuck)) + 1]

\* least_loaded, of two workers picked at random.
LeastLoaded(a, b) ==
  CASE ~stuck[a] /\ ~stuck[b] -> IF Load(b) < Load(a) THEN b ELSE a
    [] ~stuck[a] -> a
    [] ~stuck[b] -> b
    [] OTHER -> IF Unstuck = <<>> THEN a ELSE Unstuck[1]

Route(j) ==
  /\ sent[j] = 0
  /\ \E a, b \in Workers :
       sent' = [sent EXCEPT ![j] = IF KeyOf[j] # NoKey THEN KeyWorker(KeyOf[j]) ELSE LeastLoaded(a, b)]
  /\ UNCHANGED <<shared, stuck, beat, long, local, worker, todo, polled, left, monitor>>

\* admit and push.
Push(j) ==
  LET w == sent[j] IN
  /\ w \in Workers /\ items[w] > 0
  /\ items' = [items EXCEPT ![w] = @ - 1]
  /\ free' = [free EXCEPT ![w] = Append(@, j)]
  /\ sent' = [sent EXCEPT ![j] = -1]
  /\ UNCHANGED <<stuck, beat, long, local, worker, todo, polled, left, monitor>>

-----------------------------------------------------------------------------
(* A worker's round. *)

Put(f, k, v) == [l \in DOMAIN f \cup {k} |-> IF l = k THEN v ELSE f[l]]

TakeJob(w) ==
  LET j == Head(free[w])  k == KeyOf[j] IN
  /\ worker[w] = "inbox" /\ free[w] # <<>>
  /\ free' = [free EXCEPT ![w] = Tail(@)]
  /\ \/ k # NoKey /\ k \in DOMAIN keyed[w]
          /\ keyed' = [keyed EXCEPT ![w][k] = Append(@, j)] /\ UNCHANGED tasks
     \/ k # NoKey /\ k \notin DOMAIN keyed[w]
          /\ keyed' = [keyed EXCEPT ![w] = Put(@, k, <<>>)]
          /\ tasks' = [tasks EXCEPT ![w] = @ \cup {j}]
     \/ k = NoKey /\ tasks' = [tasks EXCEPT ![w] = @ \cup {j}] /\ UNCHANGED keyed
  /\ UNCHANGED <<items, stuck, beat, long, worker, todo, polled, sent, left, monitor>>

\* A start no scan still remembers.
NewStart(w) ==
  CHOOSE n \in 1..(Cardinality(Monitors) + 1) :
    \A m \in Monitors : ~(monitor[m].at = w /\ monitor[m].seen = n)

\* The inbox is drained; the tasks are polled, and the daemon when it is due.
StartRound(w, due) ==
  /\ worker[w] = "inbox" /\ free[w] = <<>>
  /\ todo' = [todo EXCEPT ![w] = tasks[w] \cup due] /\ todo'[w] # {}
  /\ worker' = [worker EXCEPT ![w] = "between"]
  /\ UNCHANGED <<shared, stuck, beat, long, local, polled, sent, left, monitor>>

\* poll: the heartbeat shows the new poll.
Poll(w, t) ==
  /\ worker[w] = "between" /\ t \in todo[w]
  /\ todo' = [todo EXCEPT ![w] = @ \ {t}]
  /\ beat' = [beat EXCEPT ![w] = NewStart(w)] /\ long' = [long EXCEPT ![w] = FALSE]
  /\ worker' = [worker EXCEPT ![w] = "polling"] /\ polled' = [polled EXCEPT ![w] = t]
  /\ UNCHANGED <<shared, stuck, local, sent, left, monitor>>

\* Time passes the limit of the poll the heartbeat shows.
PastLimit(w) ==
  /\ Long /\ beat[w] # Idle /\ ~long[w] /\ polled[w] # Daemon
  /\ long' = [long EXCEPT ![w] = TRUE]
  /\ UNCHANGED <<shared, stuck, beat, local, worker, todo, polled, sent, left, monitor>>

Return(w) ==
  /\ worker[w] = "polling" /\ polled[w] \notin Endless
  /\ worker' = [worker EXCEPT ![w] = "after"]
  /\ left' = IF polled[w] = Daemon THEN left ELSE [left EXCEPT ![polled[w]] = @ - 1]
  /\ UNCHANGED <<shared, stuck, beat, long, local, todo, polled, sent, monitor>>

\* after_poll looks at the mark...
AfterPoll(w) ==
  /\ worker[w] = "after"
  /\ worker' = [worker EXCEPT ![w] = IF stuck[w] THEN "clear" ELSE "finish"]
  /\ UNCHANGED <<shared, stuck, beat, long, local, todo, polled, sent, left, monitor>>

\* ... and clears it.
Clear(w) ==
  /\ worker[w] = "clear"
  /\ stuck' = [stuck EXCEPT ![w] = FALSE]
  /\ worker' = [worker EXCEPT ![w] = "finish"]
  /\ UNCHANGED <<shared, beat, long, local, todo, polled, sent, left, monitor>>

\* finish, and the next job of the key.
Finish(w) ==
  LET j == polled[w]
      k == IF j = Daemon THEN NoKey ELSE KeyOf[j]
      next == IF k = NoKey THEN <<>> ELSE keyed[w][k]
      first == IF next = <<>> THEN {} ELSE {Head(next)}
      over == j # Daemon /\ left[j] = 0 IN
  /\ worker[w] = "finish"
  /\ items' = IF over THEN [items EXCEPT ![w] = @ + 1] ELSE items
  /\ tasks' = IF over THEN [tasks EXCEPT ![w] = (@ \ {j}) \cup first] ELSE tasks
  /\ keyed' = CASE ~over \/ k = NoKey -> keyed
                [] next = <<>> -> [keyed EXCEPT ![w] = [l \in DOMAIN @ \ {k} |-> @[l]]]
                [] OTHER -> [keyed EXCEPT ![w][k] = Tail(@)]
  /\ worker' = [worker EXCEPT ![w] = "between"]
  /\ UNCHANGED <<free, stuck, beat, long, todo, polled, sent, left, monitor>>

\* The round is over and the heartbeat shows no poll.
GoIdle(w) ==
  /\ worker[w] = "between" /\ todo[w] = {}
  /\ beat' = [beat EXCEPT ![w] = Idle] /\ long' = [long EXCEPT ![w] = FALSE]
  /\ worker' = [worker EXCEPT ![w] = "inbox"] /\ polled' = [polled EXCEPT ![w] = Daemon]
  /\ UNCHANGED <<shared, stuck, local, todo, sent, left, monitor>>

-----------------------------------------------------------------------------
(* A scan. *)

ScanRead(m, w) ==
  /\ monitor[m].pc = "next" /\ beat[w] # Idle /\ long[w]
  /\ monitor' = [monitor EXCEPT ![m] = [pc |-> "mark", at |-> w, seen |-> beat[w], hand |-> NoKey]]
  /\ UNCHANGED <<shared, stuck, beat, long, local, worker, todo, polled, sent, left>>

Mark(m) ==
  /\ monitor[m].pc = "mark"
  /\ stuck' = [stuck EXCEPT ![monitor[m].at] = TRUE]
  /\ monitor' = [monitor EXCEPT ![m].pc = "reread"]
  /\ UNCHANGED <<shared, beat, long, local, worker, todo, polled, sent, left>>

Reread(m) ==
  LET r == monitor[m] IN
  /\ r.pc = "reread"
  /\ monitor' = [monitor EXCEPT ![m].pc = IF beat[r.at] = r.seen THEN "move" ELSE "unmark",
                                ![m].seen = Idle]
  /\ UNCHANGED <<shared, stuck, beat, long, local, worker, todo, polled, sent, left>>

Unmark(m) ==
  /\ monitor[m].pc = "unmark"
  /\ stuck' = [stuck EXCEPT ![monitor[m].at] = FALSE]
  /\ monitor' = [monitor EXCEPT ![m].pc = "move"]
  /\ UNCHANGED <<shared, beat, long, local, worker, todo, polled, sent, left>>

TakeFree(m) ==
  LET w == monitor[m].at IN
  /\ monitor[m].pc = "move"
  /\ \/ /\ free[w] = <<>>
        /\ monitor' = [monitor EXCEPT ![m] = Resting] /\ UNCHANGED free
     \/ /\ free[w] # <<>>
        /\ monitor' = [monitor EXCEPT ![m].pc = "hold", ![m].hand = Head(free[w])]
        /\ free' = [free EXCEPT ![w] = Tail(@)]
  /\ UNCHANGED <<items, stuck, beat, long, local, worker, todo, polled, sent, left>>

\* The workers a job may be moved to from w.
Targets(j, w) ==
  IF KeyOf[j] # NoKey THEN {KeyWorker(KeyOf[j])} \ {w}
  ELSE {v \in ToSet(Unstuck) \ {w} : \A u \in ToSet(Unstuck) : Load(v) <= Load(u)}

\* As if the room the job had at the stuck worker went with it.
MoveRoomless(m, j, w, v) ==
  /\ items' = [items EXCEPT ![v] = @ - 1]
  /\ free' = [free EXCEPT ![v] = Append(@, j)]
  /\ monitor' = [monitor EXCEPT ![m].pc = "move", ![m].hand = NoKey]

\* The job is admitted by v, and its room at w is given back.
Move(m, j, w, v) ==
  /\ items' = [items EXCEPT ![v] = @ - 1, ![w] = @ + 1]
  /\ free' = [free EXCEPT ![v] = Append(@, j)]
  /\ monitor' = [monitor EXCEPT ![m].pc = "move", ![m].hand = NoKey]

PutBack(m, j, w) ==
  /\ free' = [free EXCEPT ![w] = Append(@, j)]
  /\ monitor' = [monitor EXCEPT ![m] = Resting]
  /\ UNCHANGED items

Reroute(m) ==
  LET w == monitor[m].at  j == monitor[m].hand IN
  /\ monitor[m].pc = "hold"
  /\ \/ \E v \in Targets(j, w) : items[v] > 0 /\ Move(m, j, w, v)
     \/ (\E v \in Targets(j, w) : items[v] = 0) /\ PutBack(m, j, w)
     \/ Targets(j, w) = {} /\ PutBack(m, j, w)
  /\ UNCHANGED <<stuck, beat, long, local, worker, todo, polled, sent, left>>

-----------------------------------------------------------------------------
Submit(j) == Route(j) \/ Push(j)
Turn(w) ==
  \/ TakeJob(w) \/ StartRound(w, {Daemon}) \/ (\E t \in Jobs \cup {Daemon} : Poll(w, t)) \/ Return(w)
  \/ AfterPoll(w) \/ Clear(w) \/ Finish(w) \/ GoIdle(w)
Scan(m) == Mark(m) \/ Reread(m) \/ Unmark(m) \/ TakeFree(m) \/ Reroute(m)

Next ==
  \/ \E j \in Jobs : Submit(j)
  \/ \E w \in Workers : Turn(w) \/ StartRound(w, {}) \/ PastLimit(w)
  \/ \E m \in Monitors : Scan(m) \/ \E w \in Workers : ScanRead(m, w)

Spec == Init /\ [][Next]_vars

\* Workers and monitors keep running, the daemon's timer fires, and time
\* passes.
FairSpec ==
  /\ Spec
  /\ \A j \in Jobs : WF_vars(Push(j))
  /\ \A w \in Workers : WF_vars(Turn(w)) /\ WF_vars(PastLimit(w))
  /\ \A m \in Monitors :
       WF_vars(Scan(m)) /\ \A w \in Workers : WF_vars(ScanRead(m, w))

-----------------------------------------------------------------------------
Held(w) ==
  ToSet(free[w]) \cup tasks[w] \cup UNION {ToSet(keyed[w][k]) : k \in DOMAIN keyed[w]}
    \cup ({monitor[m].hand : m \in {n \in Monitors : monitor[n].at = w}} \ {NoKey})

\* Every variable keeps its type.
TypeOK ==
  /\ free \in [Workers -> Seq(Jobs)] /\ items \in [Workers -> 0..Cap]
  /\ stuck \in [Workers -> BOOLEAN] /\ tasks \in [Workers -> SUBSET Jobs]
  /\ sent \in [Jobs -> {-1} \cup 0..N]

\* A job the monitor moves is never lost or doubled: until it is over it is
\* at one worker, whose room it holds.
EachHeldOnce ==
  /\ \A w \in Workers : items[w] + Cardinality(Held(w)) = Cap
  /\ \A j \in Jobs : sent[j] = -1 /\ left[j] > 0 => \E w \in Workers : j \in Held(w)
  /\ \A v, w \in Workers : v # w => Held(v) \cap Held(w) = {}
=============================================================================
