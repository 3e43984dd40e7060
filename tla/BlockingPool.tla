---------------------------- MODULE BlockingPool ----------------------------
(***************************************************************************)
(* The bounded threads for code that has to block                          *)
(* (crates/workers/src/pool/blocking.rs): two semaphores, one for the free *)
(* slots of the queue and one for the queued jobs, and the counter of the  *)
(* threads still serving by which a late submitter and the last thread to  *)
(* leave agree who fails a job that nobody will run.                       *)
(*                                                                         *)
(* Every access to the queue, to a semaphore, to closing and to live is a  *)
(* step.  A panic of a job answers it like a result does.                  *)
(***************************************************************************)
EXTENDS Integers, Sequences, FiniteSets, Functions

CONSTANTS Jobs, Threads, Queue

\* Config::validate refuses a pool without threads or without a queue.
ASSUME BlockingAssumption ==
  /\ Queue \in Nat \ {0}
  /\ IsFiniteSet(Jobs) /\ IsFiniteSet(Threads) /\ Threads # {}
  /\ Jobs \cap Threads = {}

VARIABLES
  jobs,       \* Blocking.jobs
  room,       \* Blocking.room
  ready,      \* Blocking.ready
  closing,    \* Blocking.closing
  live,       \* Blocking.live
  caller,     \* where each job's spawn stands
  thread,     \* where each thread stands
  hand,       \* the job a thread or a draining caller has popped
  answer,     \* what became of the job
  closer,     \* where close stands
  early       \* the jobs that were queued when the pool began to close

sems == <<room, ready>>
vars == <<jobs, sems, closing, live, caller, thread, hand, answer, closer, early>>

Init ==
  /\ jobs = <<>> /\ room = Queue /\ ready = 0
  /\ closing = FALSE /\ live = Cardinality(Threads)
  /\ caller = [j \in Jobs |-> "new"] /\ thread = [t \in Threads |-> "wait"]
  /\ hand = [x \in Jobs \cup Threads |-> <<>>]
  /\ answer = [j \in Jobs |-> "none"]
  /\ closer = "open" /\ early = {}

-----------------------------------------------------------------------------
(* spawn. *)

Ask(j) ==
  /\ caller[j] = "new"
  /\ \/ /\ closing
        /\ caller' = [caller EXCEPT ![j] = "over"] /\ answer' = [answer EXCEPT ![j] = "failed"]
     \/ /\ ~closing
        /\ caller' = [caller EXCEPT ![j] = "room"] /\ UNCHANGED answer
  /\ UNCHANGED <<jobs, sems, closing, live, thread, hand, closer, early>>

Acquire(j) ==
  /\ caller[j] = "room" /\ room > 0
  /\ room' = room - 1
  /\ caller' = [caller EXCEPT ![j] = "push"]
  /\ UNCHANGED <<jobs, ready, closing, live, thread, hand, answer, closer, early>>

Push(j) ==
  /\ caller[j] = "push"
  /\ jobs' = Append(jobs, j)
  /\ caller' = [caller EXCEPT ![j] = "ready"]
  /\ UNCHANGED <<sems, closing, live, thread, hand, answer, closer, early>>

Signal(j) ==
  /\ caller[j] = "ready"
  /\ ready' = ready + 1
  /\ caller' = [caller EXCEPT ![j] = "look"]
  /\ UNCHANGED <<jobs, room, closing, live, thread, hand, answer, closer, early>>

\* As if the last thread alone failed what is left.
LookNot(j) ==
  /\ caller[j] = "look"
  /\ caller' = [caller EXCEPT ![j] = "over"]
  /\ UNCHANGED <<jobs, sems, closing, live, thread, hand, answer, closer, early>>

\* A thread still serves, or this caller drains.
Look(j) ==
  /\ caller[j] = "look"
  /\ caller' = [caller EXCEPT ![j] = IF live = 0 THEN "drain" ELSE "over"]
  /\ UNCHANGED <<jobs, sems, closing, live, thread, hand, answer, closer, early>>

-----------------------------------------------------------------------------
(* drain_orphans, by x. *)

Pop(x) ==
  /\ jobs # <<>> /\ hand[x] = <<>>
  /\ hand' = [hand EXCEPT ![x] = <<Head(jobs)>>]
  /\ jobs' = Tail(jobs)

Drop(x) ==
  /\ hand[x] # <<>>
  /\ room' = room + 1
  /\ answer' = [answer EXCEPT ![Head(hand[x])] = "failed"]
  /\ hand' = [hand EXCEPT ![x] = <<>>]

CallerDrains(j) ==
  /\ caller[j] = "drain"
  /\ \/ Pop(j) /\ UNCHANGED <<room, answer, caller>>
     \/ Drop(j) /\ UNCHANGED <<jobs, caller>>
     \/ /\ jobs = <<>> /\ hand[j] = <<>>
        /\ caller' = [caller EXCEPT ![j] = "over"] /\ UNCHANGED <<jobs, room, answer, hand>>
  /\ UNCHANGED <<ready, closing, live, thread, closer, early>>

ThreadDrains(t) ==
  /\ thread[t] = "drain"
  /\ \/ Pop(t) /\ UNCHANGED <<room, answer, thread>>
     \/ Drop(t) /\ UNCHANGED <<jobs, thread>>
     \/ /\ jobs = <<>> /\ hand[t] = <<>>
        /\ thread' = [thread EXCEPT ![t] = "gone"] /\ UNCHANGED <<jobs, room, answer, hand>>
  /\ UNCHANGED <<ready, closing, live, caller, closer, early>>

-----------------------------------------------------------------------------
(* serve. *)

Wake(t) ==
  /\ thread[t] = "wait" /\ ready > 0
  /\ ready' = ready - 1
  /\ thread' = [thread EXCEPT ![t] = "pop"]
  /\ UNCHANGED <<jobs, room, closing, live, caller, hand, answer, closer, early>>

Take(t) ==
  /\ thread[t] = "pop" /\ Pop(t)
  /\ thread' = [thread EXCEPT ![t] = "give"]
  /\ UNCHANGED <<sems, closing, live, caller, answer, closer, early>>

Give(t) ==
  /\ thread[t] = "give"
  /\ room' = room + 1
  /\ thread' = [thread EXCEPT ![t] = "run"]
  /\ UNCHANGED <<jobs, ready, closing, live, caller, hand, answer, closer, early>>

Run(t) ==
  /\ thread[t] = "run"
  /\ answer' = [answer EXCEPT ![Head(hand[t])] = "done"]
  /\ hand' = [hand EXCEPT ![t] = <<>>]
  /\ thread' = [thread EXCEPT ![t] = "wait"]
  /\ UNCHANGED <<jobs, sems, closing, live, caller, closer, early>>

\* As if the threads of a closing pool left the queue to the last of them.
FoundClosing(t) ==
  /\ thread[t] = "pop" /\ (jobs = <<>> \/ closing)
  /\ thread' = [thread EXCEPT ![t] = "empty"]
  /\ UNCHANGED <<jobs, sems, closing, live, caller, hand, answer, closer, early>>

\* pop found nothing.
FoundNone(t) ==
  /\ thread[t] = "pop" /\ jobs = <<>>
  /\ thread' = [thread EXCEPT ![t] = "empty"]
  /\ UNCHANGED <<jobs, sems, closing, live, caller, hand, answer, closer, early>>

Stop(t) ==
  /\ thread[t] = "empty"
  /\ thread' = [thread EXCEPT ![t] = IF closing THEN "leave" ELSE "wait"]
  /\ UNCHANGED <<jobs, sems, closing, live, caller, hand, answer, closer, early>>

Leave(t) ==
  /\ thread[t] = "leave"
  /\ live' = live - 1
  /\ thread' = [thread EXCEPT ![t] = "last"]
  /\ UNCHANGED <<jobs, sems, closing, caller, hand, answer, closer, early>>

LastOut(t) ==
  /\ thread[t] = "last"
  /\ thread' = [thread EXCEPT ![t] = IF live = 0 THEN "drain" ELSE "gone"]
  /\ UNCHANGED <<jobs, sems, closing, live, caller, hand, answer, closer, early>>

-----------------------------------------------------------------------------
(* close. *)

BeginClose ==
  /\ closer = "open"
  /\ closing' = TRUE /\ closer' = "add" /\ early' = Range(jobs)
  /\ UNCHANGED <<jobs, sems, live, caller, thread, hand, answer>>

WakeAll ==
  /\ closer = "add"
  /\ ready' = ready + Cardinality(Threads) /\ closer' = "closed"
  /\ UNCHANGED <<jobs, room, closing, live, caller, thread, hand, answer, early>>

-----------------------------------------------------------------------------
Spawn(j) == Ask(j) \/ Acquire(j) \/ Push(j) \/ Signal(j) \/ Look(j) \/ CallerDrains(j)
Serve(t) ==
  \/ Wake(t) \/ Take(t) \/ Give(t) \/ Run(t) \/ FoundNone(t) \/ Stop(t)
  \/ Leave(t) \/ LastOut(t) \/ ThreadDrains(t)
Close == BeginClose \/ WakeAll

Next == (\E j \in Jobs : Spawn(j)) \/ (\E t \in Threads : Serve(t)) \/ Close

Spec == Init /\ [][Next]_vars

\* Callers and threads keep running, jobs end, and a close that began goes on.
FairSpec ==
  /\ Spec
  /\ \A j \in Jobs : WF_vars(Spawn(j))
  /\ \A t \in Threads : WF_vars(Serve(t))
  /\ WF_vars(WakeAll)

-----------------------------------------------------------------------------
\* Every variable keeps its type, and the queue always has a place for a job
\* that has its slot.
TypeOK ==
  /\ jobs \in Seq(Jobs) /\ Len(jobs) <= Queue
  /\ room \in 0..Queue /\ ready \in Nat /\ live \in 0..Cardinality(Threads)
  /\ answer \in [Jobs -> {"none", "done", "failed"}]

\* A slot is free, or in the hand of one that pushes or has popped, or filled.
RoomExact ==
  room + Len(jobs) + Cardinality({j \in Jobs : caller[j] = "push"})
    + Cardinality({t \in Threads : thread[t] \in {"give", "drain"} /\ hand[t] # <<>>})
    + Cardinality({j \in Jobs : caller[j] = "drain" /\ hand[j] # <<>>}) = Queue

\* Closing lets the threads finish the queued jobs: none of them is failed.
QueuedFinish == \A j \in early : answer[j] # "failed"

\* No job waits in a queue nobody serves: once every thread has gone, a
\* caller that still drains is there for it.
NoneStranded ==
  (\A t \in Threads : thread[t] = "gone") /\ jobs # <<>> =>
    \E j \in Jobs : caller[j] \in {"ready", "look", "drain"}

\* Every call of spawn is answered, by a result or by ShutDown.
Answered == \A j \in Jobs : caller[j] # "new" ~> answer[j] # "none"
=============================================================================
