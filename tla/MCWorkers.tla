------------------------------ MODULE MCWorkers ------------------------------
(***************************************************************************)
(* The worker pool in one model: the pool of blocking threads              *)
(* (BlockingPool), a worker and its inboxes (WorkerInbox) and the monitor  *)
(* of stuck workers (StuckMonitor).  The parts share no state, so a        *)
(* behaviour is one of one part: `component` says of which.  Meanwhile the *)
(* variables of BlockingPool keep their initial values and those that      *)
(* another part does not have are Off.                                     *)
(***************************************************************************)
EXTENDS BlockingPool

CONSTANTS a, b,     \* jobs
          key,      \* a document key
          none, Off

VARIABLES component,
  free, items, tasks, keyed, worker,
  bound, exited, abandon, stopping, state, token, woken, scheduled, draining, calling, slot,
  polls, arrived, started,
  stuck, beat, long, todo, polled, sent, left, monitor

common == <<free, items, tasks, keyed, worker>>
inboxOnly == <<bound, exited, abandon, stopping, state, token, woken, scheduled, draining,
               calling, slot, polls, arrived, started>>
monitorOnly == <<stuck, beat, long, todo, polled, sent, left, monitor>>
all == <<vars, component, common, inboxOnly, monitorOnly>>

OffCommon == free = Off /\ items = Off /\ tasks = Off /\ keyed = Off /\ worker = Off
OffInbox ==
  /\ bound = Off /\ exited = Off /\ abandon = Off /\ stopping = Off /\ state = Off
  /\ token = Off /\ woken = Off /\ scheduled = Off /\ draining = Off /\ calling = Off
  /\ slot = Off /\ polls = Off /\ arrived = Off /\ started = Off
OffMonitor ==
  /\ stuck = Off /\ beat = Off /\ long = Off /\ todo = Off /\ polled = Off /\ sent = Off
  /\ left = Off /\ monitor = Off

-----------------------------------------------------------------------------
NoKeys == [j \in {a, b} |-> none]
SameKey == [j \in {a, b} |-> key]
HomeOne == [l \in {key} |-> 1]

\* An inbox with room for one: a bound job that panics and one that suspends.
Inbox == INSTANCE WorkerInbox WITH
  Jobs <- {a, b}, KeyOf <- NoKeys, NoKey <- none, Bound <- {b}, Suspends <- {a},
  Panics <- {b}, Cancels <- {}, Cap <- 1, InboxBatch <- 2, RunBatch <- 1,
  Stops <- TRUE, Abandons <- TRUE, closing <- stopping, ready <- woken, caller <- calling
\* Two jobs for one document, in a pool that stops.
Pair == INSTANCE WorkerInbox WITH
  Jobs <- {a, b}, KeyOf <- SameKey, NoKey <- none, Bound <- {}, Suspends <- {a},
  Panics <- {}, Cancels <- {}, Cap <- 2, InboxBatch <- 2, RunBatch <- 1,
  Stops <- TRUE, Abandons <- FALSE, closing <- stopping, ready <- woken, caller <- calling
\* Two jobs for one document whose callers may give up.
Given == INSTANCE WorkerInbox WITH
  Jobs <- {a, b}, KeyOf <- SameKey, NoKey <- none, Bound <- {}, Suspends <- {a},
  Panics <- {b}, Cancels <- {a, b}, Cap <- 1, InboxBatch <- 2, RunBatch <- 2,
  Stops <- FALSE, Abandons <- TRUE, closing <- stopping, ready <- woken, caller <- calling

\* One monitor, and two jobs for one document.
Keyed == INSTANCE StuckMonitor WITH
  N <- 2, Jobs <- {a, b}, KeyOf <- SameKey, NoKey <- none, Home <- HomeOne, Hash <- 1,
  Twice <- {}, Endless <- {}, Long <- TRUE, Cap <- 2, Monitors <- {1}
\* Two monitors, and two jobs for any worker.
Two == INSTANCE StuckMonitor WITH
  N <- 2, Jobs <- {a, b}, KeyOf <- NoKeys, NoKey <- none, Home <- HomeOne, Hash <- 1,
  Twice <- {}, Endless <- {}, Long <- TRUE, Cap <- 2, Monitors <- {1, 2}

-----------------------------------------------------------------------------
MCInit ==
  /\ Init
  /\ \/ component = "blocking" /\ OffCommon /\ OffInbox /\ OffMonitor
     \/ /\ OffMonitor
        /\ \/ component = "inbox" /\ Inbox!Init
           \/ component = "pair" /\ Pair!Init
           \/ component = "given" /\ Given!Init
     \/ /\ OffInbox
        /\ \/ component = "keyed" /\ Keyed!Init
           \/ component = "two" /\ Two!Init

MCNext ==
  /\ UNCHANGED component
  /\ \/ component = "blocking" /\ Next /\ UNCHANGED <<common, inboxOnly, monitorOnly>>
     \/ /\ UNCHANGED <<vars, monitorOnly>>
        /\ \/ component = "inbox" /\ Inbox!Next
           \/ component = "pair" /\ Pair!Next
           \/ component = "given" /\ Given!Next
     \/ /\ UNCHANGED <<vars, inboxOnly>>
        /\ \/ component = "keyed" /\ Keyed!Next
           \/ component = "two" /\ Two!Next

MCSpec == MCInit /\ [][MCNext]_all

-----------------------------------------------------------------------------
\* A worker that sleeps with no unpark on its way has nothing to do and has not
\* been told to stop; the room a job was admitted to is held until the job is
\* over, however it ends; two jobs for one document are never tasks of a worker
\* at once and start in their order; and, told to finish and stop, a worker runs
\* every job that was in an inbox before the message (Signal, WorkerShared,
\* Keyed, the worker's loop).
InboxServes ==
  /\ component = "inbox" => /\ Inbox!TypeOK /\ Inbox!SleepsIdle /\ Inbox!RoomExact
                            /\ Inbox!FinishesQueued
  /\ component = "pair" => /\ Pair!TypeOK /\ Pair!SleepsIdle /\ Pair!RoomExact
                           /\ Pair!FinishesQueued /\ Pair!OneAtATime
  /\ component = "given" => /\ Given!TypeOK /\ Given!SleepsIdle /\ Given!RoomExact
                            /\ Given!OneAtATime


\* A job the monitor moves is never lost or doubled: until it is over it is
\* at one worker, whose room it holds (Monitor::scan).
EachHeldOnce ==
  /\ component = "keyed" => Keyed!TypeOK /\ Keyed!EachHeldOnce
  /\ component = "two" => Two!TypeOK /\ Two!EachHeldOnce
=============================================================================
