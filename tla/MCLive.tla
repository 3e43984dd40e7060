------------------------------- MODULE MCLive -----------------------------
(***************************************************************************)
(* What must eventually happen where weak fairness is enough: transaction  *)
(* slots (TxnSlots), statements (StatementTxn), the windows of broadcasts  *)
(* (BroadcastCoalescer), the event bus (EventBus), the order of commits'   *)
(* events (EventOrder) and the worker pool (WorkerInbox, StuckMonitor,     *)
(* BlockingPool).  The parts share no state, so a behaviour is one of one  *)
(* part: `component` says of which, and the variables of the others keep   *)
(* their initial values.  Each part has its own fairness.                  *)
(***************************************************************************)
EXTENDS Integers, Sequences, TLC

CONSTANTS t1, t2,       \* transactions, threads
          c1, c2,       \* calls of close
          d1, d2,       \* documents
          p1,           \* a publisher
          w1, w2,       \* commits
          a, b,         \* jobs
          none

VARIABLES component,
  inUse, shutting, idle, store, holder, closer,
  txn, open, saved, collections, owed, depth, queue, engine, request, outliving, end, ran,
  kinds, told, made, before,
  closed, map, chan, buffer, dropped, pending, resync, wake, sat, stale, cat, hand, current,
  pat, msgs, todo, dead, close, swept, commits, gone,
  life, work, resting, slots, holding, due, completed, arrivals, seq, stage, receipt, owner,
  drain, out, earlier,
  bound, free, items, exited, abandon, closing, state, token, ready, tasks, scheduled, keyed,
  draining, worker, caller, slot, polls, arrived, started,
  inboxes, rooms, stuck, beat, long, held, behind, place, round, polled, sent, left, monitor,
  jobs, room, permits, ending, live, spawn, thread, popped, answer, ender, early,
  at, candidate, window, listed, latest, loaded, result, cancelled, woken

slotVars == <<inUse, shutting, idle, store, holder, closer>>
statementVars == <<txn, open, saved, collections, owed, depth, queue, engine, request, outliving,
                   end, ran, kinds, told, made, before>>
busVars == <<closed, map, chan, buffer, dropped, pending, resync, wake, sat, stale, cat, hand,
             current, pat, msgs, todo, dead, close, swept, commits, gone>>
orderVars == <<life, work, resting, slots, holding, due, completed, arrivals, seq, stage, receipt,
               owner, drain, out, earlier>>
inboxVars == <<bound, free, items, exited, abandon, closing, state, token, ready, tasks, scheduled,
               keyed, draining, worker, caller, slot, polls, arrived, started>>
monitorVars == <<inboxes, rooms, stuck, beat, long, held, behind, place, round, polled, sent, left,
                 monitor>>
poolVars == <<jobs, room, permits, ending, live, spawn, thread, popped, answer, ender, early>>
windowVars == <<at, candidate, window, listed, latest, loaded, result, cancelled, woken>>
all == <<component, slotVars, statementVars, busVars, orderVars, inboxVars, monitorVars, poolVars,
         windowVars>>

-----------------------------------------------------------------------------
Slot == INSTANCE TxnSlots WITH
  Txns <- {t1, t2}, Closers <- {c1, c2}, Deadline <- FALSE,
  open <- inUse, closing <- shutting, engine <- store, txn <- holder

AllHolds == {"handle", "view", "iterator"}
Statement == INSTANCE StatementTxn WITH MaxRequests <- 2, MaxItems <- 1, Holds <- AllHolds

Updates == {<<d1>>, <<d2, d1>>}
Bus == INSTANCE EventBus WITH
  Docs <- {d1, d2}, Other <- "other", Raw <- {}, Observers <- {"o"},
  Wants <- [s \in {"o"} |-> {d1, d2}], Threads <- {p1}, Batches <- Updates,
  Capacity <- 1, MaxCommits <- 2

Order == INSTANCE EventOrder WITH
  Commits <- {w1, w2}, Writers <- {w1, w2}, Hooked <- {w1}, Unwinding <- {},
  EarlyCancel <- FALSE, free <- resting, ready <- due, engine <- stage

Inbox == INSTANCE WorkerInbox WITH
  Jobs <- {a}, KeyOf <- a :> "k", NoKey <- none, Bound <- {},
  Suspends <- {a}, Panics <- {}, Cancels <- {}, Cap <- 1, InboxBatch <- 1, RunBatch <- 1,
  Stops <- TRUE, Abandons <- FALSE

\* A poll that never ends, with a job queued behind it.
Endlessly == INSTANCE StuckMonitor WITH
  N <- 2, Jobs <- {a, b}, KeyOf <- [j \in {a, b} |-> none], NoKey <- none,
  Home <- [k \in {} |-> 1], Hash <- 1, Twice <- {}, Endless <- {a}, Long <- TRUE, Cap <- 2,
  Monitors <- {1}, free <- inboxes, items <- rooms, tasks <- held, keyed <- behind,
  worker <- place, todo <- round
\* Polls that pass the limit and end.
Slowly == INSTANCE StuckMonitor WITH
  N <- 2, Jobs <- {a}, KeyOf <- a :> "k", NoKey <- none,
  Home <- "k" :> 1, Hash <- 1, Twice <- {a}, Endless <- {}, Long <- TRUE, Cap <- 1,
  Monitors <- {1}, free <- inboxes, items <- rooms, tasks <- held, keyed <- behind,
  worker <- place, todo <- round

Pool == INSTANCE BlockingPool WITH
  Jobs <- {a, b}, Threads <- {t1, t2}, Queue <- 1,
  ready <- permits, closing <- ending, caller <- spawn, hand <- popped, closer <- ender

\* Two updates that arrive in any order.
Windows == INSTANCE BroadcastCoalescer WITH
  Callers <- {1, 2}, Version <- [c \in 1..2 |-> c], Undecodable <- {}, NoWindow <- none,
  pending <- listed

-----------------------------------------------------------------------------
Parts == {"slots", "statement", "bus", "order", "inbox", "endless", "slow", "pool", "windows"}

MCInit ==
  /\ component \in Parts
  /\ Slot!Init /\ Statement!Init /\ Bus!Init /\ Order!Init /\ Inbox!Init /\ Pool!Init
  /\ Windows!Init
  /\ IF component = "endless" THEN Endlessly!Init ELSE Slowly!Init

OfSlots ==
  /\ component = "slots"
  /\ UNCHANGED <<component, statementVars, busVars, orderVars, inboxVars, monitorVars, poolVars,
                windowVars>>
OfStatement ==
  /\ component = "statement"
  /\ UNCHANGED <<component, slotVars, busVars, orderVars, inboxVars, monitorVars, poolVars,
                windowVars>>
OfBus ==
  /\ component = "bus"
  /\ UNCHANGED <<component, slotVars, statementVars, orderVars, inboxVars, monitorVars,
                poolVars, windowVars>>
OfOrder ==
  /\ component = "order"
  /\ UNCHANGED <<component, slotVars, statementVars, busVars, inboxVars, monitorVars, poolVars,
                windowVars>>
OfInbox ==
  /\ component = "inbox"
  /\ UNCHANGED <<component, slotVars, statementVars, busVars, orderVars, monitorVars, poolVars,
                windowVars>>
OfEndless ==
  /\ component = "endless"
  /\ UNCHANGED <<component, slotVars, statementVars, busVars, orderVars, inboxVars, poolVars,
                windowVars>>
OfSlow ==
  /\ component = "slow"
  /\ UNCHANGED <<component, slotVars, statementVars, busVars, orderVars, inboxVars, poolVars,
                windowVars>>
OfPool ==
  /\ component = "pool"
  /\ UNCHANGED <<component, slotVars, statementVars, busVars, orderVars, inboxVars, monitorVars,
                windowVars>>
OfWindows ==
  /\ component = "windows"
  /\ UNCHANGED <<component, slotVars, statementVars, busVars, orderVars, inboxVars, monitorVars,
                poolVars>>

MCNext ==
  \/ OfSlots /\ Slot!Next
  \/ OfStatement /\ Statement!Next
  \/ OfBus /\ Bus!Next
  \/ OfOrder /\ Order!Next
  \/ OfInbox /\ Inbox!Next
  \/ OfEndless /\ Endlessly!Next
  \/ OfSlow /\ Slowly!Next
  \/ OfPool /\ Pool!Next
  \/ OfWindows /\ Windows!Next

-----------------------------------------------------------------------------
Closer == <<c1, c2>>
Commit == <<w1, w2>>
Job == <<a, b>>
Doc == <<d1, d2>>
Queued(w) == {inboxes[w][n] : n \in DOMAIN inboxes[w]}

\* Each part's threads take their steps (see FairSpec of its module).
Fairness ==
  /\ \A t \in {t1, t2} :
       /\ WF_slotVars(component = "slots" /\ Slot!Enter(t))
       /\ WF_slotVars(component = "slots" /\ Slot!Leave(t))
  /\ \A c \in {c1, c2} : WF_slotVars(component = "slots" /\ Slot!Waits(c))
  /\ \A what \in AllHolds : WF_statementVars(component = "statement" /\ Statement!DropHeld(what))
  /\ WF_busVars(component = "bus" /\ Bus!Subscribe("o"))
  /\ WF_busVars(component = "bus" /\ Bus!Consume("o"))
  /\ WF_busVars(component = "bus" /\ Bus!Publish(p1))
  /\ WF_busVars(component = "bus" /\ close # "open" /\ Bus!Close)
  /\ \A c \in {w1, w2} :
       /\ WF_orderVars(component = "order" /\ Order!Ends(c))
       /\ WF_orderVars(component = "order" /\ (Order!Learn(c) \/ Order!Cancel(c)))
       /\ WF_orderVars(component = "order" /\ Order!HooksOver(c))
       /\ WF_orderVars(component = "order" /\ Order!Drain(c))
  /\ WF_inboxVars(component = "inbox" /\ Inbox!Turn)
  /\ WF_inboxVars(component = "inbox" /\ Inbox!PushStop)
  /\ WF_inboxVars(component = "inbox" /\ Inbox!Waker(a))
  /\ WF_inboxVars(/\ component = "inbox"
                  /\ \/ Inbox!Admit(a) \/ Inbox!Push(a) \/ Inbox!Check(a)
                     \/ Inbox!SubmitterDrains(a))
  /\ \A c \in Inbox!Callers : WF_inboxVars(component = "inbox" /\ Inbox!Notify(c))
  /\ \A j \in {a, b} : WF_monitorVars(component = "endless" /\ Endlessly!Push(j))
  /\ WF_monitorVars(component = "slow" /\ Slowly!Push(a))
  /\ \A w \in 1..2 :
       /\ WF_monitorVars(component = "endless" /\ Endlessly!Turn(w))
       /\ WF_monitorVars(component = "slow" /\ Slowly!Turn(w))
       /\ WF_monitorVars(component = "endless" /\ Endlessly!PastLimit(w))
       /\ WF_monitorVars(component = "slow" /\ Slowly!PastLimit(w))
       /\ WF_monitorVars(component = "endless" /\ Endlessly!ScanRead(1, w))
       /\ WF_monitorVars(component = "slow" /\ Slowly!ScanRead(1, w))
  /\ WF_monitorVars(component = "endless" /\ Endlessly!Scan(1))
  /\ WF_monitorVars(component = "slow" /\ Slowly!Scan(1))
  /\ \A j \in {a, b} : WF_poolVars(component = "pool" /\ Pool!Spawn(j))
  /\ \A t \in {t1, t2} : WF_poolVars(component = "pool" /\ Pool!Serve(t))
  /\ WF_poolVars(component = "pool" /\ Pool!WakeAll)
  /\ \A c \in 1..2 : WF_windowVars(component = "windows" /\ Windows!Step(c))

MCSpec == MCInit /\ [][MCNext]_all /\ Fairness

-----------------------------------------------------------------------------
Waits(i) ==
  \/ component = "bus" /\ chan["o"] = "open" /\ Doc[i] \notin current["o"]
  \/ component = "order" /\ stage[Commit[i]] = "committed" /\ owner[Commit[i]] = "over"
  \/ component = "inbox" /\ caller[<<"submit", a>>] = "admitted"
  \/ component = "endless" /\ b \in Queued(i) /\ place[i] = "polling" /\ polled[i] = a
  \/ component = "slow" /\ stuck[i]
  \/ component = "pool" /\ spawn[Job[i]] # "new"
  \/ component = "windows" /\ at[i] # "idle"

Served(i) ==
  \/ component = "bus" /\ (Doc[i] \in current["o"] \/ chan["o"] = "shut")
  \/ component = "order" /\ Commit[i] \in Order!Sent
  \/ component = "inbox" /\ slot[a] # "EMPTY"
  \/ component = "endless" /\ left[b] = 0
  \/ component = "slow" /\ ~stuck[i]
  \/ component = "pool" /\ answer[Job[i]] # "none"
  \/ component = "windows" /\ at[i] \in {"returned", "dropped"}

\* Whoever waits is served.  An observer catches up with the documents it wants;
\* the events of a commit go out once it is durable and its owner is done; a job
\* admitted to an inbox is answered, by its task, by a worker that stops or by
\* the push that finds the worker gone; a job queued behind a poll that never
\* ends runs elsewhere; a worker marked stuck is used again; a blocking job is
\* answered; a call of the coalescer returns.
EveryoneIsServed == \A i \in 1..2 : Waits(i) ~> Served(i)

Stopping(i) ==
  \/ component = "slots" /\ closer[Closer[i]] = "begun"
  \/ component = "statement" /\ end = "leaving"
  \/ component = "bus" /\ sat["o"] = "subscribed" /\ (closed \/ "o" \notin map)
  \/ component = "inbox" /\ closing
  \/ component = "pool" /\ ending

Stopped(i) ==
  \/ component = "slots" /\ closer[Closer[i]] = "closed"
  \/ component = "statement" /\ end = "aborted"
  \/ component = "bus" /\ cat["o"] = "over"
  \/ component = "inbox" /\ worker.pc = "gone"
  \/ component = "pool" /\ \A t \in {t1, t2} : thread[t] = "gone"

\* What is told to stop stops.  A close ends once the transactions have; a
\* transaction whose owner has left is aborted when its last holder goes; a
\* receiver ends that was unsubscribed or whose bus is closed; no worker sleeps
\* through its stop message, and no blocking thread through the close.
EverythingStops == \A i \in 1..2 : Stopping(i) ~> Stopped(i)
=============================================================================
