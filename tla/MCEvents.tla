------------------------------ MODULE MCEvents ------------------------------
(***************************************************************************)
(* The event bus (EventBus) and the order in which the events of commits   *)
(* reach it (EventOrder) in one model.  A behaviour is one of one part:    *)
(* `component` says of which, and in the bus who takes part.  Otherwise    *)
(* the variables of EventBus keep their initial values and those of        *)
(* EventOrder are Off.                                                     *)
(***************************************************************************)
EXTENDS EventBus

CONSTANTS d1, d2,    \* documents
          raw,       \* the raw subscriber
          observer,  \* the observer
          second,    \* an observer that may not subscribe
          idle,      \* a publisher that may have nothing to do
          w1, w2, r, \* commits
          Off

VARIABLES component,
  life, work, free, slots, holding, ready, completed, arrivals, seq, engine, receipt, owner,
  drain, out, earlier

order == <<life, work, free, slots, holding, ready, completed, arrivals, seq, engine, receipt,
           owner, drain, out, earlier>>
all == <<vars, component, order>>

\* Raw subscribers ask for everything, observers for documents.
Everything == [s \in Subs |-> IF s \in Raw THEN Messages ELSE Docs]
Announced == {<<d1>>, <<d2, d1>>, <<Other>>}

\* Two commits that write, one of them with hooks.
Writes == INSTANCE EventOrder WITH
  Commits <- {w1, w2}, Writers <- {w1, w2}, Hooked <- {w1}, Unwinding <- {},
  EarlyCancel <- FALSE
\* One that writes and one that does not; owners may be cancelled or unwind.
Cancels == INSTANCE EventOrder WITH
  Commits <- {w1, r}, Writers <- {w1}, Hooked <- {w1}, Unwinding <- {r},
  EarlyCancel <- TRUE

-----------------------------------------------------------------------------
Bus == {"observing", "receiving", "closing", "observers"}

OffOrder ==
  /\ life = Off /\ work = Off /\ free = Off /\ slots = Off /\ holding = Off /\ ready = Off
  /\ completed = Off /\ arrivals = Off /\ seq = Off /\ engine = Off /\ receipt = Off
  /\ owner = Off /\ drain = Off /\ out = Off /\ earlier = Off

MCInit ==
  /\ Init
  /\ \/ component \in Bus /\ OffOrder
     \/ component = "writes" /\ Writes!Init
     \/ component = "cancels" /\ Cancels!Init

\* Two publishers and one subscriber, or one publisher and two subscribers.
BusNext ==
  /\ Next
  /\ component \in {"observing", "observers"} => sat'[raw] = "new"
  /\ component = "receiving" => sat'[observer] = "new"
  /\ component = "closing" => pat'[idle] = "idle" /\ commits' < MaxCommits
  /\ component = "observers" => pat'[idle] = "idle" /\ commits' < MaxCommits - 1
  /\ component # "observers" => sat'[second] = "new"

MCNext ==
  /\ UNCHANGED component
  /\ \/ component \in Bus /\ BusNext /\ UNCHANGED order
     \/ component = "writes" /\ Writes!Next /\ UNCHANGED vars
     \/ component = "cancels" /\ Cancels!Next /\ UNCHANGED vars

MCSpec == MCInit /\ [][MCNext]_all

-----------------------------------------------------------------------------
\* Events go out in the order of the commits' receipts, once per commit, and only
\* of commits that are durable and whose hooks are over; a commit bound after
\* another's owner was done does not overtake its events; and with every commit
\* bound so far over and nobody draining, nothing is left behind (Drainer,
\* EventOrder::drain).
EventsInOrder ==
  /\ component = "writes" => /\ Writes!TypeOK /\ Writes!InReceiptOrder
                             /\ Writes!NoneOvertakes /\ Writes!NothingWaits
  /\ component = "cancels" => /\ Cancels!TypeOK /\ Cancels!InReceiptOrder
                              /\ Cancels!NoneOvertakes
=============================================================================
