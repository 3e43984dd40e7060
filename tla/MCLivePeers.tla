---------------------------- MODULE MCLivePeers ----------------------------
(***************************************************************************)
(* What must eventually happen between peers: the backlog of pushes        *)
(* (PushBacklog), the record of what a peer is owed (PushDelivery) and the *)
(* heads whose DAGs are incomplete (PendingDags).  Tasks compete here, for *)
(* a turn of a worker or a key's lock, and fairness is strong where one    *)
(* may be passed over.  The parts share no state, so a behaviour is one of *)
(* one part: `component` says of which, and the variables of the others    *)
(* keep their initial values.  Each part has its own fairness.             *)
(***************************************************************************)
EXTENDS Integers, Sequences, TLC

CONSTANTS p1, p2,  \* peers
          d1,      \* a document
          w1,      \* a worker
          Nil

VARIABLES component,
  queues, ready, newest, items, bytes, active, parked, cooling, spell, waiters, serving, wakeOn,
  phase, place, task, answered,
  heads, present, incarnation, marker, clock, confirmed, latest, queued, closed, pub, pubGen,
  reading, at, job, hint, taken, rat, gen, tried, left, inc, delivered, owed, budget,
  disk, mem, view, hooks, push, merge, sweep, acked, faults

backlogVars == <<queues, ready, newest, items, bytes, active, parked, cooling, spell, waiters,
                 serving, wakeOn, phase, place, task, answered>>
deliveryVars == <<heads, present, incarnation, marker, clock, confirmed, latest, queued, closed,
                  pub, pubGen, reading, at, job, hint, taken, rat, gen, tried, left, inc,
                  delivered, owed, budget>>
dagVars == <<disk, mem, view, hooks, push, merge, sweep, acked, faults>>
all == <<component, backlogVars, deliveryVars, dagVars>>

-----------------------------------------------------------------------------
Backlog == INSTANCE PushBacklog WITH
  Peers <- {p1, p2}, Docs <- {d1}, Workers <- {w1}, Versions <- {1}, Sizes <- 1 :> {1},
  ItemCapacity <- 4, ByteCapacity <- 4, ActiveCap <- 1, NoJob <- Nil,
  latest <- newest, at <- place, job <- task

\* Two sends may fail.
TwoFaults == [k \in {"fault", "again", "forget", "add", "crash", "close"} |->
                IF k = "fault" THEN 2 ELSE 0]
Delivery == INSTANCE PushDelivery WITH
  Heads <- {1}, Workers <- {w1}, OneAtATime <- TRUE, Budget <- TwoFaults,
  acked <- confirmed

\* One head, with a crash.
One == INSTANCE PendingDags WITH
  Heads <- {1}, Parents <- 1 :> {}, Dag <- 1 :> {1}, Rejected <- {}, Pulled <- {1},
  Pushers <- {w1}, MapCap <- 1, Quota <- 1, Share <- 2, MaxHooks <- 1, MaxPushes <- 2,
  MaxCrashes <- 1, MaxFailures <- 0, MaxYields <- 0
\* Two siblings, for which the map has one place.
Pair == INSTANCE PendingDags WITH
  Heads <- {1, 2}, Parents <- 1 :> {} @@ 2 :> {}, Dag <- 1 :> {1} @@ 2 :> {2},
  Rejected <- {}, Pulled <- {}, Pushers <- {w1}, MapCap <- 1, Quota <- 1, Share <- 2,
  MaxHooks <- 1, MaxPushes <- 2, MaxCrashes <- 0, MaxFailures <- 0, MaxYields <- 0

-----------------------------------------------------------------------------
MCInit ==
  /\ component \in {"backlog", "delivery", "one", "pair"}
  /\ Backlog!Init /\ Delivery!Init
  /\ IF component = "pair" THEN Pair!Init ELSE One!Init

MCNext ==
  /\ UNCHANGED component
  /\ \/ component = "backlog" /\ Backlog!Next /\ UNCHANGED <<deliveryVars, dagVars>>
     \/ component = "delivery" /\ Delivery!Next /\ UNCHANGED <<backlogVars, dagVars>>
     \/ /\ UNCHANGED <<backlogVars, deliveryVars>>
        /\ \/ component = "one" /\ One!Next
           \/ component = "pair" /\ Pair!Next

\* The variables of the part whose behaviour it is.
now == CASE component = "backlog" -> backlogVars
         [] component = "delivery" -> deliveryVars
         [] OTHER -> dagVars

\* Each part's tasks take their steps (see FairSpec of its module); the strongly
\* fair ones of different parts are one action, of which a behaviour has one.
Fairness ==
  /\ WF_backlogVars(component = "backlog" /\ Backlog!Owner)
  /\ \A p \in {p1, p2} : WF_backlogVars(component = "backlog" /\ Backlog!CooldownEnds(p))
  /\ WF_deliveryVars(component = "delivery" /\ Delivery!Sweep)
  /\ WF_deliveryVars(component = "delivery" /\ Delivery!Install)
  /\ WF_deliveryVars(component = "delivery" /\ Delivery!Elapse)
  /\ WF_dagVars(component = "one" /\ One!Dispatch)
  /\ WF_dagVars(component = "one" /\ One!SweepStep)
  /\ WF_dagVars(component = "one" /\ One!Expire(1))
  /\ WF_dagVars(component = "pair" /\ Pair!Dispatch)
  /\ WF_dagVars(component = "pair" /\ Pair!SweepStep)
  /\ \A r \in {1, 2} : WF_dagVars(component = "pair" /\ Pair!Expire(r))
  /\ SF_now(UNCHANGED component /\ \/ component = "backlog" /\ Backlog!Work(w1)
                                   \/ component = "delivery" /\ Delivery!Work(w1)
                                   \/ component = "one" /\ One!PushStep(w1)
                                   \/ component = "pair" /\ Pair!PushStep(w1))
  /\ SF_now(UNCHANGED component /\ \/ component = "delivery" /\ Delivery!Publication(1)
                                   \/ component = "one" /\ One!MergeStep
                                   \/ component = "pair" /\ Pair!MergeStep)
  /\ SF_now(UNCHANGED component /\ \/ component = "one" /\ One!Drive(1)
                                   \/ component = "pair" /\ Pair!Drive(1))
  /\ SF_dagVars(component = "pair" /\ Pair!Drive(2))

MCSpec == MCInit /\ [][MCNext]_all /\ Fairness

-----------------------------------------------------------------------------
Peer == <<p1, p2>>

Due(i) ==
  \/ component = "backlog" /\ phase = "open" /\ Backlog!Queued(Peer[i], d1) # 0
  \/ component = "delivery" /\ i \in owed /\ i \in heads
  \/ component \in {"one", "pair"} /\ i \in acked

Met(i) ==
  \/ component = "backlog" /\ (phase # "open" \/ Backlog!Queued(Peer[i], d1) = 0)
  \/ component = "delivery" /\ (i \in delivered \/ i \notin owed \cap heads \/ closed)
  \/ component \in {"one", "pair"} /\ i \in disk.applied

\* What is due to a peer or promised to it is done.  A queued push leaves the
\* queue, whatever keeps arriving for others ("a nonresponsive peer cannot starve
\* healthy peers"); a registered head that stays current reaches its peer once
\* sends stop failing; an acknowledged head is applied, whatever crashed in
\* between and although another head had its place in the map.
DueIsMet == \A i \in 1..2 : Due(i) ~> Met(i)

Kept(i) ==
  \/ component = "delivery" /\ marker # 0
  \/ component = "one" /\ 1 \in disk.marked /\ IF i = 1 THEN 1 \in disk.records
                                               ELSE 1 \in One!Entries

LetGo(i) ==
  \/ component = "delivery" /\ (marker = 0 \/ closed)
  \/ component = "one" /\ IF i = 1 THEN 1 \notin disk.records ELSE 1 \notin One!Entries

\* What is no longer needed goes: a peer's marker once the peer has everything,
\* and a merged head's durable record and its entry in the map, however the merge
\* raced its registration, a failed removal or a restart.
NothingIsKept == \A i \in 1..2 : Kept(i) ~> LetGo(i)
=============================================================================
