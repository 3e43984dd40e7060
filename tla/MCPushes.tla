------------------------------ MODULE MCPushes ------------------------------
(***************************************************************************)
(* What goes out to peers in one model: the windows that coalesce          *)
(* broadcasts (BroadcastCoalescer), the backlog of pushes (PushBacklog)    *)
(* and the durable record of what a peer is owed (PushDelivery).  The      *)
(* parts share no state here, so a behaviour is one of one part:           *)
(* `component` says of which.  Meanwhile the variables of the coalescer    *)
(* keep their initial values and those that another part does not have are *)
(* Off.                                                                    *)
(***************************************************************************)
EXTENDS BroadcastCoalescer, TLC

CONSTANTS first, second, third, opaque,  \* broadcasts
          p1, p2, p3,  \* peers
          d1, d2, d3,  \* documents
          u, v,        \* interchangeable workers
          Nil, Off

VARIABLES component,
  place, live, job,
  queues, ready, items, bytes, active, parked, cooling, spell, waiters, serving, wakeOn, phase,
  answered,
  heads, present, incarnation, marker, clock, acked, queued, closed, pub, pubGen, reading, hint,
  taken, rat, gen, tried, left, inc, delivered, owed, budget

either == <<place, live, job>>
backlog == <<queues, ready, items, bytes, active, parked, cooling, spell, waiters, serving,
             wakeOn, phase, answered>>
delivery == <<heads, present, incarnation, marker, clock, acked, queued, closed, pub, pubGen,
              reading, hint, taken, rat, gen, tried, left, inc, delivered, owed, budget>>
all == <<vars, component, either, backlog, delivery>>

OffBoth == place = Off /\ live = Off /\ job = Off
OffBacklog ==
  /\ queues = Off /\ ready = Off /\ items = Off /\ bytes = Off /\ active = Off /\ parked = Off
  /\ cooling = Off /\ spell = Off /\ waiters = Off /\ serving = Off /\ wakeOn = Off
  /\ phase = Off /\ answered = Off
OffDelivery ==
  /\ heads = Off /\ present = Off /\ incarnation = Off /\ marker = Off /\ clock = Off
  /\ acked = Off /\ queued = Off /\ closed = Off /\ pub = Off /\ pubGen = Off /\ reading = Off
  /\ hint = Off /\ taken = Off /\ rat = Off /\ gen = Off /\ tried = Off /\ left = Off
  /\ inc = Off /\ delivered = Off /\ owed = Off /\ budget = Off

\* Three updates that arrive in any order, and one that does not decode.
MCVersion == first :> 1 @@ second :> 2 @@ third :> 3 @@ opaque :> 1

-----------------------------------------------------------------------------
UnitSizes == 1 :> {1} @@ 2 :> {2}

\* Two peers, in a backlog that is soon full.
Full == INSTANCE PushBacklog WITH
  Peers <- {p1, p2}, Docs <- {d1}, Workers <- {u, v}, Versions <- {1}, Sizes <- 1 :> {1},
  ItemCapacity <- 1, ByteCapacity <- 1, ActiveCap <- 1, NoJob <- Nil,
  at <- place, latest <- live
\* A document whose later version may find the earlier one queued.
Newer == INSTANCE PushBacklog WITH
  Peers <- {p1, p2}, Docs <- {d1}, Workers <- {u}, Versions <- {1, 2}, Sizes <- UnitSizes,
  ItemCapacity <- 2, ByteCapacity <- 2, ActiveCap <- 1, NoJob <- Nil,
  at <- place, latest <- live
\* A peer whose answers two workers wait for.
Probed == INSTANCE PushBacklog WITH
  Peers <- {p1}, Docs <- {d1, d2}, Workers <- {u, v}, Versions <- {1},
  Sizes <- 1 :> {1}, ItemCapacity <- 8, ByteCapacity <- 2, ActiveCap <- 2, NoJob <- Nil,
  at <- place, latest <- live
\* More peers to remember than there is room for.
Parks == INSTANCE PushBacklog WITH
  Peers <- {p1, p2, p3}, Docs <- {d1}, Workers <- {u}, Versions <- {1},
  Sizes <- 1 :> {1}, ItemCapacity <- 1, ByteCapacity <- 2, ActiveCap <- 1, NoJob <- Nil,
  at <- place, latest <- live

-----------------------------------------------------------------------------
Events == {"fault", "again", "forget", "add", "crash", "close"}
Quiet == [k \in Events |-> 0]
Faults == [Quiet EXCEPT !["fault"] = 1, !["crash"] = 1]
Adds == [Quiet EXCEPT !["add"] = 1]
Removals == [Quiet EXCEPT !["fault"] = 1, !["forget"] = 1, !["add"] = 1]
Closes == [Quiet EXCEPT !["fault"] = 1, !["close"] = 1, !["again"] = 1]

\* A send fails, and the node restarts.
Faulty == INSTANCE PushDelivery WITH
  Heads <- {1, 2}, Workers <- {u, v}, OneAtATime <- TRUE, Budget <- Faults,
  at <- place, latest <- live
\* The peer is added while heads are on their way.
Installed == INSTANCE PushDelivery WITH
  Heads <- {1}, Workers <- {u, v}, OneAtATime <- TRUE, Budget <- Adds,
  at <- place, latest <- live
\* It is removed, and added once more.
Removed == INSTANCE PushDelivery WITH
  Heads <- {1}, Workers <- {u}, OneAtATime <- TRUE, Budget <- Removals,
  at <- place, latest <- live
\* The node shuts down.
Closing == INSTANCE PushDelivery WITH
  Heads <- {1}, Workers <- {u}, OneAtATime <- TRUE, Budget <- Closes,
  at <- place, latest <- live

-----------------------------------------------------------------------------
MCInit ==
  /\ Init
  /\ \/ component = "windows" /\ OffBoth /\ OffBacklog /\ OffDelivery
     \/ component = "full" /\ Full!Init /\ OffDelivery
     \/ component = "newer" /\ Newer!Init /\ OffDelivery
     \/ component = "probed" /\ Probed!Init /\ OffDelivery
     \/ component = "parks" /\ Parks!Init /\ OffDelivery
     \/ component = "faulty" /\ Faulty!Init /\ OffBacklog
     \/ component = "installed" /\ Installed!Init /\ OffBacklog
     \/ component = "removed" /\ Removed!Init /\ OffBacklog
     \/ component = "closing" /\ Closing!Init /\ OffBacklog

MCNext ==
  /\ UNCHANGED component
  /\ \/ component = "windows" /\ Next /\ UNCHANGED <<either, backlog, delivery>>
     \/ /\ UNCHANGED <<vars, delivery>>
        /\ \/ component = "full" /\ Full!Next
           \/ component = "newer" /\ Newer!Next
           \/ component = "probed" /\ Probed!Next
           \/ component = "parks" /\ Parks!Next
     \/ /\ UNCHANGED <<vars, backlog>>
        /\ \/ component = "faulty" /\ Faulty!Next
           \/ component = "installed" /\ Installed!Next
           \/ component = "removed" /\ Removed!Next
           \/ component = "closing" /\ Closing!Next

MCSpec == MCInit /\ [][MCNext]_all

Alike == Permutations({u, v})
-----------------------------------------------------------------------------
\* The backlog's totals are those of its queues, a started job counts until it is
\* done, and the ring holds each peer with a queue once; the caps hold; and no
\* worker is left parked beside a job it could have (Inner, serve_waiters).
BacklogExact ==
  /\ component = "full" => Full!BacklogExact
  /\ component = "newer" => Newer!BacklogExact
  /\ component = "probed" => Probed!BacklogExact
  /\ component = "parks" => Parks!BacklogExact

\* A start adds to what unreachable peers hold only below one peer's cap; and no
\* transport failure empties a queue unless its job was a probe and the peer has
\* not replied since that probe was started (take_ready, ProbeFailed).
UnreachableContained ==
  [][/\ component = "full" => Full!DeadPeersShare /\ Full!DemotedByProbe
     /\ component = "probed" => Probed!DemotedByProbe
     /\ component = "parks" => Parks!DeadPeersShare]_all

=============================================================================
