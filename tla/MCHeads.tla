------------------------------- MODULE MCHeads -------------------------------
(***************************************************************************)
(* Heads in one model: the head set of a document and its publications     *)
(* (HeadPublish), the fold of its operands (HeadSet), the durable store of *)
(* heads whose DAGs are incomplete (PendingStore) and what the node does   *)
(* with them (PendingDags).  The parts share no state here, so a behaviour *)
(* is one of one part: `component` says of which.  Meanwhile the variables *)
(* of HeadPublish keep their initial values and those that another part    *)
(* does not have are Off.                                                  *)
(***************************************************************************)
EXTENDS HeadPublish, TLC

CONSTANTS r1, r2, r3, r4, l1, \* blocks
          n1, n2,             \* names
          p1, p2,             \* peers
          u, v,               \* interchangeable transactions and tasks
          Nil, Off

VARIABLES component,
  base, operands, writes, value, named,
  view, hooks,
  db, job, whole,
  disk, mem, push, merge, sweep, acked, faults

set == <<base, operands, writes, value, named>>
both == <<view, hooks>>
store2 == <<db, job, whole>>
dags == <<disk, mem, push, merge, sweep, acked, faults>>
all == <<vars, component, set, both, store2, dags>>

OffSet == base = Off /\ operands = Off /\ writes = Off /\ value = Off /\ named = Off
OffBoth == view = Off /\ hooks = Off
OffStore == db = Off /\ job = Off /\ whole = Off
OffDags ==
  /\ disk = Off /\ mem = Off /\ push = Off /\ merge = Off /\ sweep = Off /\ acked = Off
  /\ faults = Off

\* Two siblings, and a peer's block that joins one of them with our own.
MCParents == r1 :> {} @@ r2 :> {r1} @@ r3 :> {r1} @@ r4 :> {r2, l1}
\* The local block's name shares its part with r1's.
MCPart == r1 :> 1 @@ r2 :> 2 @@ r3 :> 3 @@ r4 :> 4 @@ l1 :> 1

-----------------------------------------------------------------------------
\* Two names with parts of their own.
NameParts == n1 :> 1 @@ n2 :> 2
Folding == INSTANCE HeadSet WITH
  Names <- {n1, n2}, Part <- NameParts, MaxWrites <- 4, MaxEntries <- 1
\* Writers of two entries each.
Batching == INSTANCE HeadSet WITH
  Names <- {n1, n2}, Part <- NameParts, MaxWrites <- 2, MaxEntries <- 2

Siblings == 1 :> {} @@ 2 :> {}
Chain == 1 :> {} @@ 2 :> {1}
ChainDag == 1 :> {1} @@ 2 :> {1, 2}
WithChild == 1 :> {} @@ 2 :> {} @@ 3 :> {2}
FirstShared == 1 :> {p1, p2} @@ 2 :> {p1}
OneOwner == 1 :> {p1} @@ 2 :> {p1} @@ 3 :> {p1}
NoLegacy == 1 :> Nil @@ 2 :> Nil
NoLegacy3 == 1 :> Nil @@ 2 :> Nil @@ 3 :> Nil
SecondOld == 1 :> Nil @@ 2 :> p1

\* Two siblings, one of which two peers announce.
Shares == INSTANCE PendingStore WITH
  Roots <- {1, 2}, Parents <- Siblings, Peers <- {p1, p2}, Announcers <- FirstShared,
  Rejected <- {}, Slots <- 2, PeerCap <- 1, Tickets <- {0}, Legacy <- NoLegacy,
  Workers <- {u, v}, MaxHooks <- 1
\* More heads of a peer than there are slots.
Capped == INSTANCE PendingStore WITH
  Roots <- {1, 2, 3}, Parents <- WithChild, Peers <- {p1}, Announcers <- OneOwner,
  Rejected <- {}, Slots <- 2, PeerCap <- 2, Tickets <- {0, 1}, Legacy <- NoLegacy3,
  Workers <- {u}, MaxHooks <- 1
\* The second sibling has a record of an earlier build, and is rejected.
Old == INSTANCE PendingStore WITH
  Roots <- {1, 2}, Parents <- Siblings, Peers <- {p1, p2}, Announcers <- FirstShared,
  Rejected <- {2}, Slots <- 2, PeerCap <- 1, Tickets <- {0}, Legacy <- SecondOld,
  Workers <- {u}, MaxHooks <- 1

\* A chain of two heads, with a crash.
Crashes == INSTANCE PendingDags WITH
  Heads <- {1, 2}, Parents <- Chain, Dag <- ChainDag, Rejected <- {}, Pulled <- {},
  Pushers <- {u}, MapCap <- 1, Quota <- 1, Share <- 2, MaxHooks <- 1, MaxPushes <- 2,
  MaxCrashes <- 1, MaxFailures <- 0, MaxYields <- 0
\* Two tasks push the chain.
Joins == INSTANCE PendingDags WITH
  Heads <- {1, 2}, Parents <- Chain, Dag <- ChainDag, Rejected <- {}, Pulled <- {},
  Pushers <- {u, v}, MapCap <- 1, Quota <- 1, Share <- 2, MaxHooks <- 1, MaxPushes <- 2,
  MaxCrashes <- 0, MaxFailures <- 0, MaxYields <- 0
\* The second is rejected, the first also pulled, and a peer may keep one record.
Rejects == INSTANCE PendingDags WITH
  Heads <- {1, 2}, Parents <- Chain, Dag <- ChainDag, Rejected <- {2}, Pulled <- {1},
  Pushers <- {u}, MapCap <- 1, Quota <- 1, Share <- 1, MaxHooks <- 1, MaxPushes <- 2,
  MaxCrashes <- 0, MaxFailures <- 0, MaxYields <- 1
\* A call fails as well.
Fails == INSTANCE PendingDags WITH
  Heads <- {1, 2}, Parents <- Chain, Dag <- ChainDag, Rejected <- {2}, Pulled <- {1},
  Pushers <- {u}, MapCap <- 1, Quota <- 1, Share <- 1, MaxHooks <- 1, MaxPushes <- 1,
  MaxCrashes <- 0, MaxFailures <- 1, MaxYields <- 1

-----------------------------------------------------------------------------
MCInit ==
  /\ Init
  /\ \/ component = "publish" /\ OffSet /\ OffBoth /\ OffStore /\ OffDags
     \/ component = "set" /\ Folding!Init /\ OffBoth /\ OffStore /\ OffDags
     \/ component = "batches" /\ Batching!Init /\ OffBoth /\ OffStore /\ OffDags
     \/ component = "shares" /\ Shares!Init /\ OffSet /\ OffDags
     \/ component = "capped" /\ Capped!Init /\ OffSet /\ OffDags
     \/ component = "old" /\ Old!Init /\ OffSet /\ OffDags
     \/ component = "crashes" /\ Crashes!Init /\ OffSet /\ OffStore
     \/ component = "joins" /\ Joins!Init /\ OffSet /\ OffStore
     \/ component = "rejects" /\ Rejects!Init /\ OffSet /\ OffStore
     \/ component = "fails" /\ Fails!Init /\ OffSet /\ OffStore

MCNext ==
  /\ UNCHANGED component
  /\ \/ component = "publish" /\ Next /\ UNCHANGED <<set, both, store2, dags>>
     \/ /\ UNCHANGED <<vars, both, store2, dags>>
        /\ \/ component = "set" /\ Folding!Next
           \/ component = "batches" /\ Batching!Next
     \/ /\ UNCHANGED <<vars, set, dags>>
        /\ \/ component = "shares" /\ Shares!Next
           \/ component = "capped" /\ Capped!Next
           \/ component = "old" /\ Old!Next
     \/ /\ UNCHANGED <<vars, set, store2>>
        /\ \/ component = "crashes" /\ Crashes!Next
           \/ component = "joins" /\ Joins!Next
           \/ component = "rejects" /\ Rejects!Next
           \/ component = "fails" /\ Fails!Next

MCSpec == MCInit /\ [][MCNext]_all

Alike == Permutations({u, v})
-----------------------------------------------------------------------------
\* However the engine groups a head set's operands, a read gives what the
\* writers' entries give one by one, and a part read is refused by exactly the
\* writes that name its part (partial_merge, full_merge, touches).
FoldExact ==
  /\ component = "set" => Folding!TypeOK /\ Folding!FoldExact /\ Folding!TouchesSurvive
  /\ component = "batches" => Batching!TypeOK /\ Batching!FoldExact /\ Batching!TouchesSurvive

\* A slot of the durable cap is held by the one root whose record names it; a
\* peer's share counts the records that hold a charge to it and never passes
\* its bound; and the view, once a sweep rebuilt it and every callback ran, holds
\* the durable roots (slots.rs, shares.rs, view.rs).
RegistrationsExact ==
  /\ component = "shares" => Shares!RegistrationsExact
  /\ component = "capped" => Capped!RegistrationsExact
  /\ component = "old" => Old!RegistrationsExact

\* A record goes only by its own removal or quarantine, or when a head that
\* links it is registered (register, store.rs).
RetiredByChild ==
  [][/\ component = "shares" => Shares!RetiredByChild
     /\ component = "capped" => Capped!RetiredByChild
     /\ component = "old" => Old!RetiredByChild]_all

=============================================================================
