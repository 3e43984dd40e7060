----------------------------- MODULE PendingDags -----------------------------
(***************************************************************************)
(* A receiver's obligations for the heads it acknowledges:                 *)
(* src/crates/p2p/src/sync/manager/process (pushlog.rs, join.rs,           *)
(* pending_dag.rs, mod.rs) with the map of manager/pending.rs and the      *)
(* merge turns of sync/replication/handlers.rs.                            *)
(*                                                                         *)
(* A push stores a head's block, takes a place in the in-memory map if     *)
(* there is one, commits a durable record and is acknowledged.  The merge  *)
(* loop applies the head, forwards it to the replicators, marks it merged  *)
(* and discharges the obligation, or quarantines it.  A sweep gives        *)
(* durable roots without an entry a place.  The process may stop at any    *)
(* step and start again with what is on disk.                              *)
(*                                                                         *)
(* The store's transactions are single steps here (PendingStore has their  *)
(* inside); their callbacks reach the view later, in order.  All heads are *)
(* of one document and one peer.  A head is a number, links smaller ones   *)
(* and stands for its block.  Clocks and backoffs are left out: what is    *)
(* due may happen.  An entry's missing set is recomputed from the stored   *)
(* blocks whenever it is used.                                             *)
(***************************************************************************)
EXTENDS Naturals, Sequences, FiniteSets

CONSTANTS Heads,     \* the heads the peer announces
          Parents,   \* Parents[r]: the heads r links
          Dag,       \* Dag[r]: r and the heads it leads to
          Rejected,  \* the heads whose content the merge rejects
          Pulled,    \* the heads a pull merges without a push
          Pushers,   \* the tasks that process pushes
          MapCap,    \* max_pending_dags
          Quota,     \* max_pending_dags_per_peer
          Share,     \* max_persisted_pending_per_peer
          MaxHooks,  \* bound on the callbacks that have not run yet
          MaxPushes, MaxCrashes, MaxFailures, MaxYields,
          Nil

VARIABLES disk,   \* what is durable
          mem,    \* the map of pending DAGs and its scope's current head
          view,   \* PersistedView
          hooks,  \* callbacks of committed store transactions
          push,   \* push[w]: the push w processes
          merge,  \* the merge turn of the replication loop
          sweep,  \* the resync sweep
          acked,  \* the heads whose sender was told success
          faults  \* how many pushes, crashes, failures and yields there were

vars == <<disk, mem, view, hooks, push, merge, sweep, acked, faults>>

Idle   == [pc |-> "idle", head |-> Nil]
Entry(reg, local, stamp) == [reg |-> reg, local |-> local, again |-> local, stamp |-> stamp]

Init ==
    /\ disk = [have |-> {}, applied |-> {}, forwarded |-> {}, marked |-> {},
               records |-> {}, current |-> Nil, quarantine |-> {}]
    /\ mem = [roots |-> [r \in Heads |-> Nil], head |-> Nil]
    /\ view = [roots |-> {}, head |-> Nil]
    /\ hooks = <<>>
    /\ push = [w \in Pushers |-> Idle]
    /\ merge = Idle
    /\ sweep = [pc |-> "idle", head |-> Nil, todo |-> {}]
    /\ acked = {}
    /\ faults = [pushes |-> 0, crashes |-> 0, failures |-> 0, yields |-> 0]

Happens(fault, max) ==
    /\ faults[fault] < max
    /\ faults' = [faults EXCEPT ![fault] = @ + 1]

Fails == Happens("failures", MaxFailures)

-----------------------------------------------------------------------------
(* The durable store and its view *)

\* The head of a scope that r retires: the current one, when r links it.
Retires(r, current) == IF current # r /\ current \in Parents[r] THEN current ELSE Nil


\* r's record, in place of the head it retires.
Registered(d, r) ==
    LET old == Retires(r, d.current) IN
    [d EXCEPT !.records = (@ \ {old}) \cup {r},
              !.current = IF old # Nil \/ @ = Nil \/ r >= @ THEN r ELSE @]

\* A new record needs a place in the peer's share unless it takes one over.
StoreAdmits(d, r) ==
    r \in d.records \/ Retires(r, d.current) \in d.records \/ Cardinality(d.records) < Share

Removed(d, r) ==
    [d EXCEPT !.records = @ \ {r},
              !.current = IF @ = r /\ r \in d.records THEN Nil ELSE @]

Callback(h) == Len(hooks) < MaxHooks /\ hooks' = Append(hooks, h)

\* Deletes r's record, if there is one.
StoreRemove(r) ==
    \/ /\ r \in disk.records
       /\ disk' = Removed(disk, r)
       /\ Callback([kind |-> "removed", root |-> r, own |-> TRUE])
       /\ UNCHANGED faults
    \/ /\ r \notin disk.records
       /\ UNCHANGED <<disk, hooks, faults>>
    \/ /\ Fails
       /\ UNCHANGED <<disk, hooks>>

Largest(S) == IF S = {} THEN Nil ELSE CHOOSE r \in S : \A q \in S : q <= r

Shown(v, h) ==
    CASE h.kind = "registered" ->
           [roots |-> (v.roots \ {h.retired}) \cup {h.root},
            head  |-> IF v.head # Nil /\ v.head > h.root THEN v.head ELSE h.root]
      [] h.kind = "removed" ->
           [roots |-> v.roots \ {h.root},
            head  |-> IF h.own /\ v.head = h.root THEN Nil ELSE v.head]
      [] h.kind = "swept" ->
           [roots |-> h.records, head |-> Largest(h.records)]

\* The oldest callback runs.
Dispatch ==
    /\ hooks # <<>>
    /\ view' = Shown(view, Head(hooks))
    /\ hooks' = Tail(hooks)
    /\ UNCHANGED <<disk, mem, push, merge, sweep, acked, faults>>

-----------------------------------------------------------------------------
(* The map *)

Entries == {r \in Heads : mem.roots[r] # Nil}

\* Takes r's entry out; the scope's current head goes with it.
Without(m, r) ==
    IF m.roots[r] = Nil THEN m
    ELSE [roots |-> [m.roots EXCEPT ![r] = Nil], head |-> IF m.head = r THEN Nil ELSE m.head]

\* Puts an entry in; it is its scope's current head unless a newer one is.
With(m, r, e) ==
    LET rest == Without(m, r) IN
    [roots |-> [rest.roots EXCEPT ![r] = e],
     head  |-> IF e.local \/ (rest.head # Nil /\ r < rest.head) THEN rest.head ELSE r]

\* try_insert_pending_dag has a place for r.
MapAdmits(r) ==
    \/ Retires(r, mem.head) # Nil
    \/ r \in Entries
    \/ Cardinality(Entries) < Quota

Inserted(r, e) ==
    LET old == Retires(r, mem.head) IN
    With(IF old = Nil THEN mem ELSE Without(mem, old), r, e)

\* is_pending_dag_owned
Owned(r) ==
    \/ r \in view.roots
    \/ r \in Entries /\ mem.roots[r].reg /\ ~mem.roots[r].local

\* An entry that no success reply relies on expires.
Expire(r) ==
    /\ r \in Entries /\ ~mem.roots[r].reg
    /\ mem' = Without(mem, r)
    /\ UNCHANGED <<disk, view, hooks, push, merge, sweep, acked, faults>>

\* A root that was dispatched often gives its contended place up to a durable
\* root that has none.
Rotate(r) ==
    /\ r \in Entries \cap view.roots /\ mem.roots[r].reg
    /\ Cardinality(Entries) >= Quota
    /\ ~(view.roots \subseteq Entries)
    /\ mem' = Without(mem, r)
    /\ UNCHANGED <<disk, view, hooks, push, merge, sweep, acked, faults>>

\* A fetch for a registered root brings a block its DAG misses.
Fetch(r, b) ==
    /\ r \in Entries /\ mem.roots[r].reg
    /\ b \in Dag[r] \ disk.have
    /\ disk' = [disk EXCEPT !.have = @ \cup {b}]
    /\ UNCHANGED <<mem, view, hooks, push, merge, sweep, acked, faults>>

-----------------------------------------------------------------------------
(* A push *)

Goto(w, pc) == push' = [push EXCEPT ![w].pc = pc]
End(w)      == push' = [push EXCEPT ![w] = Idle]

Busy(r) == \E w \in Pushers : push[w].head = r /\ push[w].pc # "join"

\* The peer pushes a head; one processed already is joined.
Arrive(w, r) ==
    /\ push[w] = Idle
    /\ Happens("pushes", MaxPushes)
    /\ push' = [push EXCEPT ![w] = [pc |-> IF Busy(r) THEN "join" ELSE "look", head |-> r]]
    /\ UNCHANGED <<disk, mem, view, hooks, merge, sweep, acked>>

Ack(w) == End(w) /\ acked' = acked \cup {push[w].head}

\* A joined push ends well, takes the head over, or gives up at its deadline.
Join(w) ==
    LET r == push[w].head IN
    /\ push[w].pc = "join"
    /\ \/ (Owned(r) \/ r \in disk.marked) /\ Ack(w)
       \/ /\ ~Owned(r) /\ r \notin disk.marked /\ ~Busy(r)
          /\ Goto(w, "look")
          /\ UNCHANGED acked
       \/ Busy(r) /\ End(w) /\ UNCHANGED acked
    /\ UNCHANGED <<disk, mem, view, hooks, merge, sweep, faults>>

\* The scope whose current head is h admits r in that head's place.
Refreshes(h, r) == h # Nil /\ (h = r \/ h \in Parents[r])

ShareAdmits(r) == Refreshes(view.head, r) \/ Cardinality(view.roots) < Share

\* A head at capacity is shed before its block is looked at.
Shed(r) ==
    /\ ~(\/ Cardinality(Entries) < MapCap
         \/ r \in Entries
         \/ \E q \in Entries : r \in Dag[q] \ disk.have)
    /\ r \notin view.roots
    /\ ~Refreshes(view.head, r) /\ ~Refreshes(mem.head, r)
    /\ ~ShareAdmits(r)

\* Merged already, shed, or stored.
Look(w) ==
    LET r == push[w].head IN
    /\ push[w].pc = "look"
    /\ IF r \in disk.marked THEN Goto(w, "answer") /\ UNCHANGED disk
       ELSE IF Shed(r) THEN End(w) /\ UNCHANGED disk
       ELSE /\ disk' = [disk EXCEPT !.have = @ \cup {r}]
            /\ Goto(w, "check")
    /\ UNCHANGED <<mem, view, hooks, merge, sweep, acked, faults>>

\* Merged meanwhile?
Check(w) ==
    /\ push[w].pc = "check"
    /\ Goto(w, IF push[w].head \in disk.marked THEN "clear" ELSE "insert")
    /\ UNCHANGED <<disk, mem, view, hooks, merge, sweep, acked, faults>>

\* An entry other than a local continuation covers r.
Covers(r) == r \in Entries /\ ~mem.roots[r].local

\* Covered already, past the peer's share, or given a place in the map if
\* there is one.
Insert(w) ==
    LET r == push[w].head IN
    /\ push[w].pc = "insert"
    /\ \/ /\ r \in view.roots \/ Covers(r)
          /\ Goto(w, "answer")
          /\ UNCHANGED mem
       \/ /\ Covers(r)
          /\ Goto(w, "extend")
          /\ UNCHANGED mem
       \/ /\ r \notin view.roots /\ ~Covers(r)
          /\ ~ShareAdmits(r)
          /\ End(w)
          /\ UNCHANGED mem
       \/ /\ r \notin view.roots /\ ~Covers(r)
          /\ ShareAdmits(r)
          /\ mem' = IF MapAdmits(r) THEN Inserted(r, Entry(FALSE, FALSE, w)) ELSE mem
          /\ push' = [push EXCEPT ![w] =
                        [pc |-> "register", head |-> r, resident |-> MapAdmits(r),
                         old |-> LET old == Retires(r, mem.head) IN
                                 IF old = Nil THEN Nil
                                 ELSE [root |-> old, entry |-> mem.roots[old]]]]
    /\ UNCHANGED <<disk, view, hooks, merge, sweep, acked, faults>>

\* The record commits before the reply, or the push is undone.
Register(w) ==
    LET r == push[w].head IN
    /\ push[w].pc = "register"
    /\ \/ /\ StoreAdmits(disk, r)
          /\ disk' = Registered(disk, r)
          /\ Callback([kind |-> "registered", root |-> r, retired |-> Retires(r, disk.current)])
          /\ Goto(w, "recheck")
          /\ UNCHANGED faults
       \/ /\ ~StoreAdmits(disk, r)
          /\ Goto(w, "undo")
          /\ UNCHANGED <<disk, hooks, faults>>
       \/ /\ Fails
          /\ Goto(w, "undo")
          /\ UNCHANGED <<disk, hooks>>
    /\ UNCHANGED <<mem, view, merge, sweep, acked>>

\* A push that brings an entry a provider or an authorization writes its
\* record again.
Extend(w) ==
    LET r == push[w].head IN
    /\ push[w].pc = "extend"
    /\ \/ /\ r \in disk.records \/ Cardinality(disk.records) < Share
          /\ disk' = [disk EXCEPT !.records = @ \cup {r},
                                  !.current = IF @ = Nil \/ r >= @ THEN r ELSE @]
          /\ Callback([kind |-> "registered", root |-> r, retired |-> Nil])
          /\ Goto(w, "answer")
          /\ UNCHANGED faults
       \/ /\ r \notin disk.records /\ Cardinality(disk.records) >= Share
          /\ End(w)
          /\ UNCHANGED <<disk, hooks, faults>>
       \/ /\ Fails
          /\ End(w)
          /\ UNCHANGED <<disk, hooks>>
    /\ UNCHANGED <<mem, view, merge, sweep, acked>>

\* Takes back the place, if it is still this push's, and gives the head it
\* retired its place again, if that one has a record and no entry.
Undo(w) ==
    LET r    == push[w].head
        old  == push[w].old
        mine == r \in Entries /\ mem.roots[r].stamp = w
        left == IF mine THEN Without(mem, r) ELSE mem
    IN
    /\ push[w].pc = "undo"
    /\ mem' = IF push[w].resident /\ old # Nil
                 /\ left.roots[old.root] = Nil /\ old.root \in view.roots
              THEN With(left, old.root, old.entry)
              ELSE IF push[w].resident THEN left ELSE mem
    /\ End(w)
    /\ UNCHANGED <<disk, view, hooks, merge, sweep, acked, faults>>

\* Merged before the record committed?  Otherwise the entry is registered.
Recheck(w) ==
    LET r == push[w].head IN
    /\ push[w].pc = "recheck"
    /\ \/ r \in disk.marked /\ Goto(w, "clear") /\ UNCHANGED mem
       \/ /\ r \notin disk.marked
          /\ Goto(w, IF push[w].resident THEN "answer" ELSE "durable")
          /\ mem' = IF push[w].resident /\ r \in Entries /\ mem.roots[r].stamp = w
                    THEN [mem EXCEPT !.roots[r].reg = TRUE, !.roots[r].stamp = Nil]
                    ELSE mem
    /\ UNCHANGED <<disk, view, hooks, merge, sweep, acked, faults>>

\* discharge_merged for a push.
PushClear(w) ==
    LET r == push[w].head IN
    /\ push[w].pc = "clear"
    /\ mem' = Without(mem, r)
    /\ Goto(w, IF r \in Entries \cup view.roots THEN "remove" ELSE "answer")
    /\ UNCHANGED <<disk, view, hooks, merge, sweep, acked, faults>>

PushRemove(w) ==
    /\ push[w].pc = "remove"
    /\ StoreRemove(push[w].head)
    /\ Goto(w, "answer")
    /\ UNCHANGED <<mem, view, merge, sweep, acked>>

\* Success only for a head that is registered or merged.
Answer(w) ==
    LET r == push[w].head IN
    /\ \/ push[w].pc = "durable" /\ Ack(w)
       \/ /\ push[w].pc = "answer"
          /\ IF Owned(r) \/ r \in disk.marked THEN Ack(w) ELSE End(w) /\ UNCHANGED acked
    /\ UNCHANGED <<disk, mem, view, hooks, merge, sweep, faults>>

-----------------------------------------------------------------------------
(* A merge turn *)

Turn(pc) == merge' = [merge EXCEPT !.pc = pc]

\* The turn ends, and with it a local continuation it did not continue.
EndTurn(m) ==
    LET e == m.roots[merge.head] IN
    /\ merge' = Idle
    /\ mem' = IF merge.local /\ e # Nil /\ e.local /\ ~e.again
              THEN Without(m, merge.head) ELSE m

\* A turn starts for r and consumes its continuation.
StartTurn(r) ==
    /\ merge = Idle
    /\ merge' = [pc |-> IF r \in disk.marked THEN "clear" ELSE "apply", head |-> r,
                 local |-> r \in Entries /\ mem.roots[r].local]
    /\ mem' = IF r \in Entries THEN [mem EXCEPT !.roots[r].again = FALSE] ELSE mem

\* The receiver clock dispatches a registered root whose DAG is complete.
Drive(r) ==
    /\ r \in Entries /\ mem.roots[r].reg /\ Dag[r] \subseteq disk.have
    /\ StartTurn(r)
    /\ UNCHANGED <<disk, view, hooks, push, sweep, acked, faults>>

\* A pull brought r's whole DAG, or the loop had an event of r queued.
Pull(r) ==
    /\ r \in Pulled \ disk.marked
    /\ StartTurn(r)
    /\ disk' = [disk EXCEPT !.have = @ \cup Dag[r]]
    /\ UNCHANGED <<view, hooks, push, sweep, acked, faults>>

\* The handler merges the root with what it leads to, rejects it, or fails.
Apply ==
    LET r == merge.head IN
    /\ merge.pc = "apply"
    /\ \/ /\ Dag[r] \cap Rejected = {}
          /\ disk' = [disk EXCEPT !.applied = @ \cup Dag[r]]
          /\ Turn("forward")
          /\ UNCHANGED <<mem, faults>>
       \/ /\ Dag[r] \cap Rejected # {}
          /\ Turn("quarantine")
          /\ UNCHANGED <<disk, mem, faults>>
       \/ Fails /\ EndTurn(mem) /\ UNCHANGED disk
    /\ UNCHANGED <<view, hooks, push, sweep, acked>>

\* The handler's budget is spent: the root is continued, by a local entry if it
\* has none and there is room.
Yield ==
    LET r == merge.head IN
    /\ merge.pc = "apply"
    /\ Happens("yields", MaxYields)
    /\ EndTurn(IF r \in Entries
               THEN [mem EXCEPT !.roots[r].again = TRUE, !.roots[r].stamp = Nil]
               ELSE IF Cardinality(Entries) < Quota THEN With(mem, r, Entry(TRUE, TRUE, Nil))
               ELSE mem)
    /\ UNCHANGED <<disk, view, hooks, push, sweep, acked>>

\* The replicators' markers are durable before the root is marked.
Forward ==
    /\ merge.pc = "forward"
    /\ \/ /\ disk' = [disk EXCEPT !.forwarded = @ \cup {merge.head}]
          /\ Turn("mark")
          /\ UNCHANGED <<mem, faults>>
       \/ Fails /\ EndTurn(mem) /\ UNCHANGED disk
    /\ UNCHANGED <<view, hooks, push, sweep, acked>>

Mark ==
    /\ merge.pc = "mark"
    /\ \/ /\ disk' = [disk EXCEPT !.marked = @ \cup {merge.head}]
          /\ Turn("clear")
          /\ UNCHANGED <<mem, faults>>
       \/ Fails /\ EndTurn(mem) /\ UNCHANGED disk
    /\ UNCHANGED <<view, hooks, push, sweep, acked>>

\* discharge_merged: the entry goes, then the record.
Clear ==
    LET r == merge.head IN
    /\ merge.pc = "clear"
    /\ IF r \in Entries \cup view.roots
       THEN Turn("remove") /\ mem' = Without(mem, r)
       ELSE EndTurn(mem)
    /\ UNCHANGED <<disk, view, hooks, push, sweep, acked, faults>>

Remove ==
    /\ merge.pc = "remove"
    /\ StoreRemove(merge.head)
    /\ EndTurn(mem)
    /\ UNCHANGED <<view, push, sweep, acked>>

\* The record moves to the quarantine, then the entry goes.
Quarantine ==
    LET r == merge.head IN
    /\ merge.pc = "quarantine"
    /\ \/ /\ disk' = [Removed(disk, r) EXCEPT !.quarantine = @ \cup {r}]
          /\ Callback([kind |-> "removed", root |-> r, own |-> r \in disk.records])
          /\ Turn("drop")
          /\ UNCHANGED <<mem, faults>>
       \/ Fails /\ EndTurn(mem) /\ UNCHANGED <<disk, hooks>>
    /\ UNCHANGED <<view, push, sweep, acked>>

DropEntry ==
    /\ merge.pc = "drop"
    /\ EndTurn(Without(mem, merge.head))
    /\ UNCHANGED <<disk, view, hooks, push, sweep, acked, faults>>

-----------------------------------------------------------------------------
(* The resync sweep *)

\* A sweep reads the records, and rebuilds the view unless it fails to commit.
StartSweep ==
    /\ sweep.pc = "idle"
    /\ sweep' = [pc |-> "walk", head |-> Nil, todo |-> disk.records]
    /\ \/ /\ Callback([kind |-> "swept", records |-> disk.records])
          /\ UNCHANGED faults
       \/ Fails /\ UNCHANGED hooks
    /\ UNCHANGED <<disk, mem, view, push, merge, acked>>

EndSweep ==
    /\ sweep.pc = "walk" /\ sweep.todo = {}
    /\ sweep' = [sweep EXCEPT !.pc = "idle"]
    /\ UNCHANGED <<disk, mem, view, hooks, push, merge, acked, faults>>

\* What becomes of a record: live, a leftover of a merged or quarantined root,
\* without a place, or given an entry.
Visit(r) ==
    /\ sweep.pc = "walk" /\ r \in sweep.todo
    /\ LET rest == [sweep EXCEPT !.todo = @ \ {r}] IN
       sweep' = IF r \in Entries THEN rest
                ELSE IF r \in disk.marked \cup disk.quarantine
                     THEN [rest EXCEPT !.pc = "remove", !.head = r]
                ELSE IF Cardinality(Entries) < Quota \/ Refreshes(mem.head, r)
                     THEN [rest EXCEPT !.pc = "restore", !.head = r]
                ELSE rest
    /\ UNCHANGED <<disk, mem, view, hooks, push, merge, acked, faults>>

\* The entry comes back; the record of a head it takes over from goes.
Restore ==
    LET r == sweep.head  old == Retires(r, mem.head) IN
    /\ sweep.pc = "restore"
    /\ IF MapAdmits(r)
       THEN /\ mem' = Inserted(r, Entry(TRUE, FALSE, Nil))
            /\ sweep' = [sweep EXCEPT !.pc = IF old = Nil THEN "walk" ELSE "remove", !.head = old]
       ELSE /\ sweep' = [sweep EXCEPT !.pc = "walk", !.head = Nil]
            /\ UNCHANGED mem
    /\ UNCHANGED <<disk, view, hooks, push, merge, acked, faults>>

SweepRemove ==
    /\ sweep.pc = "remove"
    /\ StoreRemove(sweep.head)
    /\ sweep' = [sweep EXCEPT !.pc = "walk", !.head = Nil]
    /\ UNCHANGED <<mem, view, push, merge, acked>>

-----------------------------------------------------------------------------
\* The process stops and starts again; installing the store sweeps it, or fails.
Crash ==
    /\ Happens("crashes", MaxCrashes)
    /\ mem' = [roots |-> [r \in Heads |-> Nil], head |-> Nil]
    /\ view' \in {[roots |-> disk.records, head |-> Largest(disk.records)],
                 [roots |-> {}, head |-> Nil]}
    /\ hooks' = <<>>
    /\ push' = [w \in Pushers |-> Idle]
    /\ merge' = Idle
    /\ sweep' = [pc |-> "idle", head |-> Nil, todo |-> {}]
    /\ UNCHANGED <<disk, acked>>

PushStep(w) ==
    \/ Join(w) \/ Look(w) \/ Check(w) \/ Insert(w) \/ Register(w) \/ Extend(w)
    \/ Undo(w) \/ Recheck(w) \/ PushClear(w) \/ PushRemove(w) \/ Answer(w)

MergeStep ==
    \/ Apply \/ Yield \/ Forward \/ Mark \/ Clear \/ Remove \/ Quarantine \/ DropEntry

SweepStep ==
    StartSweep \/ EndSweep \/ (\E r \in Heads : Visit(r)) \/ Restore \/ SweepRemove

Next ==
    \/ Dispatch
    \/ \E w \in Pushers : PushStep(w) \/ \E r \in Heads : Arrive(w, r)
    \/ \E r \in Heads :
         Expire(r) \/ Rotate(r) \/ Drive(r) \/ Pull(r) \/ \E b \in Dag[r] : Fetch(r, b)
    \/ MergeStep
    \/ SweepStep
    \/ Crash

Spec == Init /\ [][Next]_vars

\* Tasks run, callbacks are dispatched, a registered root's blocks arrive and
\* its turn comes, entries past their time expire and the sweep is periodic.
\* Nobody has to push, pull or stop.
Fairness ==
    /\ WF_vars(Dispatch)
    /\ \A w \in Pushers : SF_vars(PushStep(w))
    /\ SF_vars(MergeStep)
    /\ WF_vars(SweepStep)
    /\ \A r \in Heads :
          /\ SF_vars(Drive(r))
          /\ WF_vars(Expire(r))
          /\ \A b \in Dag[r] \ {r} : SF_vars(Fetch(r, b))

FairSpec == Spec /\ Fairness

-----------------------------------------------------------------------------
(* Properties *)

\* Every variable has its type, and the current head of the map's scope has an
\* entry.
TypeOK ==
    /\ disk \in [have : SUBSET Heads, applied : SUBSET Heads, forwarded : SUBSET Heads,
                 marked : SUBSET Heads, records : SUBSET Heads,
                 current : Heads \cup {Nil}, quarantine : SUBSET Heads]
    /\ mem.head \in Heads \cup {Nil}
    /\ mem.head # Nil => mem.head \in Entries
    /\ view \in [roots : SUBSET Heads, head : Heads \cup {Nil}]
    /\ Len(hooks) <= MaxHooks
    /\ acked \subseteq Heads

\* The ack contract (assert_pushlog_left_durable_state): what was acknowledged
\* is applied, or a durable record or quarantine record leads to it, whatever
\* crashed, failed, expired or was superseded since.
AckedIsOwned ==
    \A r \in acked : \E d \in disk.applied \cup disk.records \cup disk.quarantine : r \in Dag[d]

\* forward_merged: a root is marked merged, which discharges it, only after its
\* forward to the replicators is durable.
ForwardedFirst == disk.marked \subseteq disk.forwarded \cap disk.applied

=============================================================================
