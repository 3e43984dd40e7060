---------------------------- MODULE PendingStore ----------------------------
(***************************************************************************)
(* The durable pending-DAG registrations of                                *)
(* src/crates/p2p/src/sync/pending_store: the transactions of store.rs     *)
(* with the slots of slots.rs and the shares of shares.rs, and the view    *)
(* of view.rs, which the transactions' commit callbacks keep.              *)
(*                                                                         *)
(* The store is a map from keys to values.  A transition reads a snapshot, *)
(* computes its writes, and commits if no key it read has a new value; the *)
(* engine re-runs it otherwise.  Its callback joins `hooks` when it        *)
(* commits and runs later, in that order.                                  *)
(*                                                                         *)
(* All heads are of one document, so a sender scope is a peer; a head is a *)
(* number that stands for its version, and links smaller ones.  A ticket   *)
(* is a number below Slots, the remainder a probe starts from.  The record *)
(* of a root in Legacy was written before slots and shares existed.        *)
(***************************************************************************)
EXTENDS Naturals, Sequences, FiniteSets, TLC

CONSTANTS Roots,     \* the heads that may be registered
          Parents,   \* Parents[r]: the heads r links
          Peers,     \* the announcing peers
          Announcers,\* Announcers[r]: the peers that may announce r
          Rejected,  \* the heads whose merge is rejected, and quarantined
          Slots,     \* Registration.capacity
          PeerCap,   \* Registration.peer_capacity
          Tickets,   \* where a probe for a free slot may start
          Legacy,    \* Legacy[r]: the peer of r's old record, or Nil
          Workers,   \* the tasks that run transitions
          MaxHooks,  \* bound on the callbacks that have not run yet
          Nil

VARIABLES db,     \* the store
          job,    \* job[w]: the transition w runs, with what it read and writes
          hooks,  \* callbacks of committed transitions, in receipt order
          view,   \* PersistedView
          whole   \* the view was rebuilt by a sweep since the node started

vars == <<db, job, hooks, view, whole>>

Record(r)     == <<"record", r>>
Charge(r)     == <<"charge", r>>
Quarantine(r) == <<"quarantine", r>>
Slot(i)       == <<"slot", i>>
Count(p)      == <<"count", p>>
Current(p)    == <<"head", p>>

Keys == {Record(r) : r \in Roots} \cup {Charge(r) : r \in Roots}
        \cup {Quarantine(r) : r \in Rejected} \cup {Slot(i) : i \in 0..(Slots - 1)}
        \cup {Count(p) : p \in Peers} \cup {Current(p) : p \in Peers}

\* The writes f if c holds, and none otherwise.
When(c, f) == IF c THEN f ELSE <<>>

Recorded(s) == {r \in Roots : s[Record(r)] # Nil}

-----------------------------------------------------------------------------
(* Transactions: what a transition reads of the snapshot s, and writes *)

\* Gives r's charge, if it holds one, back to the count it is in.
GiveBack(s, r) ==
    LET p == s[Charge(r)] IN
    IF p = Nil
    THEN [reads |-> {Charge(r)}, writes |-> <<>>]
    ELSE [reads |-> {Charge(r), Count(p)},
          writes |-> (Charge(r) :> Nil)
                     @@ (Count(p) :> IF s[Count(p)] = 0 THEN 0 ELSE s[Count(p)] - 1)]

\* Deletes r's record, its scope's head when that is r and, with release, its
\* slot and its charge.
Discharge(s, r, release) ==
    LET own  == s[Record(r)]
        back == GiveBack(s, r)
    IN
    IF own = Nil
    THEN [reads |-> {Record(r)}, writes |-> <<>>]
    ELSE [reads |-> {Record(r), Current(own.source)} \cup (IF release THEN back.reads ELSE {}),
          writes |-> (Record(r) :> Nil)
                     @@ When(release /\ own.slot # Nil, Slot(own.slot) :> Nil)
                     @@ When(release, back.writes)
                     @@ When(s[Current(own.source)] = r, Current(own.source) :> Nil)]

\* The slots in the order a probe from the ticket looks at them.
Probe(ticket, i) == (ticket + i) % Slots

\* As if the probe read the slots outside the transaction.
ClaimUnread(s, r, ticket) ==
    LET free == {i \in 0..(Slots - 1) : s[Slot(Probe(ticket, i))] = Nil}
        at   == CHOOSE i \in free : \A j \in free : i <= j
    IN  IF free = {} THEN [reads |-> {}, slot |-> Nil]
        ELSE [reads |-> {}, slot |-> Probe(ticket, at)]

\* The first free slot from the ticket on, or Nil when all are held.
Claim(s, r, ticket) ==
    LET free == {i \in 0..(Slots - 1) : s[Slot(Probe(ticket, i))] = Nil}
        at   == CHOOSE i \in free : \A j \in free : i <= j
    IN  IF free = {}
        THEN [reads |-> {Slot(i) : i \in 0..(Slots - 1)}, slot |-> Nil]
        ELSE [reads |-> {Slot(Probe(ticket, i)) : i \in 0..at}, slot |-> Probe(ticket, at)]

\* A free slot and a charge to p for r, unless p holds its share or no slot is
\* free.
TakeNew(s, r, p, ticket) ==
    LET claim == Claim(s, r, ticket) IN
    IF s[Count(p)] >= PeerCap
    THEN [reads |-> {Count(p)}, writes |-> <<>>, slot |-> Nil]
    ELSE [reads |-> {Count(p)} \cup claim.reads, slot |-> claim.slot,
          writes |-> When(claim.slot # Nil,
                          (Slot(claim.slot) :> r) @@ (Charge(r) :> p)
                          @@ (Count(p) :> s[Count(p)] + 1))]

\* As if an older head of the scope were retired whether it is linked or not.
SupersededOlder(r, parents, current) ==
    IF current # Nil /\ current < r THEN current ELSE Nil

\* The scope's current head, when the head links it.
Superseded(r, parents, current) ==
    IF current # r /\ current \in parents THEN current ELSE Nil

\* Registers r, announced by p: retires the scope's head if r links it, and
\* takes over its slot and charge, or takes new ones.
Register(s, r, p, parents, ticket) ==
    LET current == s[Current(p)]
        retired == Superseded(r, parents, current)
        own     == s[Record(r)]
        older   == IF retired = Nil THEN [reads |-> {}, writes |-> <<>>]
                   ELSE Discharge(s, retired, own # Nil)
        takes   == own = Nil /\ older.writes # <<>>
        new     == IF own # Nil \/ takes THEN [reads |-> {}, writes |-> <<>>, slot |-> Nil]
                   ELSE TakeNew(s, r, p, ticket)
        slot    == IF own # Nil THEN own.slot
                   ELSE IF takes THEN s[Record(retired)].slot ELSE new.slot
        reads   == {Current(p), Record(r)} \cup older.reads \cup new.reads
                   \cup IF takes THEN {Charge(retired)} ELSE {}
    IN
    IF own = Nil /\ ~takes /\ slot = Nil
    THEN [reads |-> reads, writes |-> <<>>, hook |-> Nil]
    ELSE [reads |-> reads,
          writes |-> (Record(r) :> [source |-> p, slot |-> slot])
                     @@ When(retired # Nil \/ current = Nil \/ r >= current, Current(p) :> r)
                     @@ When(takes /\ slot # Nil, Slot(slot) :> r)
                     @@ When(takes /\ s[Charge(retired)] # Nil,
                             (Charge(retired) :> Nil) @@ (Charge(r) :> s[Charge(retired)]))
                     @@ new.writes @@ older.writes,
          hook |-> [kind |-> "registered", root |-> r, source |-> p, retired |-> retired]]

Removed(r, own) ==
    [kind |-> "removed", root |-> r, source |-> IF own = Nil THEN Nil ELSE own.source]

\* Deletes r's record, if it has one.
Remove(s, r) ==
    Discharge(s, r, TRUE)
    @@ [hook |-> IF s[Record(r)] = Nil THEN Nil ELSE Removed(r, s[Record(r)])]

\* Moves r to the quarantine.
Quarantines(s, r) ==
    LET gone == Discharge(s, r, TRUE) IN
    [reads  |-> {Quarantine(r)} \cup gone.reads,
     writes |-> (Quarantine(r) :> TRUE) @@ gone.writes,
     hook   |-> Removed(r, s[Record(r)])]

Sources(s) == [r \in Recorded(s) |-> s[Record(r)].source]

\* Reads every record.
Sweep(s) ==
    [reads  |-> {Record(r) : r \in Roots},
     writes |-> <<>>,
     hook   |-> [kind |-> "swept", records |-> Sources(s)]]

-----------------------------------------------------------------------------
(* The view *)

\* Gives r a record announced by p.
Hold(v, r, p) ==
    IF v.roots[r] = p THEN v
    ELSE [v EXCEPT !.roots[r] = p,
                   !.sources = [q \in Peers |-> @[q] + (IF q = p THEN 1 ELSE 0)
                                                - (IF q = v.roots[r] /\ @[q] > 0 THEN 1 ELSE 0)]]

\* Takes r's record away.
Release(v, r) ==
    IF v.roots[r] = Nil THEN v
    ELSE [v EXCEPT !.roots[r] = Nil,
                   !.sources[v.roots[r]] = IF @ = 0 THEN 0 ELSE @ - 1]

\* Keeps r as p's head unless a newer one is kept.
Remember(v, p, r) ==
    IF v.heads[p] # Nil /\ v.heads[p] > r THEN v ELSE [v EXCEPT !.heads[p] = r]

Registers(v, h) ==
    Remember(Hold(IF h.retired = Nil THEN v ELSE Release(v, h.retired), h.root, h.source),
             h.source, h.root)

Removes(v, h) ==
    LET left == Release(v, h.root) IN
    IF h.source # Nil /\ left.heads[h.source] = h.root
    THEN [left EXCEPT !.heads[h.source] = Nil] ELSE left

\* The view becomes the records: what they do not name goes, and each scope's
\* head is its newest, or the one the view has if that is newer.
Sweeps(v, records) ==
    LET named == DOMAIN records
        kept  == [p \in Peers |-> IF v.heads[p] \in named THEN v.heads[p] ELSE Nil]
        heads(p) == ({r \in named : records[r] = p} \cup {kept[p]}) \ {Nil}
    IN  [roots   |-> [r \in Roots |-> IF r \in named THEN records[r] ELSE Nil],
         sources |-> [p \in Peers |-> Cardinality({r \in named : records[r] = p})],
         heads   |-> [p \in Peers |-> IF heads(p) = {} THEN Nil
                                      ELSE CHOOSE r \in heads(p) : \A q \in heads(p) : q <= r]]

Apply(v, h) ==
    CASE h.kind = "registered" -> Registers(v, h)
      [] h.kind = "removed"    -> Removes(v, h)
      [] h.kind = "swept"      -> Sweeps(v, h.records)

EmptyView == [roots   |-> [r \in Roots |-> Nil],
              sources |-> [p \in Peers |-> 0],
              heads   |-> [p \in Peers |-> Nil]]

-----------------------------------------------------------------------------
(* Transitions *)

Idle == [txn |-> Nil, op |-> Nil, seen |-> <<>>]

Init ==
    /\ db = [k \in Keys |->
               IF k[1] = "count" THEN 0
               ELSE IF k[1] = "record" /\ Legacy[k[2]] # Nil
                    THEN [source |-> Legacy[k[2]], slot |-> Nil]
               ELSE IF k[1] = "head" /\ \E r \in Roots : Legacy[r] = k[2]
                    THEN CHOOSE r \in Roots : /\ Legacy[r] = k[2]
                                              /\ \A q \in Roots : Legacy[q] = k[2] => q <= r
               ELSE Nil]
    /\ job = [w \in Workers |-> Idle]
    /\ hooks = <<>>
    /\ view = EmptyView
    /\ whole = FALSE

\* The transition op of the snapshot s.
Run(op, s) ==
    CASE op.kind = "register"   -> Register(s, op.root, op.source, op.parents, op.ticket)
      [] op.kind = "remove"     -> Remove(s, op.root)
      [] op.kind = "quarantine" -> Quarantines(s, op.root)
      [] op.kind = "sweep"      -> Sweep(s)

\* w's transition reads its snapshot.
Attempt(w, op) ==
    LET txn == Run(op, db) IN
    job' = [job EXCEPT ![w] = [op |-> op, txn |-> txn,
                               seen |-> [k \in txn.reads |-> db[k]]]]

Begin(w, op) ==
    /\ job[w] = Idle
    /\ Attempt(w, op)
    /\ UNCHANGED <<db, hooks, view, whole>>

\* A push of a head the view does not hold.
BeginPush(w) ==
    \E r \in Roots, ticket \in Tickets : \E p \in Announcers[r] :
        /\ view.roots[r] = Nil
        /\ Begin(w, [kind |-> "register", root |-> r, source |-> p,
                     parents |-> Parents[r], ticket |-> ticket])

\* A held head gains a provider or a priority: its record is written again.
BeginExtend(w) ==
    \E r \in Roots, ticket \in Tickets :
        /\ view.roots[r] # Nil
        /\ Begin(w, [kind |-> "register", root |-> r, source |-> view.roots[r],
                     parents |-> {}, ticket |-> ticket])

BeginRemove(w) == \E r \in Roots \ Rejected : Begin(w, [kind |-> "remove", root |-> r])

BeginQuarantine(w) == \E r \in Rejected : Begin(w, [kind |-> "quarantine", root |-> r])

BeginSweep(w) == Begin(w, [kind |-> "sweep"])

Unchanged(w) == \A k \in DOMAIN job[w].seen : db[k] = job[w].seen[k]

Commit(w) ==
    /\ job[w] # Idle
    /\ Unchanged(w)
    /\ Len(hooks) < MaxHooks
    /\ db' = [k \in Keys |-> IF k \in DOMAIN job[w].txn.writes THEN job[w].txn.writes[k]
                             ELSE db[k]]
    /\ hooks' = IF job[w].txn.hook = Nil THEN hooks ELSE Append(hooks, job[w].txn.hook)
    /\ job' = [job EXCEPT ![w] = Idle]
    /\ UNCHANGED <<view, whole>>

\* A conflict: the engine runs the transition again.
Conflict(w) ==
    /\ job[w] # Idle
    /\ ~Unchanged(w)
    /\ Attempt(w, job[w].op)
    /\ UNCHANGED <<db, hooks, view, whole>>

\* A conflict past the last re-run, or a failed write.
Fail(w) ==
    /\ job[w] # Idle
    /\ job' = [job EXCEPT ![w] = Idle]
    /\ UNCHANGED <<db, hooks, view, whole>>

\* Removes the quarantine record of a root.
RemoveQuarantined(r) ==
    /\ db[Quarantine(r)] # Nil
    /\ db' = [db EXCEPT ![Quarantine(r)] = Nil]
    /\ UNCHANGED <<job, hooks, view, whole>>

\* The oldest callback runs.
Dispatch ==
    /\ hooks # <<>>
    /\ view' = Apply(view, Head(hooks))
    /\ hooks' = Tail(hooks)
    /\ whole' = (whole \/ Head(hooks).kind = "swept")
    /\ UNCHANGED <<db, job>>

\* The process stops and starts again with what is stored.
Restart ==
    /\ job' = [w \in Workers |-> Idle]
    /\ hooks' = <<>>
    /\ view' = EmptyView
    /\ whole' = FALSE
    /\ UNCHANGED db

Next ==
    \/ \E w \in Workers :
         \/ BeginPush(w) \/ BeginExtend(w) \/ BeginRemove(w)
         \/ BeginQuarantine(w) \/ BeginSweep(w)
         \/ Commit(w) \/ Conflict(w) \/ Fail(w)
    \/ \E r \in Rejected : RemoveQuarantined(r)
    \/ Dispatch
    \/ Restart

Spec == Init /\ [][Next]_vars

-----------------------------------------------------------------------------
(* Properties *)

Records == Recorded(db)

\* Every variable has its type.
TypeOK ==
    /\ DOMAIN db = Keys
    /\ \A r \in Roots :
          /\ db[Record(r)] \in [source : Peers, slot : 0..(Slots - 1) \cup {Nil}] \cup {Nil}
          /\ db[Charge(r)] \in Peers \cup {Nil}
    /\ \A i \in 0..(Slots - 1) : db[Slot(i)] \in Roots \cup {Nil}
    /\ \A p \in Peers : db[Count(p)] \in Nat /\ db[Current(p)] \in Roots \cup {Nil}
    /\ view.roots \in [Roots -> Peers \cup {Nil}]
    /\ view.sources \in [Peers -> Nat]
    /\ view.heads \in [Peers -> Roots \cup {Nil}]
    /\ Len(hooks) <= MaxHooks
    /\ whole \in BOOLEAN

\* The durable cap (slots.rs): a slot is held by the one root whose record
\* names it and by no other, whichever registrations, takeovers, removals and
\* conflicts came before, so no slot leaks and none is held twice.
SlotsExact ==
    /\ \A i \in 0..(Slots - 1) :
          db[Slot(i)] # Nil => /\ db[Slot(i)] \in Records
                               /\ db[Record(db[Slot(i)])].slot = i
    /\ \A r \in Records :
          db[Record(r)].slot # Nil => db[Slot(db[Record(r)].slot)] = r

\* The peers' shares (shares.rs): a peer's count is the number of records that
\* hold a charge to it and never passes its share; only records hold charges.
SharesExact ==
    /\ \A p \in Peers :
          /\ db[Count(p)] = Cardinality({r \in Roots : db[Charge(r)] = p})
          /\ db[Count(p)] <= PeerCap
    /\ \A r \in Roots : db[Charge(r)] # Nil => r \in Records

\* The view (view.rs) once a sweep rebuilt it and every callback ran: it holds
\* the durable roots, each with the peer that announced it, and counts them by
\* peer, although callbacks run after their commits and sweeps among them.
ViewCatchesUp ==
    whole /\ hooks = <<>> =>
        /\ \A r \in Roots : view.roots[r] = IF r \in Records THEN db[Record(r)].source ELSE Nil
        /\ \A p \in Peers :
              view.sources[p] = Cardinality({r \in Records : db[Record(r)].source = p})

\* In a step a record goes only by its own removal or quarantine, or when a head that
\* links it is registered (register, store.rs): an acknowledged head is never
\* dropped for one that does not lead to it.
RetiredByChild ==
    \A r \in Records \ Recorded(db') :
      \E w \in Workers :
        LET op == job[w].op IN
        /\ job[w] # Idle /\ job'[w] = Idle
        /\ \/ op.kind \in {"remove", "quarantine"} /\ op.root = r
           \/ /\ op.kind = "register" /\ r \in Parents[op.root]
              /\ op.root \in Recorded(db')

\* The slots, the peers' shares and the view agree with the durable records.
RegistrationsExact == TypeOK /\ SlotsExact /\ SharesExact /\ ViewCatchesUp
=============================================================================
