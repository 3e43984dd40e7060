------------------------------- MODULE EventBus -------------------------------
(****************************************************************************)
(* The channel event bus: raw subscribers, whose bounded channels drop what *)
(* does not fit and count it, and document observers, whose updates coalesce *)
(* by document until they are read.  Publishers, subscribers and the closer *)
(* are threads; the two maps and each observer's pending state are atoms.   *)
(* Sources: events channel_bus.rs, document_changes.rs, subscription.rs.    *)
(*                                                                          *)
(* A message is the document it updates, or Other.  Publication follows the *)
(* commit of what it announces, and an observer's owner reads its documents *)
(* anew after subscribing and after every batch: current[s] are those of    *)
(* which it has the last committed state.  Who wrote an update is left out. *)
(****************************************************************************)
EXTENDS Integers, Sequences, FiniteSets, Functions

CONSTANTS
  Docs, Other,   \* messages
  Raw, Observers,\* subscribers
  Wants,         \* Wants[s]: messages that match s's events or collections
  Threads,       \* publishers
  Batches,       \* what one commit may publish
  Capacity,      \* event_buffer_size
  MaxCommits     \* bound

Subs == Raw \cup Observers
Messages == Docs \cup {Other}

ASSUME BusAssumption ==
  /\ Other \notin Docs /\ Raw \cap Observers = {}
  /\ Subs \cap {"idle", "checking", "loading", "observing", "raw", "sending"} = {}
  /\ IsFiniteSet(Docs) /\ IsFiniteSet(Threads)
  /\ Wants \in [Subs -> SUBSET Messages] /\ \A s \in Observers : Other \notin Wants[s]
  /\ Batches \subseteq Seq(Messages) /\ Capacity \in Nat /\ MaxCommits \in Nat

VARIABLES
  closed, map,                   \* the flag; subscribers \cup document_observers
  chan,                          \* a subscriber's channel: "none", "open" or "shut"
  buffer, dropped,               \* raw subscribers
  pending, resync, wake,         \* observers
  sat, stale,                    \* subscribing; a reader whose map was replaced
  cat, hand, current,            \* consuming; the batch taken; what is up to date
  pat, msgs, todo, dead,         \* publishing
  close, swept,                  \* closing
  commits,
  gone                           \* history: messages lost at a full buffer, less those reported

subscribing == <<sat, stale>>
consuming == <<cat, hand, current>>
publishing == <<pat, msgs, todo, dead>>
closing == <<close, swept>>
vars == <<closed, map, chan, buffer, dropped, pending, resync, wake, sat, stale, cat, hand, current,
          pat, msgs, todo, dead, close, swept, commits, gone>>

Nothing == [docs |-> {}, resync |-> FALSE]

Init ==
  /\ closed = FALSE /\ map = {} /\ chan = [s \in Subs |-> "none"]
  /\ buffer = [s \in Raw |-> <<>>] /\ dropped = [s \in Raw |-> 0] /\ gone = [s \in Raw |-> 0]
  /\ pending = [s \in Observers |-> {}] /\ resync = [s \in Observers |-> FALSE]
  /\ wake = [s \in Observers |-> FALSE]
  /\ sat = [s \in Subs |-> "new"] /\ stale = {}
  /\ cat = [s \in Subs |-> "none"] /\ hand = [s \in Observers |-> Nothing]
  /\ current = [s \in Observers |-> {}]
  /\ pat = [p \in Threads |-> "idle"] /\ msgs = [p \in Threads |-> <<>>]
  /\ todo = [p \in Threads |-> {}] /\ dead = [p \in Threads |-> {}]
  /\ close = "open" /\ swept = {} /\ commits = 0

Go(p, from, to) == pat[p] = from /\ pat' = [pat EXCEPT ![p] = to]
Like(s) == IF s \in Raw THEN Raw ELSE Observers

\* A new map takes the place of the one the others of its kind have loaded.
Replace(kind, new) ==
  /\ map' = (map \ kind) \cup new
  /\ stale' = stale \cup {s \in kind : sat[s] = "read"}

----------------------------------------------------------------------------
(* Subscribing: subscribe_raw, observe_document_changes. *)

Look(s) ==
  /\ sat[s] = "new"
  /\ sat' = [sat EXCEPT ![s] = IF closed THEN "refused" ELSE "reading"]
  /\ UNCHANGED <<closed, map, chan, buffer, dropped, pending, resync, wake, stale, consuming,
                 publishing, closing, commits, gone>>

\* As if the flag were not read again once the map is loaded.
ReadOnce(s) ==
  /\ sat[s] = "reading"
  /\ sat' = [sat EXCEPT ![s] = "read"]
  /\ UNCHANGED <<closed, map, chan, buffer, dropped, pending, resync, wake, stale, consuming,
                 publishing, closing, commits, gone>>

\* The closure of rcu: the map is loaded, then the flag.
Read(s) ==
  /\ sat[s] = "reading"
  /\ sat' = [sat EXCEPT ![s] = IF closed THEN "refused" ELSE "read"]
  /\ UNCHANGED <<closed, map, chan, buffer, dropped, pending, resync, wake, stale, consuming,
                 publishing, closing, commits, gone>>

Insert(s) ==
  /\ sat[s] = "read"
  /\ IF s \in stale
     THEN /\ sat' = [sat EXCEPT ![s] = "reading"] /\ stale' = stale \ {s}
          /\ UNCHANGED <<map, chan, cat>>
     ELSE /\ map' = map \cup {s}
          /\ stale' = stale \cup {t \in Like(s) \ {s} : sat[t] = "read"}
          /\ sat' = [sat EXCEPT ![s] = "subscribed"]
          /\ chan' = [chan EXCEPT ![s] = "open"]
          /\ cat' = [cat EXCEPT ![s] = IF s \in Raw THEN "waiting" ELSE "loading"]
  /\ UNCHANGED <<closed, buffer, dropped, pending, resync, wake, hand, current,
                 publishing, closing, commits, gone>>

----------------------------------------------------------------------------
(* Publishing: publish, publish_batch, publish_raw, ChangePublisher::publish_batch. *)

\* A transaction commits; its success callback publishes what it wrote.
Commit(p, batch) ==
  /\ commits < MaxCommits /\ Go(p, "idle", "checking")
  /\ commits' = commits + 1
  /\ msgs' = [msgs EXCEPT ![p] = batch]
  /\ current' = [s \in Observers |-> current[s] \ Range(batch)]
  /\ UNCHANGED <<closed, map, chan, buffer, dropped, pending, resync, wake, subscribing, cat, hand,
                 todo, dead, closing, gone>>

Check(p) ==
  /\ Go(p, "checking", IF closed THEN "idle" ELSE "loading")
  /\ msgs' = [msgs EXCEPT ![p] = IF closed THEN <<>> ELSE @]
  /\ UNCHANGED <<closed, map, chan, buffer, dropped, pending, resync, wake, subscribing, consuming,
                 todo, dead, closing, commits, gone>>

LoadObservers(p) ==
  /\ Go(p, "loading", "observing")
  /\ todo' = [todo EXCEPT ![p] = map \cap Observers]
  /\ UNCHANGED <<closed, map, chan, buffer, dropped, pending, resync, wake, subscribing, consuming,
                 msgs, dead, closing, commits, gone>>

Mine(s, batch) == Range(batch) \cap Wants[s]

\* As if what did not fit were dropped.
DroppedOver(s, batch) ==
  LET all == pending[s] \cup Mine(s, batch)
  IN  [docs |-> IF Cardinality(all) > Capacity THEN pending[s] ELSE all, resync |-> resync[s]]

\* The pending state after a batch: more documents than fit are a resync.
Coalesced(s, batch) ==
  LET all == pending[s] \cup Mine(s, batch)
      over == resync[s] \/ Cardinality(all) > Capacity
  IN  [docs |-> IF over THEN {} ELSE all, resync |-> over]

\* One observer of the snapshot; nothing for one that wants none of the batch.
Deliver(p, s) ==
  /\ pat[p] = "observing" /\ s \in todo[p]
  /\ IF chan[s] = "shut"
     THEN /\ dead' = [dead EXCEPT ![p] = @ \cup {s}]
          /\ todo' = [todo EXCEPT ![p] = @ \ {s}]
          /\ UNCHANGED <<pending, resync, pat>>
     ELSE /\ UNCHANGED dead
          /\ IF Mine(s, msgs[p]) = {}
             THEN todo' = [todo EXCEPT ![p] = @ \ {s}] /\ UNCHANGED <<pending, resync, pat>>
             ELSE /\ pending' = [pending EXCEPT ![s] = Coalesced(s, msgs[p]).docs]
                  /\ resync' = [resync EXCEPT ![s] = Coalesced(s, msgs[p]).resync]
                  /\ pat' = [pat EXCEPT ![p] = s]
                  /\ UNCHANGED todo
  /\ UNCHANGED <<closed, map, chan, buffer, dropped, wake, subscribing, consuming, msgs,
                 closing, commits, gone>>

\* wake.try_send: the channel holds one.
Wake(p, s) ==
  /\ s \in Observers /\ Go(p, s, "observing")
  /\ wake' = [wake EXCEPT ![s] = @ \/ chan[s] = "open"]
  /\ todo' = [todo EXCEPT ![p] = @ \ {s}]
  /\ UNCHANGED <<closed, map, chan, buffer, dropped, pending, resync, subscribing, consuming,
                 msgs, dead, closing, commits, gone>>

\* The loop over a snapshot is done; what was found closed leaves the map.
Prune(p, from, to, kind) ==
  /\ todo[p] = {} /\ Go(p, from, to)
  /\ IF dead[p] = {} THEN UNCHANGED <<map, stale>>
     ELSE Replace(kind, (map \cap kind) \ dead[p])
  /\ dead' = [dead EXCEPT ![p] = {}]
  /\ UNCHANGED <<closed, chan, buffer, dropped, pending, resync, wake, sat, consuming, msgs, todo,
                 closing, commits, gone>>

PruneObservers(p) == Prune(p, "observing", "raw", Observers)

PublishRaw(p) ==
  /\ pat[p] = "raw"
  /\ \/ /\ closed \/ msgs[p] = <<>>
        /\ pat' = [pat EXCEPT ![p] = "idle"] /\ msgs' = [msgs EXCEPT ![p] = <<>>] /\ UNCHANGED todo
     \/ /\ ~closed /\ msgs[p] # <<>>
        /\ pat' = [pat EXCEPT ![p] = "sending"] /\ UNCHANGED msgs
        /\ todo' = [todo EXCEPT ![p] = {s \in map \cap Raw : Head(msgs[p]) \in Wants[s]}]
  /\ UNCHANGED <<closed, map, chan, buffer, dropped, pending, resync, wake, subscribing, consuming,
                 dead, closing, commits, gone>>

\* try_send; a full buffer is counted in a step of its own.
Send(p, s) ==
  /\ pat[p] = "sending" /\ s \in todo[p]
  /\ \/ /\ chan[s] = "shut"
        /\ dead' = [dead EXCEPT ![p] = @ \cup {s}] /\ todo' = [todo EXCEPT ![p] = @ \ {s}]
        /\ UNCHANGED <<buffer, pat, gone>>
     \/ /\ chan[s] = "open" /\ Len(buffer[s]) < Capacity
        /\ buffer' = [buffer EXCEPT ![s] = Append(@, Head(msgs[p]))]
        /\ todo' = [todo EXCEPT ![p] = @ \ {s}]
        /\ UNCHANGED <<pat, dead, gone>>
     \/ /\ chan[s] = "open" /\ Len(buffer[s]) >= Capacity
        /\ pat' = [pat EXCEPT ![p] = s] /\ gone' = [gone EXCEPT ![s] = @ + 1]
        /\ UNCHANGED <<buffer, todo, dead>>
  /\ UNCHANGED <<closed, map, chan, dropped, pending, resync, wake, subscribing, consuming, msgs,
                 closing, commits>>

\* As if the count were a mark.
CountMark(p, s) ==
  /\ s \in Raw /\ Go(p, s, "sending")
  /\ dropped' = [dropped EXCEPT ![s] = 1]
  /\ todo' = [todo EXCEPT ![p] = @ \ {s}]
  /\ UNCHANGED <<closed, map, chan, buffer, pending, resync, wake, subscribing, consuming, msgs, dead,
                 closing, commits, gone>>

Count(p, s) ==
  /\ s \in Raw /\ Go(p, s, "sending")
  /\ dropped' = [dropped EXCEPT ![s] = @ + 1]
  /\ todo' = [todo EXCEPT ![p] = @ \ {s}]
  /\ UNCHANGED <<closed, map, chan, buffer, pending, resync, wake, subscribing, consuming, msgs, dead,
                 closing, commits, gone>>

PruneRaw(p) ==
  /\ todo[p] = {} /\ Go(p, "sending", "raw")
  /\ IF dead[p] = {} THEN UNCHANGED <<map, stale>>
     ELSE Replace(Raw, (map \cap Raw) \ dead[p])
  /\ dead' = [dead EXCEPT ![p] = {}]
  /\ msgs' = [msgs EXCEPT ![p] = Tail(@)]
  /\ UNCHANGED <<closed, chan, buffer, dropped, pending, resync, wake, sat, consuming, todo,
                 closing, commits, gone>>

----------------------------------------------------------------------------
(* Consuming. *)

\* The owner reads its whole scope: after subscribing, or at a resync.
Load(s) ==
  /\ cat[s] = "loading"
  /\ current' = [current EXCEPT ![s] = Wants[s]]
  /\ cat' = [cat EXCEPT ![s] = "waiting"]
  /\ UNCHANGED <<closed, map, chan, buffer, dropped, pending, resync, wake, subscribing, hand,
                 publishing, closing, commits, gone>>

\* DocumentChangeSubscription::recv: a wake, or the end of a closed channel.
Recv(s) ==
  /\ s \in Observers /\ cat[s] = "waiting"
  /\ wake[s] \/ chan[s] = "shut"
  /\ cat' = [cat EXCEPT ![s] = IF wake[s] THEN "woken" ELSE "over"]
  /\ wake' = [wake EXCEPT ![s] = FALSE]
  /\ UNCHANGED <<closed, map, chan, buffer, dropped, pending, resync, subscribing, hand, current,
                 publishing, closing, commits, gone>>

\* take_pending: one swap; an empty batch is waited past.
Take(s) ==
  /\ cat[s] = "woken"
  /\ hand' = [hand EXCEPT ![s] = [docs |-> pending[s], resync |-> resync[s]]]
  /\ pending' = [pending EXCEPT ![s] = {}] /\ resync' = [resync EXCEPT ![s] = FALSE]
  /\ cat' = [cat EXCEPT ![s] = IF pending[s] = {} /\ ~resync[s] THEN "waiting" ELSE "reading"]
  /\ UNCHANGED <<closed, map, chan, buffer, dropped, wake, subscribing, current, publishing, closing,
                 commits, gone>>

\* The owner reads what the batch names.
Requery(s) ==
  /\ cat[s] = "reading"
  /\ current' = [current EXCEPT ![s] = @ \cup IF hand[s].resync THEN Wants[s] ELSE hand[s].docs]
  /\ hand' = [hand EXCEPT ![s] = Nothing]
  /\ cat' = [cat EXCEPT ![s] = "waiting"]
  /\ UNCHANGED <<closed, map, chan, buffer, dropped, pending, resync, wake, subscribing,
                 publishing, closing, commits, gone>>

\* Subscription::recv.
RecvRaw(s) ==
  /\ s \in Raw /\ cat[s] = "waiting"
  /\ buffer[s] # <<>> \/ chan[s] = "shut"
  /\ buffer' = [buffer EXCEPT ![s] = IF @ = <<>> THEN @ ELSE Tail(@)]
  /\ cat' = [cat EXCEPT ![s] = IF buffer[s] = <<>> THEN "over" ELSE @]
  /\ UNCHANGED <<closed, map, chan, dropped, pending, resync, wake, subscribing, hand, current,
                 publishing, closing, commits, gone>>

\* check_and_reset_dropped.
Reset(s) ==
  /\ s \in Raw /\ cat[s] = "waiting" /\ dropped[s] > 0
  /\ gone' = [gone EXCEPT ![s] = @ - dropped[s]]
  /\ dropped' = [dropped EXCEPT ![s] = 0]
  /\ UNCHANGED <<closed, map, chan, buffer, pending, resync, wake, subscribing, consuming,
                 publishing, closing, commits>>

\* The handle is dropped: its channel closes, and the next publication prunes it.
Drop(s) ==
  /\ cat[s] = "waiting"
  /\ cat' = [cat EXCEPT ![s] = "over"] /\ chan' = [chan EXCEPT ![s] = "shut"]
  /\ UNCHANGED <<closed, map, buffer, dropped, pending, resync, wake, subscribing, hand, current,
                 publishing, closing, commits, gone>>

----------------------------------------------------------------------------
(* Unsubscribing and closing. *)

\* As if leaving the map closed the channel, as dropping its sender will.
UnsubscribeDrops(s) ==
  /\ s \in map
  /\ Replace(Like(s), (map \cap Like(s)) \ {s})
  /\ UNCHANGED <<closed, chan, buffer, dropped, pending, resync, wake, sat, consuming, publishing,
                 closing, commits, gone>>

Unsubscribe(s) ==
  /\ s \in map
  /\ Replace(Like(s), (map \cap Like(s)) \ {s})
  /\ chan' = [chan EXCEPT ![s] = "shut"]
  /\ UNCHANGED <<closed, buffer, dropped, pending, resync, wake, sat, consuming, publishing,
                 closing, commits, gone>>

CloseFlag ==
  /\ close = "open" /\ close' = "raw" /\ closed' = TRUE
  /\ UNCHANGED <<map, chan, buffer, dropped, pending, resync, wake, subscribing, consuming,
                 publishing, swept, commits, gone>>

CloseSwap(kind, from, to) ==
  /\ close = from /\ close' = to
  /\ Replace(kind, {}) /\ swept' = map \cap kind
  /\ UNCHANGED <<closed, chan, buffer, dropped, pending, resync, wake, sat, consuming, publishing,
                 commits, gone>>

CloseShut(from, to) ==
  /\ close = from /\ close' = to
  /\ chan' = [s \in Subs |-> IF s \in swept THEN "shut" ELSE chan[s]] /\ swept' = {}
  /\ UNCHANGED <<closed, map, buffer, dropped, pending, resync, wake, subscribing, consuming,
                 publishing, commits, gone>>

Close ==
  \/ CloseFlag
  \/ CloseSwap(Raw, "raw", "shutting") \/ CloseShut("shutting", "observers")
  \/ CloseSwap(Observers, "observers", "ending") \/ CloseShut("ending", "closed")

----------------------------------------------------------------------------
Subscribe(s) == Look(s) \/ Read(s) \/ Insert(s)
Publish(p) ==
  \/ Check(p) \/ LoadObservers(p) \/ PruneObservers(p) \/ PublishRaw(p) \/ PruneRaw(p)
  \/ \E s \in Observers : Deliver(p, s) \/ Wake(p, s)
  \/ \E s \in Raw : Send(p, s) \/ Count(p, s)
Consume(s) == s \in Observers /\ (Load(s) \/ Recv(s) \/ Take(s) \/ Requery(s))

Next ==
  \/ \E s \in Subs : Subscribe(s) \/ Consume(s) \/ RecvRaw(s) \/ Reset(s) \/ Drop(s) \/ Unsubscribe(s)
  \/ \E p \in Threads : Publish(p) \/ \E batch \in Batches : Commit(p, batch)
  \/ Close

Spec == Init /\ [][Next]_vars

\* Threads run on, and the owner of a subscription keeps receiving.
FairSpec ==
  /\ Spec
  /\ \A s \in Subs : WF_vars(Subscribe(s)) /\ WF_vars(Consume(s)) /\ WF_vars(RecvRaw(s))
  /\ \A p \in Threads : WF_vars(Publish(p))
  /\ WF_vars(close # "open" /\ Close)

----------------------------------------------------------------------------
TypeOK ==
  /\ closed \in BOOLEAN /\ map \subseteq Subs /\ chan \in [Subs -> {"none", "open", "shut"}]
  /\ \A s \in Raw : buffer[s] \in Seq(Messages) /\ Len(buffer[s]) <= Capacity
  /\ dropped \in [Raw -> Nat] /\ gone \in [Raw -> Nat]
  /\ \A s \in Observers : pending[s] \subseteq Wants[s] /\ Cardinality(pending[s]) <= Capacity
  /\ resync \in [Observers -> BOOLEAN] /\ wake \in [Observers -> BOOLEAN]
  /\ sat \in [Subs -> {"new", "reading", "read", "subscribed", "refused"}] /\ stale \subseteq Subs
  /\ cat \in [Subs -> {"none", "loading", "waiting", "woken", "reading", "over"}]
  /\ hand \in [Observers -> [docs : SUBSET Docs, resync : BOOLEAN]] /\ current \in [Observers -> SUBSET Docs]
  /\ pat \in [Threads -> {"idle", "checking", "loading", "observing", "raw", "sending"} \cup Subs]
  /\ msgs \in [Threads -> Seq(Messages)] /\ todo \in [Threads -> SUBSET Subs] /\ dead \in [Threads -> SUBSET Subs]
  /\ close \in {"open", "raw", "shutting", "observers", "ending", "closed"} /\ swept \subseteq Subs
  /\ commits \in 0 .. MaxCommits

\* A publisher has yet to tell observer s of document d; it may be about to wake
\* another one.
Owes(p, s, d) ==
  /\ d \in Range(msgs[p])
  /\ \/ pat[p] \in {"checking", "loading"}
     \/ pat[p] \in {"observing"} \cup (Observers \ {s}) /\ s \in todo[p]

\* "Lossless invalidation of current document state": of a document whose last
\* committed state an observer's owner has not read, the observer has an entry,
\* a resync, a batch in hand, or a publisher about to tell it, in whatever way
\* publications coalesce, overflow and race the owner's reads.
StaleIsKnown ==
  \A s \in Observers : chan[s] = "open" /\ ~closed /\ cat[s] # "loading" =>
    \A d \in Wants[s] \ current[s] :
      d \in pending[s] \cup hand[s].docs \/ resync[s] \/ hand[s].resync \/ \E p \in Threads : Owes(p, s, d)

\* "One pending wake is sufficient": what an observer has pending never waits
\* for a wake that nobody is about to send, or that was spent on an earlier batch.
PendingIsWoken ==
  \A s \in Observers : chan[s] = "open" /\ (pending[s] # {} \/ resync[s]) =>
    wake[s] \/ cat[s] = "woken" \/ \E p \in Threads : pat[p] = s

\* "no observer survives a closed bus": once close has returned no subscriber is
\* in a map and nobody holds an open channel, whoever was subscribing meanwhile.
NoneSurvivesClose ==
  close = "closed" => map = {} /\ \A s \in Subs : chan[s] # "open"

\* A message lost at a full buffer is in the count, or about to be counted.
LossIsCounted ==
  \A s \in Raw : gone[s] = dropped[s] + Cardinality({p \in Threads : pat[p] = s})
=============================================================================
