---------------------------- MODULE EventBusProofs ----------------------------
(***************************************************************************)
(* Proofs about EventBus for any subscribers, publishers, documents and    *)
(* capacities: an observer learns of every document its owner has not read *)
(* since the last commit; what is pending is woken; no subscription        *)
(* survives a closed bus; and what a full buffer lost is counted.          *)
(***************************************************************************)
EXTENDS EventBus, FiniteSetTheorems, TLAPS

-----------------------------------------------------------------------------
(* The inductive invariant. *)

ChanStates == {"none", "open", "shut"}
SatSteps == {"new", "reading", "read", "subscribed", "refused"}
CatSteps == {"none", "loading", "waiting", "woken", "reading", "over"}
PatSteps == {"idle", "checking", "loading", "observing", "raw", "sending"} \cup Subs
CloseSteps == {"open", "raw", "shutting", "observers", "ending", "closed"}
Hands == [docs : SUBSET Docs, resync : BOOLEAN]

SubTypes ==
  /\ closed \in BOOLEAN /\ map \subseteq Subs /\ chan \in [Subs -> ChanStates]
  /\ sat \in [Subs -> SatSteps] /\ stale \subseteq Subs
  /\ close \in CloseSteps /\ swept \subseteq Subs
RawTypes ==
  /\ buffer \in [Raw -> Seq(Messages)] /\ \A s \in Raw : Len(buffer[s]) <= Capacity
  /\ dropped \in [Raw -> Nat] /\ gone \in [Raw -> Int]
ObserverTypes ==
  /\ pending \in [Observers -> SUBSET Docs]
  /\ \A s \in Observers : pending[s] \subseteq Wants[s] /\ Cardinality(pending[s]) <= Capacity
  /\ resync \in [Observers -> BOOLEAN] /\ wake \in [Observers -> BOOLEAN]
  /\ cat \in [Subs -> CatSteps] /\ hand \in [Observers -> Hands]
  /\ current \in [Observers -> SUBSET Docs]
PublisherTypes ==
  /\ pat \in [Threads -> PatSteps] /\ msgs \in [Threads -> Seq(Messages)]
  /\ todo \in [Threads -> SUBSET Subs] /\ dead \in [Threads -> SUBSET Subs]
  /\ commits \in 0 .. MaxCommits
  /\ \A p \in Threads : pat[p] \in {"sending"} \cup Raw => msgs[p] # <<>>

Types == SubTypes /\ RawTypes /\ ObserverTypes /\ PublisherTypes

\* Nobody has a channel, an owner, a place in a map or anything pending before it
\* has subscribed; and a channel once shut stays so: only what is shut is dead.
Subscribed ==
  /\ \A s \in Subs : sat[s] # "subscribed" => chan[s] = "none" /\ cat[s] = "none"
  /\ \A s \in Observers : sat[s] # "subscribed" => pending[s] = {} /\ ~resync[s]
  /\ \A s \in map \cup swept : sat[s] = "subscribed"
  /\ \A p \in Threads : \A s \in todo[p] : sat[s] = "subscribed"
  /\ \A p \in Threads : \A s \in dead[p] : chan[s] = "shut"

\* An open channel is in the map, or in the hands of close.
OpenIsHeld == \A s \in Subs : chan[s] = "open" => s \in map \cup swept

\* How far close has come.
Emptied(kind) ==
  /\ map \cap kind = {}
  /\ \A s \in kind : sat[s] = "read" => s \in stale
CloseKnows ==
  /\ closed <=> close # "open"
  /\ close \notin {"shutting", "ending"} => swept = {}
  /\ close \notin {"open", "raw"} => Emptied(Raw)
  /\ close \in {"ending", "closed"} => Emptied(Observers)

\* A batch is in hand only while its owner reads what it names.
HandIsRead == \A s \in Observers : cat[s] # "reading" => hand[s] = Nothing

IInv ==
  /\ Types /\ Subscribed /\ OpenIsHeld /\ CloseKnows /\ HandIsRead
  /\ StaleIsKnown /\ PendingIsWoken /\ LossIsCounted

-----------------------------------------------------------------------------
(* What the steps of each actor leave alone. *)

LEMMA SubscribeFrame ==
  ASSUME NEW s \in Subs, Subscribe(s)
  PROVE  UNCHANGED <<closed, buffer, dropped, pending, resync, wake, hand, current, pat, msgs, todo,
                     dead, close, swept, commits, gone>>
BY Zenon DEF Subscribe, Look, Read, Insert, publishing, closing, consuming

LEMMA CommitFrame ==
  ASSUME NEW p \in Threads, NEW batch \in Batches, Commit(p, batch)
  PROVE  UNCHANGED <<closed, map, chan, buffer, dropped, pending, resync, wake, sat, stale, cat, hand,
                     todo, dead, close, swept, gone>>
BY Zenon DEF Commit, subscribing, closing

LEMMA PublishFrame ==
  ASSUME NEW p \in Threads, Publish(p)
  PROVE  UNCHANGED <<closed, chan, sat, cat, hand, current, close, swept, commits>>
<1>1. CASE Check(p) \/ LoadObservers(p) \/ PublishRaw(p)
  BY <1>1, Zenon DEF Check, LoadObservers, PublishRaw, subscribing, consuming, closing
<1>2. CASE PruneObservers(p) \/ PruneRaw(p)
  BY <1>2, Zenon DEF PruneObservers, Prune, PruneRaw, consuming, closing
<1>3. ASSUME NEW s \in Observers, Deliver(p, s) \/ Wake(p, s)
      PROVE  UNCHANGED <<closed, chan, sat, cat, hand, current, close, swept, commits>>
  BY <1>3, Zenon DEF Deliver, Wake, subscribing, consuming, closing
<1>4. ASSUME NEW s \in Raw, Send(p, s) \/ Count(p, s)
      PROVE  UNCHANGED <<closed, chan, sat, cat, hand, current, close, swept, commits>>
  BY <1>4, Zenon DEF Send, Count, subscribing, consuming, closing
<1> QED BY <1>1, <1>2, <1>3, <1>4, Zenon DEF Publish

LEMMA ConsumeFrame ==
  ASSUME NEW s \in Subs, Consume(s)
  PROVE  /\ UNCHANGED <<closed, map, chan, buffer, dropped, sat, stale, pat, msgs, todo, dead, close,
                        swept, commits, gone>>
         /\ s \in Observers
BY Zenon DEF Consume, Load, Recv, Take, Requery, subscribing, publishing, closing

LEMMA ReceiveFrame ==
  ASSUME NEW s \in Subs, RecvRaw(s) \/ Reset(s)
  PROVE  /\ UNCHANGED <<closed, map, chan, pending, resync, wake, sat, stale, hand, current, pat, msgs,
                        todo, dead, close, swept, commits>>
         /\ s \in Raw
BY Zenon DEF RecvRaw, Reset, subscribing, publishing, closing, consuming

LEMMA LeaveFrame ==
  ASSUME NEW s \in Subs, Drop(s) \/ Unsubscribe(s)
  PROVE  UNCHANGED <<closed, buffer, dropped, pending, resync, wake, sat, hand, current, pat, msgs, todo,
                     dead, close, swept, commits, gone>>
BY Zenon DEF Drop, Unsubscribe, subscribing, publishing, closing, consuming

LEMMA CloseFrame ==
  ASSUME Close
  PROVE  UNCHANGED <<buffer, dropped, pending, resync, wake, sat, cat, hand, current, pat, msgs, todo,
                     dead, commits, gone>>
BY Zenon DEF Close, CloseFlag, CloseSwap, CloseShut, subscribing, publishing, consuming

\* A publisher changes a map only where it prunes it, what is pending only where it
\* delivers, and sends a wake in a step of its own.
LEMMA MapsFrame ==
  ASSUME NEW p \in Threads, Publish(p)
  PROVE  \/ UNCHANGED <<map, stale>>
         \/ PruneObservers(p) \/ PruneRaw(p)
<1>1. CASE Check(p) \/ LoadObservers(p) \/ PublishRaw(p)
  BY <1>1, Zenon DEF Check, LoadObservers, PublishRaw, subscribing
<1>2. ASSUME NEW s \in Observers, Deliver(p, s) \/ Wake(p, s)
      PROVE  UNCHANGED <<map, stale>>
  BY <1>2, Zenon DEF Deliver, Wake, subscribing
<1>3. ASSUME NEW s \in Raw, Send(p, s) \/ Count(p, s)
      PROVE  UNCHANGED <<map, stale>>
  BY <1>3, Zenon DEF Send, Count, subscribing
<1> QED BY <1>1, <1>2, <1>3, Zenon DEF Publish

LEMMA PendingFrame ==
  ASSUME NEW p \in Threads, Publish(p)
  PROVE  \/ UNCHANGED <<pending, resync>>
         \/ \E s \in Observers : Deliver(p, s)
<1>1. CASE Check(p) \/ LoadObservers(p) \/ PublishRaw(p)
  BY <1>1, Zenon DEF Check, LoadObservers, PublishRaw
<1>2. CASE PruneObservers(p) \/ PruneRaw(p)
  BY <1>2, Zenon DEF PruneObservers, Prune, PruneRaw
<1>3. ASSUME NEW s \in Observers, Deliver(p, s) \/ Wake(p, s)
      PROVE  \/ UNCHANGED <<pending, resync>>
             \/ \E u \in Observers : Deliver(p, u)
  BY <1>3, Zenon DEF Wake
<1>4. ASSUME NEW s \in Raw, Send(p, s) \/ Count(p, s)
      PROVE  UNCHANGED <<pending, resync>>
  BY <1>4, Zenon DEF Send, Count
<1> QED BY <1>1, <1>2, <1>3, <1>4, Zenon DEF Publish

LEMMA WakeFrame ==
  ASSUME NEW p \in Threads, Publish(p)
  PROVE  wake' = wake \/ \E s \in Observers : Wake(p, s)
<1>1. CASE Check(p) \/ LoadObservers(p) \/ PublishRaw(p)
  BY <1>1, Zenon DEF Check, LoadObservers, PublishRaw
<1>2. CASE PruneObservers(p) \/ PruneRaw(p)
  BY <1>2, Zenon DEF PruneObservers, Prune, PruneRaw
<1>3. ASSUME NEW s \in Observers, Deliver(p, s) PROVE wake' = wake
  BY <1>3, Zenon DEF Deliver
<1>4. ASSUME NEW s \in Raw, Send(p, s) \/ Count(p, s) PROVE wake' = wake
  BY <1>4, Zenon DEF Send, Count
<1> QED BY <1>1, <1>2, <1>3, <1>4, Zenon DEF Publish

-----------------------------------------------------------------------------
(* What leaves a map. *)

LEMMA Replaced ==
  ASSUME NEW kind, NEW new, kind \subseteq Subs, Replace(kind, new)
  PROVE  /\ map' = (map \ kind) \cup new
         /\ stale \subseteq stale' /\ stale' \subseteq stale \cup Subs
         /\ \A s \in kind : sat[s] = "read" => s \in stale'
BY Zenon DEF Replace

LEMMA Pruned ==
  ASSUME NEW p \in Threads, PublisherTypes, PruneObservers(p) \/ PruneRaw(p)
  PROVE  /\ map' \subseteq map /\ map \ dead[p] \subseteq map'
         /\ stale \subseteq stale' /\ stale' \subseteq stale \cup Subs
         /\ todo' = todo /\ dead' = [dead EXCEPT ![p] = {}]
<1>1. CASE PruneObservers(p)
  <2>1. \/ UNCHANGED <<map, stale>>
        \/ Replace(Observers, (map \cap Observers) \ dead[p])
    BY <1>1, Zenon DEF PruneObservers, Prune
  <2>2. todo' = todo /\ dead' = [dead EXCEPT ![p] = {}]
    BY <1>1, Zenon DEF PruneObservers, Prune
  <2>3. CASE UNCHANGED <<map, stale>>
    BY <2>2, <2>3, Zenon
  <2>4. CASE Replace(Observers, (map \cap Observers) \ dead[p])
    <3>1. Observers \subseteq Subs
      BY Zenon DEF Subs
    <3> QED BY <2>2, <2>4, <3>1, Zenon DEF Replace
  <2> QED BY <2>1, <2>3, <2>4, Zenon
<1>2. CASE PruneRaw(p)
  <2>1. \/ UNCHANGED <<map, stale>>
        \/ Replace(Raw, (map \cap Raw) \ dead[p])
    BY <1>2, Zenon DEF PruneRaw
  <2>2. todo' = todo /\ dead' = [dead EXCEPT ![p] = {}]
    BY <1>2, Zenon DEF PruneRaw
  <2>3. CASE UNCHANGED <<map, stale>>
    BY <2>2, <2>3, Zenon
  <2>4. CASE Replace(Raw, (map \cap Raw) \ dead[p])
    <3>1. Raw \subseteq Subs
      BY Zenon DEF Subs
    <3> QED BY <2>2, <2>4, <3>1, Zenon DEF Replace
  <2> QED BY <2>1, <2>3, <2>4, Zenon
<1> QED BY <1>1, <1>2, Zenon

LEMMA Unsubscribed ==
  ASSUME NEW s \in Subs, Unsubscribe(s)
  PROVE  /\ s \in map /\ map' = map \ {s}
         /\ stale \subseteq stale' /\ stale' \subseteq stale \cup Subs
         /\ chan' = [chan EXCEPT ![s] = "shut"] /\ cat' = cat
<1>1. Like(s) \subseteq Subs /\ s \in Like(s)
  BY Zenon DEF Like, Subs
<1>2. /\ s \in map /\ Replace(Like(s), (map \cap Like(s)) \ {s})
      /\ chan' = [chan EXCEPT ![s] = "shut"] /\ cat' = cat
  BY Zenon DEF Unsubscribe, consuming
<1> QED BY <1>1, <1>2, Zenon DEF Replace

LEMMA Swapped ==
  ASSUME NEW kind, NEW from, NEW to, kind \subseteq Subs, CloseSwap(kind, from, to)
  PROVE  /\ close = from /\ close' = to /\ closed' = closed /\ chan' = chan
         /\ map' = map \ kind /\ swept' = map \cap kind
         /\ stale \subseteq stale' /\ stale' \subseteq stale \cup Subs
         /\ \A s \in kind : sat[s] = "read" => s \in stale'
<1>1. /\ close = from /\ close' = to /\ closed' = closed /\ chan' = chan
      /\ swept' = map \cap kind /\ Replace(kind, {})
  BY Zenon DEF CloseSwap
<1>2. /\ map' = (map \ kind) \cup {} /\ stale \subseteq stale' /\ stale' \subseteq stale \cup Subs
      /\ \A s \in kind : sat[s] = "read" => s \in stale'
  BY <1>1, Replaced, Zenon
<1> QED BY <1>1, <1>2, Zenon

-----------------------------------------------------------------------------
(* Types. *)

LEMMA SubTypesKept ==
  ASSUME Types, Next
  PROVE  SubTypes'
<1>0. SubTypes /\ PublisherTypes
  BY Zenon DEF Types
<1>1. ASSUME NEW s \in Subs, Subscribe(s) PROVE SubTypes'
  <2>1. UNCHANGED <<closed, close, swept>>
    BY <1>1, SubscribeFrame, Zenon
  <2>2. CASE Look(s) \/ Read(s)
    BY <1>0, <2>1, <2>2, Zenon DEF Look, Read, SubTypes, SatSteps, subscribing
  <2>3. CASE Insert(s) /\ s \in stale
    BY <1>0, <2>1, <2>3, Zenon DEF Insert, SubTypes, SatSteps
  <2>4. CASE Insert(s) /\ s \notin stale
    <3>1. /\ map' = map \cup {s} /\ stale' = stale \cup {t \in Like(s) \ {s} : sat[t] = "read"}
          /\ sat' = [sat EXCEPT ![s] = "subscribed"] /\ chan' = [chan EXCEPT ![s] = "open"]
      BY <2>4, Zenon DEF Insert
    <3>2. Like(s) \subseteq Subs
      BY Zenon DEF Like, Subs
    <3> QED BY <1>0, <2>1, <3>1, <3>2, Zenon DEF SubTypes, SatSteps, ChanStates
  <2> QED BY <1>1, <2>2, <2>3, <2>4, Zenon DEF Subscribe
<1>2. ASSUME NEW p \in Threads, Publish(p) PROVE SubTypes'
  <2>1. UNCHANGED <<closed, chan, sat, close, swept>>
    BY <1>2, PublishFrame, Zenon
  <2>2. map' \subseteq Subs /\ stale' \subseteq Subs
    <3>1. CASE UNCHANGED <<map, stale>>
      BY <1>0, <3>1, Zenon DEF SubTypes
    <3>2. CASE PruneObservers(p) \/ PruneRaw(p)
      <4>1. map' \subseteq map /\ stale' \subseteq stale \cup Subs
        BY <1>0, <3>2, Pruned, Zenon
      <4> QED BY <1>0, <4>1, Zenon DEF SubTypes
    <3> QED BY <1>2, <3>1, <3>2, MapsFrame, Zenon
  <2> QED BY <1>0, <2>1, <2>2, Zenon DEF SubTypes
<1>3. ASSUME NEW s \in Subs, Drop(s) PROVE SubTypes'
  <2>1. UNCHANGED <<closed, map, sat, stale, close, swept>> /\ chan' = [chan EXCEPT ![s] = "shut"]
    BY <1>3, Zenon DEF Drop, subscribing, closing
  <2> QED BY <1>0, <2>1, Zenon DEF SubTypes, ChanStates
<1>4. ASSUME NEW s \in Subs, Unsubscribe(s) PROVE SubTypes'
  <2>1. UNCHANGED <<closed, sat, close, swept>>
    BY <1>4, LeaveFrame, Zenon
  <2>2. map' = map \ {s} /\ stale' \subseteq stale \cup Subs /\ chan' = [chan EXCEPT ![s] = "shut"]
    BY <1>4, Unsubscribed, Zenon
  <2> QED BY <1>0, <2>1, <2>2, Zenon DEF SubTypes, ChanStates
<1>5. ASSUME NEW p \in Threads, NEW batch \in Batches, Commit(p, batch) PROVE SubTypes'
  BY <1>0, <1>5, CommitFrame, Zenon DEF SubTypes
<1>6. ASSUME NEW s \in Subs, Consume(s) PROVE SubTypes'
  BY <1>0, <1>6, ConsumeFrame, Zenon DEF SubTypes
<1>7. ASSUME NEW s \in Subs, RecvRaw(s) \/ Reset(s) PROVE SubTypes'
  BY <1>0, <1>7, ReceiveFrame, Zenon DEF SubTypes
<1>8. CASE Close
  <2>1. sat' = sat
    BY <1>8, CloseFrame, Zenon
  <2>2. CASE CloseFlag
    BY <1>0, <2>1, <2>2, Zenon DEF CloseFlag, SubTypes, CloseSteps, subscribing
  <2>3. ASSUME NEW kind, kind \subseteq Subs, NEW from, NEW to, CloseSwap(kind, from, to),
               to \in CloseSteps
        PROVE  SubTypes'
    <3>1. /\ close' = to /\ closed' = closed /\ chan' = chan
          /\ map' = map \ kind /\ swept' = map \cap kind /\ stale' \subseteq stale \cup Subs
      BY <2>3, Swapped, Zenon
    <3> QED BY <1>0, <2>1, <2>3, <3>1, Zenon DEF SubTypes
  <2>4. ASSUME NEW from, NEW to, CloseShut(from, to), to \in CloseSteps PROVE SubTypes'
    <3>1. /\ close' = to /\ UNCHANGED <<closed, map, stale>> /\ swept' = {}
          /\ chan' = [s \in Subs |-> IF s \in swept THEN "shut" ELSE chan[s]]
      BY <2>4, Zenon DEF CloseShut, subscribing
    <3>2. chan' \in [Subs -> ChanStates]
      BY <1>0, <3>1, Zenon DEF SubTypes, ChanStates
    <3> QED BY <1>0, <2>1, <2>4, <3>1, <3>2, Zenon DEF SubTypes
  <2>5. Raw \subseteq Subs /\ Observers \subseteq Subs
    BY Zenon DEF Subs
  <2>6. {"shutting", "observers", "ending", "closed"} \subseteq CloseSteps
    BY Zenon DEF CloseSteps
  <2>7. CASE CloseSwap(Raw, "raw", "shutting") \/ CloseSwap(Observers, "observers", "ending")
    BY <2>3, <2>5, <2>6, <2>7, Zenon
  <2>8. CASE CloseShut("shutting", "observers") \/ CloseShut("ending", "closed")
    BY <2>4, <2>6, <2>8, Zenon
  <2> QED BY <1>8, <2>2, <2>7, <2>8, Zenon DEF Close
<1> QED BY <1>1, <1>2, <1>3, <1>4, <1>5, <1>6, <1>7, <1>8, Zenon DEF Next

LEMMA RawTypesKept ==
  ASSUME Types, Next
  PROVE  RawTypes'
<1>0. RawTypes /\ PublisherTypes
  BY Zenon DEF Types
<1>1. ASSUME UNCHANGED <<buffer, dropped, gone>> PROVE RawTypes'
  BY <1>0, <1>1, Zenon DEF RawTypes
<1>2. ASSUME NEW p \in Threads, NEW s \in Raw, Send(p, s) PROVE RawTypes'
  <2>1. dropped' = dropped /\ \/ buffer' = buffer /\ gone' = gone
                              \/ /\ pat[p] = "sending" /\ Len(buffer[s]) < Capacity /\ gone' = gone
                                 /\ buffer' = [buffer EXCEPT ![s] = Append(@, Head(msgs[p]))]
                              \/ buffer' = buffer /\ gone' = [gone EXCEPT ![s] = @ + 1]
    BY <1>2, Zenon DEF Send
  <2>2. CASE buffer' = buffer /\ gone' = gone
    BY <1>1, <2>1, <2>2, Zenon
  <2>3. CASE buffer' = buffer /\ gone' = [gone EXCEPT ![s] = @ + 1]
    <3>1. gone[s] + 1 \in Int
      BY <1>0 DEF RawTypes
    <3> QED BY <1>0, <2>1, <2>3, <3>1, Zenon DEF RawTypes
  <2>4. CASE /\ pat[p] = "sending" /\ Len(buffer[s]) < Capacity /\ gone' = gone
             /\ buffer' = [buffer EXCEPT ![s] = Append(@, Head(msgs[p]))]
    <3>1. msgs[p] \in Seq(Messages) /\ msgs[p] # <<>> /\ buffer[s] \in Seq(Messages)
      BY <1>0, <2>4, Zenon DEF RawTypes, PublisherTypes
    <3> DEFINE longer == Append(buffer[s], Head(msgs[p]))
    <3>2. longer \in Seq(Messages) /\ Len(longer) <= Capacity
      BY <2>4, <3>1, BusAssumption
    <3> HIDE DEF longer
    <3>3. buffer' = [buffer EXCEPT ![s] = longer]
      BY <2>4, Zenon DEF longer
    <3>4. buffer'[s] = longer /\ \A t \in Raw : t # s => buffer'[t] = buffer[t]
      BY <1>0, <3>3, Zenon DEF RawTypes
    <3> QED BY <1>0, <2>1, <2>4, <3>2, <3>3, <3>4, Zenon DEF RawTypes
  <2> QED BY <2>1, <2>2, <2>3, <2>4, Zenon
<1>3. ASSUME NEW p \in Threads, NEW s \in Raw, Count(p, s) PROVE RawTypes'
  <2>1. dropped' = [dropped EXCEPT ![s] = @ + 1] /\ buffer' = buffer /\ gone' = gone
    BY <1>3, Zenon DEF Count
  <2>2. dropped[s] + 1 \in Nat
    BY <1>0 DEF RawTypes
  <2> QED BY <1>0, <2>1, <2>2, Zenon DEF RawTypes
<1>4. ASSUME NEW p \in Threads, Publish(p) PROVE RawTypes'
  <2>1. CASE Check(p) \/ LoadObservers(p) \/ PublishRaw(p)
    BY <1>1, <2>1, Zenon DEF Check, LoadObservers, PublishRaw
  <2>2. CASE PruneObservers(p) \/ PruneRaw(p)
    BY <1>1, <2>2, Zenon DEF PruneObservers, Prune, PruneRaw
  <2>3. ASSUME NEW s \in Observers, Deliver(p, s) \/ Wake(p, s) PROVE RawTypes'
    BY <1>1, <2>3, Zenon DEF Deliver, Wake
  <2> QED BY <1>2, <1>3, <1>4, <2>1, <2>2, <2>3, Zenon DEF Publish
<1>5. ASSUME NEW s \in Subs, RecvRaw(s) PROVE RawTypes'
  <2>1. /\ s \in Raw /\ UNCHANGED <<dropped, gone>>
        /\ buffer' = [buffer EXCEPT ![s] = IF @ = <<>> THEN @ ELSE Tail(@)]
    BY <1>5, Zenon DEF RecvRaw
  <2> DEFINE shorter == IF buffer[s] = <<>> THEN buffer[s] ELSE Tail(buffer[s])
  <2>2. buffer[s] \in Seq(Messages) /\ Len(buffer[s]) <= Capacity
    BY <1>0, <2>1, Zenon DEF RawTypes
  <2>3. shorter \in Seq(Messages) /\ Len(shorter) <= Capacity
    BY <2>2, BusAssumption
  <2>4. buffer' = [buffer EXCEPT ![s] = shorter]
    BY <2>1, Zenon
  <2> HIDE DEF shorter
  <2>5. buffer'[s] = shorter /\ \A t \in Raw : t # s => buffer'[t] = buffer[t]
    BY <1>0, <2>1, <2>4, Zenon DEF RawTypes
  <2> QED BY <1>0, <2>1, <2>3, <2>4, <2>5, Zenon DEF RawTypes
<1>6. ASSUME NEW s \in Subs, Reset(s) PROVE RawTypes'
  <2>1. /\ s \in Raw /\ buffer' = buffer /\ gone' = [gone EXCEPT ![s] = @ - dropped[s]]
        /\ dropped' = [dropped EXCEPT ![s] = 0]
    BY <1>6, Zenon DEF Reset
  <2>2. gone[s] - dropped[s] \in Int /\ 0 \in Nat
    BY <1>0, <2>1 DEF RawTypes
  <2> QED BY <1>0, <2>1, <2>2, Zenon DEF RawTypes
<1>7. ASSUME NEW s \in Subs, Subscribe(s) PROVE RawTypes'
  BY <1>1, <1>7, SubscribeFrame, Zenon
<1>8. ASSUME NEW s \in Subs, Consume(s) PROVE RawTypes'
  BY <1>1, <1>8, ConsumeFrame, Zenon
<1>9. ASSUME NEW s \in Subs, Drop(s) \/ Unsubscribe(s) PROVE RawTypes'
  BY <1>1, <1>9, LeaveFrame, Zenon
<1>10. ASSUME NEW p \in Threads, NEW batch \in Batches, Commit(p, batch) PROVE RawTypes'
  BY <1>1, <1>10, CommitFrame, Zenon
<1>11. CASE Close
  BY <1>1, <1>11, CloseFrame, Zenon
<1> QED BY <1>4, <1>5, <1>6, <1>7, <1>8, <1>9, <1>10, <1>11, Zenon DEF Next

\* What an observer wants are documents, and what it has pending is what it wants.
LEMMA WantsDocs ==
  ASSUME NEW s \in Observers
  PROVE  s \in Subs /\ s \notin Raw /\ Wants[s] \subseteq Docs
<1>1. s \in Subs /\ s \notin Raw
  BY BusAssumption, Zenon DEF Subs
<1>2. Wants[s] \in SUBSET Messages /\ Other \notin Wants[s]
  BY <1>1, BusAssumption, Zenon
<1> QED BY <1>1, <1>2, Zenon DEF Messages

LEMMA CoalescedTypes ==
  ASSUME ObserverTypes, NEW s \in Observers, NEW batch
  PROVE  /\ Coalesced(s, batch).docs \subseteq Wants[s]
         /\ Cardinality(Coalesced(s, batch).docs) <= Capacity
         /\ Coalesced(s, batch).resync \in BOOLEAN
         /\ \/ Coalesced(s, batch).resync
            \/ ~resync[s] /\ Coalesced(s, batch).docs = pending[s] \cup (Range(batch) \cap Wants[s])
<1> DEFINE all == pending[s] \cup Mine(s, batch)
<1> DEFINE over == resync[s] \/ Cardinality(all) > Capacity
<1>1. /\ Coalesced(s, batch).docs = IF over THEN {} ELSE all
      /\ Coalesced(s, batch).resync = over
  BY DEF Coalesced
<1>2. all = pending[s] \cup (Range(batch) \cap Wants[s]) /\ all \subseteq Wants[s]
  BY Zenon DEF ObserverTypes, Mine
<1>3. IsFiniteSet(all)
  BY <1>2, WantsDocs, BusAssumption, FS_Subset, Zenon
<1>4. Cardinality(all) \in Nat /\ Cardinality({}) = 0
  BY <1>3, FS_CardinalityType, FS_EmptySet, Zenon
<1> HIDE DEF all
<1>5. ~over => Cardinality(all) <= Capacity
  BY <1>4, BusAssumption
<1>6. Cardinality({}) <= Capacity /\ over \in BOOLEAN
  BY <1>4, BusAssumption
<1> HIDE DEF over
<1>7. CASE over
  BY <1>1, <1>6, <1>7, Zenon
<1>8. CASE ~over
  <2>1. ~resync[s]
    BY <1>8, Zenon DEF over
  <2> QED BY <1>1, <1>2, <1>5, <1>6, <1>8, <2>1, Zenon
<1> QED BY <1>7, <1>8, Zenon

\* What a delivery to an observer does.
LEMMA Delivers ==
  ASSUME PublisherTypes, ObserverTypes, NEW p \in Threads, NEW s \in Observers, Deliver(p, s)
  PROVE  /\ pat[p] = "observing" /\ s \in todo[p] /\ UNCHANGED <<msgs, chan, wake>>
         /\ \A t \in Observers : t # s => pending'[t] = pending[t] /\ resync'[t] = resync[t]
         /\ \/ /\ chan[s] = "shut" /\ UNCHANGED <<pending, resync, pat>>
               /\ dead' = [dead EXCEPT ![p] = @ \cup {s}] /\ todo' = [todo EXCEPT ![p] = @ \ {s}]
            \/ /\ chan[s] # "shut" /\ Range(msgs[p]) \cap Wants[s] = {}
               /\ UNCHANGED <<pending, resync, pat, dead>> /\ todo' = [todo EXCEPT ![p] = @ \ {s}]
            \/ /\ chan[s] # "shut" /\ UNCHANGED <<dead, todo>> /\ pat' = [pat EXCEPT ![p] = s]
               /\ pending' = [pending EXCEPT ![s] = Coalesced(s, msgs[p]).docs]
               /\ resync' = [resync EXCEPT ![s] = Coalesced(s, msgs[p]).resync]
<1>1. /\ pat[p] = "observing" /\ s \in todo[p] /\ UNCHANGED <<msgs, chan, wake>>
      /\ \/ /\ chan[s] = "shut" /\ UNCHANGED <<pending, resync, pat>>
            /\ dead' = [dead EXCEPT ![p] = @ \cup {s}] /\ todo' = [todo EXCEPT ![p] = @ \ {s}]
         \/ /\ chan[s] # "shut" /\ Range(msgs[p]) \cap Wants[s] = {}
            /\ UNCHANGED <<pending, resync, pat, dead>> /\ todo' = [todo EXCEPT ![p] = @ \ {s}]
         \/ /\ chan[s] # "shut" /\ UNCHANGED <<dead, todo>> /\ pat' = [pat EXCEPT ![p] = s]
            /\ pending' = [pending EXCEPT ![s] = Coalesced(s, msgs[p]).docs]
            /\ resync' = [resync EXCEPT ![s] = Coalesced(s, msgs[p]).resync]
  BY Zenon DEF Deliver, Mine
<1>2. \A t \in Observers : t # s => pending'[t] = pending[t] /\ resync'[t] = resync[t]
  BY <1>1, Zenon DEF ObserverTypes
<1> QED BY <1>1, <1>2, Zenon

\* Taking the batch, and reading what it names.
LEMMA Takes ==
  ASSUME ObserverTypes, NEW s \in Observers, Take(s)
  PROVE  /\ cat[s] = "woken" /\ UNCHANGED <<wake, current>>
         /\ hand' = [hand EXCEPT ![s] = [docs |-> pending[s], resync |-> resync[s]]]
         /\ hand'[s].docs = pending[s] /\ hand'[s].resync = resync[s] /\ hand' \in [Observers -> Hands]
         /\ pending' = [pending EXCEPT ![s] = {}] /\ resync' = [resync EXCEPT ![s] = FALSE]
         /\ \/ cat' = [cat EXCEPT ![s] = "reading"]
            \/ cat' = [cat EXCEPT ![s] = "waiting"] /\ pending[s] = {} /\ resync[s] = FALSE
<1>1. /\ cat[s] = "woken" /\ UNCHANGED <<wake, current>>
      /\ hand' = [hand EXCEPT ![s] = [docs |-> pending[s], resync |-> resync[s]]]
      /\ pending' = [pending EXCEPT ![s] = {}] /\ resync' = [resync EXCEPT ![s] = FALSE]
      /\ cat' = [cat EXCEPT ![s] = IF pending[s] = {} /\ ~resync[s] THEN "waiting" ELSE "reading"]
  BY Zenon DEF Take
<1>2. pending[s] \in SUBSET Docs /\ resync[s] \in BOOLEAN
  BY Zenon DEF ObserverTypes
<1> DEFINE batch == [docs |-> pending[s], resync |-> resync[s]]
<1>3. batch \in Hands /\ batch.docs = pending[s] /\ batch.resync = resync[s]
  BY <1>2 DEF Hands
<1> HIDE DEF batch
<1>4. hand' = [hand EXCEPT ![s] = batch]
  BY <1>1, Zenon DEF batch
<1>5. hand' \in [Observers -> Hands] /\ hand'[s] = batch
  BY <1>3, <1>4, Zenon DEF ObserverTypes
<1>6. \/ cat' = [cat EXCEPT ![s] = "reading"]
      \/ cat' = [cat EXCEPT ![s] = "waiting"] /\ pending[s] = {} /\ resync[s] = FALSE
  BY <1>1, <1>2, Zenon
<1> QED BY <1>1, <1>3, <1>5, <1>6, Zenon

LEMMA Requeries ==
  ASSUME ObserverTypes, NEW s \in Observers, Requery(s)
  PROVE  /\ cat[s] = "reading" /\ cat' = [cat EXCEPT ![s] = "waiting"]
         /\ UNCHANGED <<pending, resync, wake>>
         /\ hand' = [hand EXCEPT ![s] = Nothing] /\ hand' \in [Observers -> Hands]
         /\ current' \in [Observers -> SUBSET Docs]
         /\ current[s] \subseteq current'[s]
         /\ IF hand[s].resync THEN Wants[s] \subseteq current'[s] ELSE hand[s].docs \subseteq current'[s]
         /\ \A t \in Observers : t # s => current'[t] = current[t]
<1>1. /\ cat[s] = "reading" /\ cat' = [cat EXCEPT ![s] = "waiting"]
      /\ UNCHANGED <<pending, resync, wake>>
      /\ hand' = [hand EXCEPT ![s] = Nothing]
      /\ current' = [current EXCEPT ![s] = @ \cup IF hand[s].resync THEN Wants[s] ELSE hand[s].docs]
  BY Zenon DEF Requery
<1>2. hand[s].docs \subseteq Docs /\ hand[s].resync \in BOOLEAN /\ Nothing \in Hands
  BY DEF ObserverTypes, Hands, Nothing
<1>3. Wants[s] \subseteq Docs
  BY WantsDocs, Zenon
<1> DEFINE seen == IF hand[s].resync THEN Wants[s] ELSE hand[s].docs
<1>4. seen \subseteq Docs /\ (hand[s].resync => seen = Wants[s]) /\ (~hand[s].resync => seen = hand[s].docs)
  BY <1>2, <1>3, Zenon
<1> HIDE DEF seen
<1>5. current' = [current EXCEPT ![s] = @ \cup seen]
  BY <1>1, Zenon DEF seen
<1>6. /\ current'[s] = current[s] \cup seen /\ current' \in [Observers -> SUBSET Docs]
      /\ \A t \in Observers : t # s => current'[t] = current[t]
  BY <1>4, <1>5, Zenon DEF ObserverTypes
<1>7. hand' \in [Observers -> Hands]
  BY <1>1, <1>2, Zenon DEF ObserverTypes
<1>8. /\ current[s] \subseteq current'[s]
      /\ IF hand[s].resync THEN Wants[s] \subseteq current'[s] ELSE hand[s].docs \subseteq current'[s]
  BY <1>4, <1>6, Zenon
<1> QED BY <1>1, <1>6, <1>7, <1>8, Zenon

LEMMA ObserverTypesKept ==
  ASSUME Types, Next
  PROVE  ObserverTypes'
<1>0. ObserverTypes /\ PublisherTypes
  BY Zenon DEF Types
<1>1. ASSUME UNCHANGED <<pending, resync, wake, hand, current>>, cat' \in [Subs -> CatSteps]
      PROVE  ObserverTypes'
  BY <1>0, <1>1, Zenon DEF ObserverTypes
<1>2. cat \in [Subs -> CatSteps]
  BY <1>0, Zenon DEF ObserverTypes
<1>3. ASSUME NEW s \in Subs, Subscribe(s) PROVE ObserverTypes'
  <2>1. UNCHANGED <<pending, resync, wake, hand, current>>
    BY <1>3, SubscribeFrame, Zenon
  <2>2. cat' \in [Subs -> CatSteps]
    BY <1>2, <1>3, Zenon DEF Subscribe, Look, Read, Insert, consuming, CatSteps
  <2> QED BY <1>1, <2>1, <2>2, Zenon
<1>4. ASSUME NEW p \in Threads, NEW batch \in Batches, Commit(p, batch) PROVE ObserverTypes'
  <2>1. current' = [s \in Observers |-> current[s] \ Range(batch)]
    BY <1>4, Zenon DEF Commit
  <2>2. current' \in [Observers -> SUBSET Docs]
    BY <1>0, <2>1, Zenon DEF ObserverTypes
  <2> QED BY <1>0, <1>4, <2>2, CommitFrame, Zenon DEF ObserverTypes
<1>5. ASSUME NEW p \in Threads, Publish(p) PROVE ObserverTypes'
  <2>1. UNCHANGED <<cat, hand, current>>
    BY <1>5, PublishFrame, Zenon
  <2>2. ASSUME NEW s \in Observers, Deliver(p, s) PROVE ObserverTypes'
    <3>1. /\ wake' = wake
          /\ \/ UNCHANGED <<pending, resync>>
             \/ /\ pending' = [pending EXCEPT ![s] = Coalesced(s, msgs[p]).docs]
                /\ resync' = [resync EXCEPT ![s] = Coalesced(s, msgs[p]).resync]
      BY <1>0, <2>2, Delivers, Zenon
    <3>2. CASE UNCHANGED <<pending, resync>>
      BY <1>1, <1>2, <2>1, <3>1, <3>2, Zenon
    <3>3. CASE /\ pending' = [pending EXCEPT ![s] = Coalesced(s, msgs[p]).docs]
               /\ resync' = [resync EXCEPT ![s] = Coalesced(s, msgs[p]).resync]
      <4> DEFINE docs == Coalesced(s, msgs[p]).docs
      <4>1. /\ docs \subseteq Wants[s] /\ Cardinality(docs) <= Capacity
            /\ Coalesced(s, msgs[p]).resync \in BOOLEAN
        BY <1>0, CoalescedTypes, Zenon
      <4> HIDE DEF docs
      <4>2. resync' \in [Observers -> BOOLEAN] /\ pending' = [pending EXCEPT ![s] = docs]
        BY <1>0, <3>3, <4>1, Zenon DEF ObserverTypes, docs
      <4>3. docs \in SUBSET Docs
        BY <4>1, WantsDocs, Zenon
      <4>4. /\ pending' \in [Observers -> SUBSET Docs] /\ pending'[s] = docs
            /\ \A t \in Observers : t # s => pending'[t] = pending[t]
        BY <1>0, <4>2, <4>3, Zenon DEF ObserverTypes
      <4> QED BY <1>0, <2>1, <3>1, <4>1, <4>2, <4>4, Zenon DEF ObserverTypes
    <3> QED BY <3>1, <3>2, <3>3, Zenon
  <2>3. ASSUME NEW s \in Observers, Wake(p, s) PROVE ObserverTypes'
    <3>1. /\ wake' = [wake EXCEPT ![s] = @ \/ chan[s] = "open"]
          /\ UNCHANGED <<pending, resync>>
      BY <2>3, Zenon DEF Wake
    <3>2. wake' \in [Observers -> BOOLEAN]
      BY <1>0, <3>1, Zenon DEF ObserverTypes
    <3> QED BY <1>0, <2>1, <3>1, <3>2, Zenon DEF ObserverTypes
  <2>4. CASE ~\E s \in Observers : Deliver(p, s) \/ Wake(p, s)
    <3>1. UNCHANGED <<pending, resync>>
      BY <1>5, <2>4, PendingFrame, Zenon
    <3>2. wake' = wake
      BY <1>5, <2>4, WakeFrame, Zenon
    <3> QED BY <1>1, <1>2, <2>1, <3>1, <3>2, Zenon
  <2> QED BY <2>2, <2>3, <2>4, Zenon
<1>6. ASSUME NEW s \in Observers, Load(s) PROVE ObserverTypes'
  <2>1. /\ UNCHANGED <<pending, resync, wake, hand>>
        /\ current' = [current EXCEPT ![s] = Wants[s]] /\ cat' = [cat EXCEPT ![s] = "waiting"]
    BY <1>6, Zenon DEF Load
  <2>2. Wants[s] \in SUBSET Docs
    BY WantsDocs, Zenon
  <2> QED BY <1>0, <2>1, <2>2, Zenon DEF ObserverTypes, CatSteps
<1>7. ASSUME NEW s \in Observers, Recv(s) PROVE ObserverTypes'
  <2>1. /\ UNCHANGED <<pending, resync, hand, current>> /\ wake' = [wake EXCEPT ![s] = FALSE]
        /\ cat' = [cat EXCEPT ![s] = IF wake[s] THEN "woken" ELSE "over"]
    BY <1>7, Zenon DEF Recv
  <2>2. cat' \in [Subs -> CatSteps] /\ wake' \in [Observers -> BOOLEAN]
    BY <1>0, <2>1, Zenon DEF ObserverTypes, CatSteps
  <2> QED BY <1>0, <2>1, <2>2, Zenon DEF ObserverTypes
<1>8. ASSUME NEW s \in Observers, Take(s) PROVE ObserverTypes'
  <2>1. /\ UNCHANGED <<wake, current>> /\ hand' \in [Observers -> Hands]
        /\ pending' = [pending EXCEPT ![s] = {}] /\ resync' = [resync EXCEPT ![s] = FALSE]
        /\ \/ cat' = [cat EXCEPT ![s] = "reading"] \/ cat' = [cat EXCEPT ![s] = "waiting"]
    BY <1>0, <1>8, Takes, Zenon
  <2>2. Cardinality({}) <= Capacity
    BY FS_EmptySet, BusAssumption
  <2>3. cat' \in [Subs -> CatSteps] /\ resync' \in [Observers -> BOOLEAN]
    BY <1>0, <2>1, Zenon DEF ObserverTypes, CatSteps
  <2>4. /\ pending' \in [Observers -> SUBSET Docs] /\ pending'[s] = {}
        /\ \A t \in Observers : t # s => pending'[t] = pending[t]
    BY <1>0, <2>1, Zenon DEF ObserverTypes
  <2> QED BY <1>0, <2>1, <2>2, <2>3, <2>4, Zenon DEF ObserverTypes
<1>9. ASSUME NEW s \in Observers, Requery(s) PROVE ObserverTypes'
  <2>1. /\ UNCHANGED <<pending, resync, wake>> /\ hand' \in [Observers -> Hands]
        /\ current' \in [Observers -> SUBSET Docs] /\ cat' = [cat EXCEPT ![s] = "waiting"]
    BY <1>0, <1>9, Requeries, Zenon
  <2> QED BY <1>0, <2>1, Zenon DEF ObserverTypes, CatSteps
<1>10. ASSUME NEW s \in Subs, RecvRaw(s) \/ Reset(s) PROVE ObserverTypes'
  <2>1. UNCHANGED <<pending, resync, wake, hand, current>>
    BY <1>10, ReceiveFrame, Zenon
  <2>2. cat' \in [Subs -> CatSteps]
    BY <1>2, <1>10, Zenon DEF RecvRaw, Reset, consuming, CatSteps
  <2> QED BY <1>1, <2>1, <2>2, Zenon
<1>11. ASSUME NEW s \in Subs, Drop(s) \/ Unsubscribe(s) PROVE ObserverTypes'
  <2>1. UNCHANGED <<pending, resync, wake, hand, current>>
    BY <1>11, LeaveFrame, Zenon
  <2>2. cat' \in [Subs -> CatSteps]
    BY <1>2, <1>11, Zenon DEF Drop, Unsubscribe, consuming, CatSteps
  <2> QED BY <1>1, <2>1, <2>2, Zenon
<1>12. CASE Close
  BY <1>1, <1>2, <1>12, CloseFrame, Zenon
<1> QED BY <1>3, <1>4, <1>5, <1>6, <1>7, <1>8, <1>9, <1>10, <1>11, <1>12, Zenon DEF Next, Consume

LEMMA PublisherTypesKept ==
  ASSUME Types, Next
  PROVE  PublisherTypes'
<1>0. PublisherTypes /\ SubTypes /\ ObserverTypes /\ RawTypes
  BY Zenon DEF Types
<1>1. ASSUME UNCHANGED <<pat, msgs, todo, dead, commits>> PROVE PublisherTypes'
  BY <1>0, <1>1, Zenon DEF PublisherTypes
<1>2. /\ Subs \cap {"idle", "checking", "loading", "observing", "raw", "sending"} = {}
      /\ Raw \subseteq Subs /\ Observers \subseteq Subs /\ Raw \cap Observers = {}
  BY BusAssumption, Zenon DEF Subs
<1>3. ASSUME NEW p \in Threads, NEW to \in PatSteps, pat' = [pat EXCEPT ![p] = to],
             msgs' \in [Threads -> Seq(Messages)], \A q \in Threads : q # p => msgs'[q] = msgs[q],
             to \in {"sending"} \cup Raw => msgs'[p] # <<>>,
             todo' \in [Threads -> SUBSET Subs], dead' \in [Threads -> SUBSET Subs],
             commits' \in 0 .. MaxCommits
      PROVE  PublisherTypes'
  <2>1. /\ pat' \in [Threads -> PatSteps] /\ pat'[p] = to
        /\ \A q \in Threads : q # p => pat'[q] = pat[q]
    BY <1>0, <1>3, Zenon DEF PublisherTypes
  <2>2. ASSUME NEW q \in Threads, pat'[q] \in {"sending"} \cup Raw PROVE msgs'[q] # <<>>
    BY <1>0, <1>3, <2>1, <2>2, Zenon DEF PublisherTypes
  <2> QED BY <1>3, <2>1, <2>2, Zenon DEF PublisherTypes
<1>4. ASSUME NEW p \in Threads, NEW batch \in Batches, Commit(p, batch) PROVE PublisherTypes'
  <2>1. /\ pat' = [pat EXCEPT ![p] = "checking"] /\ msgs' = [msgs EXCEPT ![p] = batch]
        /\ UNCHANGED <<todo, dead>>
    BY <1>4, Zenon DEF Commit, Go
  <2>2. commits' \in 0 .. MaxCommits
    BY <1>0, <1>4, BusAssumption DEF Commit, PublisherTypes
  <2>3. batch \in Seq(Messages) /\ "checking" \in PatSteps /\ "checking" \notin {"sending"} \cup Raw
    BY <1>2, BusAssumption, Zenon DEF PatSteps
  <2>4. msgs' \in [Threads -> Seq(Messages)] /\ \A q \in Threads : q # p => msgs'[q] = msgs[q]
    BY <1>0, <2>1, <2>3, Zenon DEF PublisherTypes
  <2>5. todo' \in [Threads -> SUBSET Subs] /\ dead' \in [Threads -> SUBSET Subs]
    BY <1>0, <2>1, Zenon DEF PublisherTypes
  <2> QED BY <1>3, <2>1, <2>2, <2>3, <2>4, <2>5, Zenon
<1>5. ASSUME NEW p \in Threads, NEW to, Go(p, pat[p], to), to \in PatSteps, msgs' = msgs,
             to \in {"sending"} \cup Raw => msgs[p] # <<>>,
             todo' \in [Threads -> SUBSET Subs], dead' \in [Threads -> SUBSET Subs],
             commits' = commits
      PROVE  PublisherTypes'
  <2>1. /\ msgs' \in [Threads -> Seq(Messages)] /\ \A q \in Threads : q # p => msgs'[q] = msgs[q]
        /\ commits' \in 0 .. MaxCommits /\ pat' = [pat EXCEPT ![p] = to]
        /\ to \in {"sending"} \cup Raw => msgs'[p] # <<>>
    BY <1>0, <1>5, Zenon DEF PublisherTypes, Go
  <2> QED BY <1>3, <1>5, <2>1, Zenon
<1>6. ASSUME NEW p \in Threads, Publish(p) PROVE PublisherTypes'
  <2>0. commits' = commits
    BY <1>6, PublishFrame, Zenon
  <2>t. todo \in [Threads -> SUBSET Subs] /\ dead \in [Threads -> SUBSET Subs]
    BY <1>0, Zenon DEF PublisherTypes
  <2>1. CASE Check(p)
    <3> DEFINE to == IF closed THEN "idle" ELSE "loading"
    <3>1. /\ pat' = [pat EXCEPT ![p] = to] /\ msgs' = [msgs EXCEPT ![p] = IF closed THEN <<>> ELSE @]
          /\ UNCHANGED <<todo, dead>>
      BY <2>1, Zenon DEF Check, Go
    <3>2. to \in PatSteps /\ to \notin {"sending"} \cup Raw
      BY <1>2, Zenon DEF PatSteps
    <3>3. <<>> \in Seq(Messages) /\ commits' \in 0 .. MaxCommits
      BY <1>0, <2>0 DEF PublisherTypes
    <3>4. msgs' \in [Threads -> Seq(Messages)] /\ \A q \in Threads : q # p => msgs'[q] = msgs[q]
      BY <1>0, <3>1, <3>3, Zenon DEF PublisherTypes
    <3> HIDE DEF to
    <3> QED BY <1>3, <2>t, <3>1, <3>2, <3>3, <3>4, Zenon
  <2>2. CASE LoadObservers(p)
    <3>1. /\ Go(p, pat[p], "observing") /\ UNCHANGED <<msgs, dead>>
          /\ todo' = [todo EXCEPT ![p] = map \cap Observers]
      BY <2>2, Zenon DEF LoadObservers, Go
    <3>2. todo' \in [Threads -> SUBSET Subs] /\ dead' \in [Threads -> SUBSET Subs]
      BY <1>2, <2>t, <3>1, Zenon
    <3>3. "observing" \in PatSteps /\ "observing" \notin {"sending"} \cup Raw
      BY <1>2, Zenon DEF PatSteps
    <3> QED BY <1>5, <2>0, <3>1, <3>2, <3>3, Zenon
  <2>3. ASSUME NEW s \in Observers, Deliver(p, s) PROVE PublisherTypes'
    <3>1. /\ pat[p] = "observing" /\ msgs' = msgs
          /\ dead' = dead \/ dead' = [dead EXCEPT ![p] = @ \cup {s}]
          /\ todo' = todo \/ todo' = [todo EXCEPT ![p] = @ \ {s}]
          /\ pat' = pat \/ pat' = [pat EXCEPT ![p] = s]
      BY <2>3, Zenon DEF Deliver
    <3>2. todo' \in [Threads -> SUBSET Subs] /\ dead' \in [Threads -> SUBSET Subs]
      <4>1. dead[p] \cup {s} \in SUBSET Subs /\ todo[p] \ {s} \in SUBSET Subs
        BY <1>2, <2>t, Zenon
      <4>2. todo' = todo \/ todo' = [todo EXCEPT ![p] = todo[p] \ {s}]
        BY <3>1, Zenon
      <4>3. dead' = dead \/ dead' = [dead EXCEPT ![p] = dead[p] \cup {s}]
        BY <3>1, Zenon
      <4>4. todo' \in [Threads -> SUBSET Subs]
        BY <2>t, <4>1, <4>2, Zenon
      <4>5. dead' \in [Threads -> SUBSET Subs]
        BY <2>t, <4>1, <4>3, Zenon
      <4> QED BY <4>4, <4>5, Zenon
    <3>3. CASE pat' = pat
      BY <1>0, <2>0, <3>1, <3>2, <3>3, Zenon DEF PublisherTypes
    <3>4. CASE pat' = [pat EXCEPT ![p] = s]
      <4>1. s \in PatSteps /\ s \notin {"sending"} \cup Raw /\ Go(p, pat[p], s)
        BY <1>2, <3>4, Zenon DEF PatSteps, Go
      <4> QED BY <1>5, <2>0, <3>1, <3>2, <4>1, Zenon
    <3> QED BY <3>1, <3>3, <3>4, Zenon
  <2>4. ASSUME NEW s \in Observers, Wake(p, s) PROVE PublisherTypes'
    <3>1. /\ Go(p, pat[p], "observing") /\ UNCHANGED <<msgs, dead>>
          /\ todo' = [todo EXCEPT ![p] = @ \ {s}]
      BY <2>4, Zenon DEF Wake, Go
    <3>2. todo' \in [Threads -> SUBSET Subs] /\ dead' \in [Threads -> SUBSET Subs]
      BY <2>t, <3>1, Zenon
    <3>3. "observing" \in PatSteps /\ "observing" \notin {"sending"} \cup Raw
      BY <1>2, Zenon DEF PatSteps
    <3> QED BY <1>5, <2>0, <3>1, <3>2, <3>3, Zenon
  <2>5. CASE PruneObservers(p)
    <3>1. /\ Go(p, pat[p], "raw") /\ UNCHANGED <<msgs, todo>> /\ dead' = [dead EXCEPT ![p] = {}]
      BY <2>5, Zenon DEF PruneObservers, Prune, Go
    <3>2. todo' \in [Threads -> SUBSET Subs] /\ dead' \in [Threads -> SUBSET Subs]
      BY <2>t, <3>1, Zenon
    <3>3. "raw" \in PatSteps /\ "raw" \notin {"sending"} \cup Raw
      BY <1>2, Zenon DEF PatSteps
    <3> QED BY <1>5, <2>0, <3>1, <3>2, <3>3, Zenon
  <2>6. CASE PublishRaw(p) /\ (closed \/ msgs[p] = <<>>)
    <3>1. /\ pat' = [pat EXCEPT ![p] = "idle"] /\ msgs' = [msgs EXCEPT ![p] = <<>>]
          /\ UNCHANGED <<todo, dead>>
      BY <2>6, Zenon DEF PublishRaw
    <3>2. "idle" \in PatSteps /\ "idle" \notin {"sending"} \cup Raw
      BY <1>2, Zenon DEF PatSteps
    <3>3. <<>> \in Seq(Messages) /\ commits' \in 0 .. MaxCommits
      BY <1>0, <2>0 DEF PublisherTypes
    <3>4. msgs' \in [Threads -> Seq(Messages)] /\ \A q \in Threads : q # p => msgs'[q] = msgs[q]
      BY <1>0, <3>1, <3>3, Zenon DEF PublisherTypes
    <3> QED BY <1>3, <2>t, <3>1, <3>2, <3>3, <3>4, Zenon
  <2>7. CASE PublishRaw(p) /\ ~(closed \/ msgs[p] = <<>>)
    <3>1. /\ Go(p, pat[p], "sending") /\ UNCHANGED <<msgs, dead>> /\ msgs[p] # <<>>
          /\ todo' = [todo EXCEPT ![p] = {s \in map \cap Raw : Head(msgs[p]) \in Wants[s]}]
      BY <2>7, Zenon DEF PublishRaw, Go
    <3>2. todo' \in [Threads -> SUBSET Subs] /\ dead' \in [Threads -> SUBSET Subs]
      BY <1>2, <2>t, <3>1, Zenon
    <3>3. "sending" \in PatSteps
      BY Zenon DEF PatSteps
    <3> QED BY <1>5, <2>0, <3>1, <3>2, <3>3, Zenon
  <2>8. ASSUME NEW s \in Raw, Send(p, s) PROVE PublisherTypes'
    <3>1. /\ pat[p] = "sending" /\ msgs' = msgs
          /\ dead' = dead \/ dead' = [dead EXCEPT ![p] = @ \cup {s}]
          /\ todo' = todo \/ todo' = [todo EXCEPT ![p] = @ \ {s}]
          /\ pat' = pat \/ pat' = [pat EXCEPT ![p] = s]
      BY <2>8, Zenon DEF Send
    <3>2. todo' \in [Threads -> SUBSET Subs] /\ dead' \in [Threads -> SUBSET Subs]
      <4>1. dead[p] \cup {s} \in SUBSET Subs /\ todo[p] \ {s} \in SUBSET Subs
        BY <1>2, <2>t, Zenon
      <4>2. todo' = todo \/ todo' = [todo EXCEPT ![p] = todo[p] \ {s}]
        BY <3>1, Zenon
      <4>3. dead' = dead \/ dead' = [dead EXCEPT ![p] = dead[p] \cup {s}]
        BY <3>1, Zenon
      <4>4. todo' \in [Threads -> SUBSET Subs]
        BY <2>t, <4>1, <4>2, Zenon
      <4>5. dead' \in [Threads -> SUBSET Subs]
        BY <2>t, <4>1, <4>3, Zenon
      <4> QED BY <4>4, <4>5, Zenon
    <3>3. CASE pat' = pat
      BY <1>0, <2>0, <3>1, <3>2, <3>3, Zenon DEF PublisherTypes
    <3>4. CASE pat' = [pat EXCEPT ![p] = s]
      <4>1. s \in PatSteps /\ msgs[p] # <<>> /\ Go(p, pat[p], s)
        BY <1>0, <1>2, <3>1, <3>4, Zenon DEF PatSteps, Go, PublisherTypes
      <4> QED BY <1>5, <2>0, <3>1, <3>2, <4>1, Zenon
    <3> QED BY <3>1, <3>3, <3>4, Zenon
  <2>9. ASSUME NEW s \in Raw, Count(p, s) PROVE PublisherTypes'
    <3>1. /\ Go(p, pat[p], "sending") /\ UNCHANGED <<msgs, dead>> /\ pat[p] = s
          /\ todo' = [todo EXCEPT ![p] = @ \ {s}]
      BY <2>9, Zenon DEF Count, Go
    <3>2. todo' \in [Threads -> SUBSET Subs] /\ dead' \in [Threads -> SUBSET Subs]
      BY <2>t, <3>1, Zenon
    <3>3. "sending" \in PatSteps /\ msgs[p] # <<>>
      BY <1>0, <3>1, Zenon DEF PatSteps, PublisherTypes
    <3> QED BY <1>5, <2>0, <3>1, <3>2, <3>3, Zenon
  <2>10. CASE PruneRaw(p)
    <3>1. /\ pat[p] = "sending" /\ pat' = [pat EXCEPT ![p] = "raw"]
          /\ msgs' = [msgs EXCEPT ![p] = Tail(@)]
          /\ todo' = todo /\ dead' = [dead EXCEPT ![p] = {}]
      BY <2>10, Zenon DEF PruneRaw, Go
    <3>2. todo' \in [Threads -> SUBSET Subs] /\ dead' \in [Threads -> SUBSET Subs]
      BY <2>t, <3>1, Zenon
    <3>3. "raw" \in PatSteps /\ "raw" \notin {"sending"} \cup Raw
      BY <1>2, Zenon DEF PatSteps
    <3>4. msgs[p] \in Seq(Messages) /\ msgs[p] # <<>>
      BY <1>0, <3>1, Zenon DEF PublisherTypes
    <3>5. Tail(msgs[p]) \in Seq(Messages)
      BY <3>4
    <3>6. msgs' \in [Threads -> Seq(Messages)] /\ \A q \in Threads : q # p => msgs'[q] = msgs[q]
      BY <1>0, <3>1, <3>5, Zenon DEF PublisherTypes
    <3>7. commits' \in 0 .. MaxCommits
      BY <1>0, <2>0, Zenon DEF PublisherTypes
    <3> QED BY <1>3, <3>1, <3>2, <3>3, <3>6, <3>7, Zenon
  <2> QED BY <1>6, <2>1, <2>2, <2>3, <2>4, <2>5, <2>6, <2>7, <2>8, <2>9, <2>10, Zenon DEF Publish
<1>7. ASSUME NEW s \in Subs, Subscribe(s) PROVE PublisherTypes'
  BY <1>1, <1>7, SubscribeFrame, Zenon
<1>8. ASSUME NEW s \in Subs, Consume(s) PROVE PublisherTypes'
  BY <1>1, <1>8, ConsumeFrame, Zenon
<1>9. ASSUME NEW s \in Subs, RecvRaw(s) \/ Reset(s) PROVE PublisherTypes'
  BY <1>1, <1>9, ReceiveFrame, Zenon
<1>10. ASSUME NEW s \in Subs, Drop(s) \/ Unsubscribe(s) PROVE PublisherTypes'
  BY <1>1, <1>10, LeaveFrame, Zenon
<1>11. CASE Close
  BY <1>1, <1>11, CloseFrame, Zenon
<1> QED BY <1>4, <1>6, <1>7, <1>8, <1>9, <1>10, <1>11, Zenon DEF Next

-----------------------------------------------------------------------------
(* Who has subscribed, and who holds an open channel. *)

\* The steps of a publisher, as far as subscribers are concerned.
LEMMA PublisherSees ==
  ASSUME Types, NEW p \in Threads, Publish(p)
  PROVE  /\ \A q \in Threads : \A s \in dead'[q] : s \in dead[q] \/ chan[s] = "shut"
         /\ \A q \in Threads : \A s \in todo'[q] : s \in todo[q] \/ s \in map
<1>0. PublisherTypes /\ ObserverTypes
  BY Zenon DEF Types
<1>1. todo \in [Threads -> SUBSET Subs] /\ dead \in [Threads -> SUBSET Subs]
  BY <1>0, Zenon DEF PublisherTypes
<1>2. ASSUME NEW s \in Subs, dead' = dead \/ (chan[s] = "shut" /\ dead' = [dead EXCEPT ![p] = @ \cup {s}])
      PROVE  \A q \in Threads : \A u \in dead'[q] : u \in dead[q] \/ chan[u] = "shut"
  BY <1>1, <1>2, Zenon
<1>3. ASSUME NEW s \in Subs, todo' = todo \/ todo' = [todo EXCEPT ![p] = @ \ {s}]
      PROVE  \A q \in Threads : \A u \in todo'[q] : u \in todo[q] \/ u \in map
  BY <1>1, <1>3, Zenon
<1>4. ASSUME NEW s \in Observers, Deliver(p, s)
      PROVE  /\ \A q \in Threads : \A u \in dead'[q] : u \in dead[q] \/ chan[u] = "shut"
             /\ \A q \in Threads : \A u \in todo'[q] : u \in todo[q] \/ u \in map
  <2>1. s \in Subs
    BY Zenon DEF Subs
  <2>2. dead' = dead \/ (chan[s] = "shut" /\ dead' = [dead EXCEPT ![p] = @ \cup {s}])
    BY <1>4, Zenon DEF Deliver
  <2>3. todo' = todo \/ todo' = [todo EXCEPT ![p] = @ \ {s}]
    BY <1>4, Zenon DEF Deliver
  <2> QED BY <1>2, <1>3, <2>1, <2>2, <2>3, Zenon
<1>5. ASSUME NEW s \in Raw, Send(p, s)
      PROVE  /\ \A q \in Threads : \A u \in dead'[q] : u \in dead[q] \/ chan[u] = "shut"
             /\ \A q \in Threads : \A u \in todo'[q] : u \in todo[q] \/ u \in map
  <2>1. s \in Subs
    BY Zenon DEF Subs
  <2>2. dead' = dead \/ (chan[s] = "shut" /\ dead' = [dead EXCEPT ![p] = @ \cup {s}])
    BY <1>5, Zenon DEF Send
  <2>3. todo' = todo \/ todo' = [todo EXCEPT ![p] = @ \ {s}]
    BY <1>5, Zenon DEF Send
  <2> QED BY <1>2, <1>3, <2>1, <2>2, <2>3, Zenon
<1>6. ASSUME NEW s \in Subs, Wake(p, s) \/ Count(p, s)
      PROVE  /\ \A q \in Threads : \A u \in dead'[q] : u \in dead[q] \/ chan[u] = "shut"
             /\ \A q \in Threads : \A u \in todo'[q] : u \in todo[q] \/ u \in map
  <2>1. dead' = dead /\ todo' = [todo EXCEPT ![p] = @ \ {s}]
    BY <1>6, Zenon DEF Wake, Count
  <2> QED BY <1>2, <1>3, <2>1, Zenon
<1>7. CASE PruneObservers(p) \/ PruneRaw(p)
  <2>1. todo' = todo /\ dead' = [dead EXCEPT ![p] = {}]
    BY <1>0, <1>7, Pruned, Zenon
  <2> QED BY <1>1, <2>1, Zenon
<1>8. CASE Check(p)
  BY <1>1, <1>8, Zenon DEF Check
<1>9. CASE LoadObservers(p)
  <2>1. dead' = dead /\ todo' = [todo EXCEPT ![p] = map \cap Observers]
    BY <1>9, Zenon DEF LoadObservers
  <2> QED BY <1>1, <2>1, Zenon
<1>10. CASE PublishRaw(p)
  <2>1. dead' = dead
    BY <1>10, Zenon DEF PublishRaw
  <2>2. todo' = todo \/ todo' = [todo EXCEPT ![p] = {s \in map \cap Raw : Head(msgs[p]) \in Wants[s]}]
    BY <1>10, Zenon DEF PublishRaw
  <2> QED BY <1>1, <2>1, <2>2, Zenon
<1>11. Raw \subseteq Subs /\ Observers \subseteq Subs
  BY Zenon DEF Subs
<1> QED BY <1>4, <1>5, <1>6, <1>7, <1>8, <1>9, <1>10, <1>11, Zenon DEF Publish

\* A subscriber waits, reads the map or is refused; or it puts itself in the map.
LEMMA Subscribes ==
  ASSUME SubTypes, ObserverTypes, NEW s \in Subs, Subscribe(s)
  PROVE  /\ sat[s] # "subscribed"
         /\ \A t \in Subs : t # s => sat'[t] = sat[t] /\ chan'[t] = chan[t] /\ cat'[t] = cat[t]
         /\ \/ /\ UNCHANGED <<map, chan, cat>> /\ sat'[s] # "subscribed"
               /\ sat'[s] = "read" => ~closed
               /\ \A t \in stale : t # s => t \in stale'
            \/ /\ sat[s] = "read" /\ s \notin stale /\ stale \subseteq stale'
               /\ map' = map \cup {s} /\ sat'[s] = "subscribed" /\ chan'[s] = "open"
               /\ cat'[s] = IF s \in Raw THEN "waiting" ELSE "loading"
<1>1. chan \in [Subs -> ChanStates] /\ cat \in [Subs -> CatSteps] /\ sat \in [Subs -> SatSteps]
  BY Zenon DEF SubTypes, ObserverTypes
<1>2. CASE Look(s)
  <2>1. /\ sat[s] = "new" /\ UNCHANGED <<map, chan, cat, stale>>
        /\ sat' = [sat EXCEPT ![s] = IF closed THEN "refused" ELSE "reading"]
    BY <1>2, Zenon DEF Look, subscribing, consuming
  <2>2. /\ sat'[s] = "refused" \/ sat'[s] = "reading"
        /\ \A t \in Subs : t # s => sat'[t] = sat[t]
    BY <1>1, <2>1, Zenon
  <2> QED BY <2>1, <2>2, Zenon
<1>3. CASE Read(s)
  <2>1. /\ sat[s] = "reading" /\ UNCHANGED <<map, chan, cat, stale>>
        /\ sat' = [sat EXCEPT ![s] = IF closed THEN "refused" ELSE "read"]
    BY <1>3, Zenon DEF Read, subscribing, consuming
  <2>2. /\ sat'[s] = IF closed THEN "refused" ELSE "read"
        /\ \A t \in Subs : t # s => sat'[t] = sat[t]
    BY <1>1, <2>1, Zenon
  <2>3. sat'[s] # "subscribed" /\ (sat'[s] = "read" => ~closed)
    BY <2>2, Zenon
  <2> QED BY <2>1, <2>2, <2>3, Zenon
<1>4. CASE Insert(s) /\ s \in stale
  <2>1. /\ sat[s] = "read" /\ UNCHANGED <<map, chan, cat>> /\ stale' = stale \ {s}
        /\ sat' = [sat EXCEPT ![s] = "reading"]
    BY <1>4, Zenon DEF Insert
  <2>2. sat'[s] = "reading" /\ \A t \in Subs : t # s => sat'[t] = sat[t]
    BY <1>1, <2>1, Zenon
  <2> QED BY <2>1, <2>2, Zenon
<1>5. CASE Insert(s) /\ s \notin stale
  <2>1. /\ sat[s] = "read" /\ map' = map \cup {s} /\ stale \subseteq stale'
        /\ sat' = [sat EXCEPT ![s] = "subscribed"]
        /\ chan' = [chan EXCEPT ![s] = "open"]
        /\ cat' = [cat EXCEPT ![s] = IF s \in Raw THEN "waiting" ELSE "loading"]
    BY <1>5, Zenon DEF Insert
  <2>2. /\ sat'[s] = "subscribed" /\ \A t \in Subs : t # s => sat'[t] = sat[t]
        /\ chan'[s] = "open" /\ \A t \in Subs : t # s => chan'[t] = chan[t]
    BY <1>1, <2>1, Zenon
  <2>3. /\ cat'[s] = IF s \in Raw THEN "waiting" ELSE "loading"
        /\ \A t \in Subs : t # s => cat'[t] = cat[t]
    BY <1>1, <2>1, Zenon
  <2> QED BY <1>5, <2>1, <2>2, <2>3, Zenon
<1> QED BY <1>2, <1>3, <1>4, <1>5, Zenon DEF Subscribe

LEMMA SubscribedKept ==
  ASSUME Types, Subscribed, Next
  PROVE  Subscribed'
<1>0. SubTypes /\ ObserverTypes /\ PublisherTypes /\ Observers \subseteq Subs
  BY Zenon DEF Types, Subs
<1>t. /\ chan \in [Subs -> ChanStates] /\ cat \in [Subs -> CatSteps] /\ sat \in [Subs -> SatSteps]
      /\ map \subseteq Subs /\ swept \subseteq Subs
      /\ todo \in [Threads -> SUBSET Subs] /\ dead \in [Threads -> SUBSET Subs]
  BY <1>0, Zenon DEF SubTypes, ObserverTypes, PublisherTypes
<1>1. ASSUME NEW s \in Subs, Subscribe(s) PROVE Subscribed'
  <2>1. UNCHANGED <<pending, resync, todo, dead, swept>>
    BY <1>1, SubscribeFrame, Zenon
  <2>2. \A t \in Subs : t # s => sat'[t] = sat[t] /\ chan'[t] = chan[t] /\ cat'[t] = cat[t]
    BY <1>0, <1>1, Subscribes, Zenon
  <2>3. \/ UNCHANGED <<map, chan, cat>>
        \/ map' = map \cup {s} /\ sat'[s] = "subscribed"
    BY <1>0, <1>1, Subscribes, Zenon
  <2>4. sat[s] # "subscribed"
    BY <1>0, <1>1, Subscribes, Zenon
  <2>5. chan[s] = "none" /\ cat[s] = "none"
    BY <2>4, Zenon DEF Subscribed
  <2>6. \A t \in Subs : sat'[t] # "subscribed" => chan'[t] = "none" /\ cat'[t] = "none"
    BY <2>2, <2>3, <2>5, Zenon DEF Subscribed
  <2>7. \A t \in Observers : sat'[t] # "subscribed" => pending'[t] = {} /\ ~resync'[t]
    BY <1>0, <2>1, <2>2, <2>4, Zenon DEF Subscribed
  <2>8. \A t \in Subs : sat[t] = "subscribed" => sat'[t] = "subscribed"
    BY <2>2, <2>4, Zenon
  <2>9. \A t \in map' \cup swept' : sat'[t] = "subscribed"
    BY <1>t, <2>1, <2>3, <2>8, Zenon DEF Subscribed
  <2>10. \A p \in Threads : \A t \in todo'[p] : sat'[t] = "subscribed"
    BY <1>t, <2>1, <2>8, Zenon DEF Subscribed
  <2>11. \A p \in Threads : \A t \in dead'[p] : chan'[t] = "shut"
    BY <1>t, <2>1, <2>2, <2>5, Zenon DEF Subscribed
  <2> QED BY <2>6, <2>7, <2>9, <2>10, <2>11, Zenon DEF Subscribed
<1>2. ASSUME NEW p \in Threads, NEW batch \in Batches, Commit(p, batch) PROVE Subscribed'
  <2>1. UNCHANGED <<sat, chan, cat, pending, resync, map, swept, todo, dead>>
    BY <1>2, CommitFrame, Zenon
  <2> QED BY <2>1, Zenon DEF Subscribed
<1>3. ASSUME NEW p \in Threads, Publish(p) PROVE Subscribed'
  <2>1. UNCHANGED <<sat, chan, cat, swept>>
    BY <1>3, PublishFrame, Zenon
  <2>2. /\ \A q \in Threads : \A s \in dead'[q] : s \in dead[q] \/ chan[s] = "shut"
        /\ \A q \in Threads : \A s \in todo'[q] : s \in todo[q] \/ s \in map
    BY <1>3, PublisherSees, Zenon
  <2>3. map' \subseteq map
    BY <1>0, <1>3, MapsFrame, Pruned, Zenon
  <2>4. \A s \in Observers : sat[s] # "subscribed" => pending'[s] = {} /\ ~resync'[s]
    <3>1. CASE UNCHANGED <<pending, resync>>
      BY <3>1, Zenon DEF Subscribed
    <3>2. ASSUME NEW u \in Observers, Deliver(p, u)
          PROVE  \A s \in Observers : sat[s] # "subscribed" => pending'[s] = {} /\ ~resync'[s]
      <4>1. /\ u \in todo[p]
            /\ \A t \in Observers : t # u => pending'[t] = pending[t] /\ resync'[t] = resync[t]
        BY <1>0, <3>2, Delivers, Zenon
      <4>2. \A t \in Observers : sat[t] # "subscribed" => pending[t] = {} /\ ~resync[t]
        BY Zenon DEF Subscribed
      <4>3. sat[u] = "subscribed"
        BY <4>1, Zenon DEF Subscribed
      <4> QED BY <4>1, <4>2, <4>3, Zenon
    <3> QED BY <1>3, <3>1, <3>2, PendingFrame, Zenon
  <2> QED BY <2>1, <2>2, <2>3, <2>4, Zenon DEF Subscribed
<1>4. ASSUME NEW s \in Subs, Consume(s) PROVE Subscribed'
  <2>1. UNCHANGED <<chan, sat, map, swept, todo, dead>> /\ s \in Observers
    BY <1>4, ConsumeFrame, Zenon
  <2>2. cat[s] # "none" /\ \A t \in Subs : t # s => cat'[t] = cat[t]
    BY <1>t, <1>4, Zenon DEF Consume, Load, Recv, Take, Requery
  <2>3. \A t \in Observers : t # s => pending'[t] = pending[t] /\ resync'[t] = resync[t]
    BY <1>0, <1>4, Zenon DEF Consume, Load, Recv, Take, Requery, ObserverTypes
  <2>4. sat[s] = "subscribed"
    BY <2>2, Zenon DEF Subscribed
  <2> QED BY <2>1, <2>2, <2>3, <2>4, Zenon DEF Subscribed
<1>5. ASSUME NEW s \in Subs, RecvRaw(s) \/ Reset(s) PROVE Subscribed'
  <2>1. UNCHANGED <<chan, sat, map, swept, todo, dead, pending, resync>>
    BY <1>5, ReceiveFrame, Zenon
  <2>2. cat[s] # "none" /\ \A t \in Subs : t # s => cat'[t] = cat[t]
    BY <1>t, <1>5, Zenon DEF RecvRaw, Reset, consuming
  <2>3. sat[s] = "subscribed"
    BY <2>2, Zenon DEF Subscribed
  <2> QED BY <2>1, <2>2, <2>3, Zenon DEF Subscribed
<1>6. ASSUME NEW s \in Subs, Drop(s) \/ Unsubscribe(s) PROVE Subscribed'
  <2>1. UNCHANGED <<sat, swept, todo, dead, pending, resync>>
    BY <1>6, LeaveFrame, Zenon
  <2>2. sat[s] = "subscribed"
    BY <1>6, Zenon DEF Drop, Unsubscribe, Subscribed
  <2>3. chan'[s] = "shut" /\ \A t \in Subs : t # s => chan'[t] = chan[t] /\ cat'[t] = cat[t]
    BY <1>t, <1>6, Zenon DEF Drop, Unsubscribe, consuming
  <2>4. map' \subseteq map
    BY <1>6, Unsubscribed, Zenon DEF Drop
  <2>5. \A p \in Threads : \A t \in dead'[p] : chan'[t] = "shut"
    BY <1>t, <2>1, <2>3, Zenon DEF Subscribed
  <2>6. \A t \in Subs : sat'[t] # "subscribed" => chan'[t] = "none" /\ cat'[t] = "none"
    BY <2>1, <2>2, <2>3, Zenon DEF Subscribed
  <2> QED BY <2>1, <2>4, <2>5, <2>6, Zenon DEF Subscribed
<1>7. CASE Close
  <2>1. UNCHANGED <<sat, cat, pending, resync, todo, dead>>
    BY <1>7, CloseFrame, Zenon
  <2>2. CASE CloseFlag
    BY <2>1, <2>2, Zenon DEF CloseFlag, Subscribed
  <2>3. ASSUME NEW kind, kind \subseteq Subs, NEW from, NEW to, CloseSwap(kind, from, to)
        PROVE  Subscribed'
    <3>1. chan' = chan /\ map' = map \ kind /\ swept' = map \cap kind
      BY <2>3, Swapped, Zenon
    <3> QED BY <2>1, <3>1, Zenon DEF Subscribed
  <2>4. ASSUME NEW from, NEW to, CloseShut(from, to) PROVE Subscribed'
    <3>1. /\ map' = map /\ swept' = {}
          /\ chan' = [s \in Subs |-> IF s \in swept THEN "shut" ELSE chan[s]]
      BY <2>4, Zenon DEF CloseShut
    <3>2. \A s \in Subs : chan'[s] = IF s \in swept THEN "shut" ELSE chan[s]
      BY <3>1, Zenon
    <3>3. \A p \in Threads : \A t \in dead'[p] : chan'[t] = "shut"
      BY <1>t, <2>1, <3>2, Zenon DEF Subscribed
    <3>4. \A t \in Subs : sat'[t] # "subscribed" => chan'[t] = "none" /\ cat'[t] = "none"
      BY <2>1, <3>2, Zenon DEF Subscribed
    <3>5. \A t \in map' \cup swept' : sat'[t] = "subscribed"
      BY <2>1, <3>1, Zenon DEF Subscribed
    <3>6. /\ \A t \in Observers : sat'[t] # "subscribed" => pending'[t] = {} /\ ~resync'[t]
          /\ \A p \in Threads : \A t \in todo'[p] : sat'[t] = "subscribed"
      BY <2>1, Zenon DEF Subscribed
    <3> QED BY <3>3, <3>4, <3>5, <3>6, Zenon DEF Subscribed
  <2>5. Raw \subseteq Subs /\ Observers \subseteq Subs
    BY Zenon DEF Subs
  <2> QED BY <1>7, <2>2, <2>3, <2>4, <2>5, Zenon DEF Close
<1> QED BY <1>1, <1>2, <1>3, <1>4, <1>5, <1>6, <1>7, Zenon DEF Next

LEMMA OpenIsHeldKept ==
  ASSUME Types, Subscribed, OpenIsHeld, CloseKnows, Next
  PROVE  OpenIsHeld'
<1>0. SubTypes /\ ObserverTypes /\ PublisherTypes
  BY Zenon DEF Types
<1>1. ASSUME UNCHANGED <<chan, map, swept>> PROVE OpenIsHeld'
  BY <1>1, Zenon DEF OpenIsHeld
<1>2. ASSUME NEW s \in Subs, Subscribe(s) PROVE OpenIsHeld'
  <2>1. swept' = swept
    BY <1>2, SubscribeFrame, Zenon
  <2>2. \A t \in Subs : t # s => chan'[t] = chan[t]
    BY <1>0, <1>2, Subscribes, Zenon
  <2>3. UNCHANGED <<map, chan>> \/ map' = map \cup {s}
    BY <1>0, <1>2, Subscribes, Zenon
  <2> QED BY <2>1, <2>2, <2>3, Zenon DEF OpenIsHeld
<1>3. ASSUME NEW p \in Threads, Publish(p) PROVE OpenIsHeld'
  <2>1. UNCHANGED <<chan, swept>>
    BY <1>3, PublishFrame, Zenon
  <2>2. CASE UNCHANGED map
    BY <1>1, <2>1, <2>2, Zenon
  <2>3. CASE PruneObservers(p) \/ PruneRaw(p)
    <3>1. map \ dead[p] \subseteq map'
      BY <1>0, <2>3, Pruned, Zenon
    <3>2. \A s \in dead[p] : chan[s] = "shut"
      BY Zenon DEF Subscribed
    <3> QED BY <2>1, <3>1, <3>2, Zenon DEF OpenIsHeld
  <2> QED BY <1>3, <2>2, <2>3, MapsFrame, Zenon
<1>4. ASSUME NEW s \in Subs, Drop(s) \/ Unsubscribe(s) PROVE OpenIsHeld'
  <2>1. swept' = swept
    BY <1>4, LeaveFrame, Zenon
  <2>2. chan'[s] = "shut" /\ \A t \in Subs : t # s => chan'[t] = chan[t]
    BY <1>0, <1>4, Zenon DEF Drop, Unsubscribe, SubTypes
  <2>3. map \ {s} \subseteq map'
    BY <1>4, Unsubscribed, Zenon DEF Drop
  <2> QED BY <2>1, <2>2, <2>3, Zenon DEF OpenIsHeld
<1>5. ASSUME NEW p \in Threads, NEW batch \in Batches, Commit(p, batch) PROVE OpenIsHeld'
  BY <1>1, <1>5, CommitFrame, Zenon
<1>6. ASSUME NEW s \in Subs, Consume(s) PROVE OpenIsHeld'
  BY <1>1, <1>6, ConsumeFrame, Zenon
<1>7. ASSUME NEW s \in Subs, RecvRaw(s) \/ Reset(s) PROVE OpenIsHeld'
  BY <1>1, <1>7, ReceiveFrame, Zenon
<1>8. CASE Close
  <2>1. CASE CloseFlag
    BY <1>1, <2>1, Zenon DEF CloseFlag
  <2>2. ASSUME NEW kind, kind \subseteq Subs, NEW from, NEW to, CloseSwap(kind, from, to),
               from \notin {"shutting", "ending"}
        PROVE  OpenIsHeld'
    <3>1. close = from /\ chan' = chan /\ map' = map \ kind /\ swept' = map \cap kind
      BY <2>2, Swapped, Zenon
    <3>2. swept = {}
      BY <2>2, <3>1, Zenon DEF CloseKnows
    <3> QED BY <3>1, <3>2, Zenon DEF OpenIsHeld
  <2>3. ASSUME NEW from, NEW to, CloseShut(from, to) PROVE OpenIsHeld'
    <3>1. /\ map' = map /\ \A s \in Subs : chan'[s] = IF s \in swept THEN "shut" ELSE chan[s]
      BY <2>3, Zenon DEF CloseShut
    <3>2. \A s \in Subs : chan'[s] = "open" => s \notin swept /\ chan[s] = "open"
      BY <3>1, Zenon
    <3> QED BY <3>1, <3>2, Zenon DEF OpenIsHeld
  <2>4. Raw \subseteq Subs /\ Observers \subseteq Subs
    BY Zenon DEF Subs
  <2> QED BY <1>8, <2>1, <2>2, <2>3, <2>4, Zenon DEF Close
<1> QED BY <1>2, <1>3, <1>4, <1>5, <1>6, <1>7, <1>8, Zenon DEF Next

\* A kind whose map was swapped stays empty: whoever had read the old map fails to
\* replace it and is refused at the next try.
LEMMA EmptiedKept ==
  ASSUME Types, NEW kind, kind \subseteq Subs, Emptied(kind), map' \subseteq map, stale \subseteq stale',
         sat' = sat
  PROVE  Emptied(kind)'
BY Zenon DEF Emptied

LEMMA CloseKnowsKept ==
  ASSUME Types, CloseKnows, Next
  PROVE  CloseKnows'
<1>0. SubTypes /\ ObserverTypes /\ PublisherTypes /\ Raw \subseteq Subs /\ Observers \subseteq Subs
  BY Zenon DEF Types, Subs
<1>1. ASSUME UNCHANGED <<closed, close, swept, sat>>, map' \subseteq map, stale \subseteq stale'
      PROVE  CloseKnows'
  <2>1. (Emptied(Raw) => Emptied(Raw)') /\ (Emptied(Observers) => Emptied(Observers)')
    BY <1>0, <1>1, EmptiedKept, Zenon
  <2> QED BY <1>1, <2>1, Zenon DEF CloseKnows
<1>2. ASSUME NEW s \in Subs, Subscribe(s) PROVE CloseKnows'
  <2>1. UNCHANGED <<closed, close, swept>>
    BY <1>2, SubscribeFrame, Zenon
  <2>2. \A t \in Subs : t # s => sat'[t] = sat[t]
    BY <1>0, <1>2, Subscribes, Zenon
  <2>3. ASSUME NEW kind, kind \subseteq Subs, Emptied(kind), closed PROVE Emptied(kind)'
    <3>1. CASE /\ map' = map /\ (sat'[s] = "read" => ~closed)
               /\ \A t \in stale : t # s => t \in stale'
      BY <2>2, <2>3, <3>1, Zenon DEF Emptied
    <3>2. CASE /\ sat[s] = "read" /\ s \notin stale /\ stale \subseteq stale'
               /\ map' = map \cup {s} /\ sat'[s] = "subscribed"
      <4>1. s \notin kind
        BY <2>3, <3>2, Zenon DEF Emptied
      <4> QED BY <2>2, <2>3, <3>2, <4>1, Zenon DEF Emptied
    <3> QED BY <1>0, <1>2, <3>1, <3>2, Subscribes, Zenon
  <2>4. close \notin {"open", "raw"} => Emptied(Raw)'
    BY <1>0, <2>3, Zenon DEF CloseKnows
  <2>5. close \in {"ending", "closed"} => Emptied(Observers)'
    BY <1>0, <2>3, Zenon DEF CloseKnows
  <2> QED BY <2>1, <2>4, <2>5, Zenon DEF CloseKnows
<1>3. ASSUME NEW p \in Threads, Publish(p) PROVE CloseKnows'
  <2>1. UNCHANGED <<closed, close, swept, sat>>
    BY <1>3, PublishFrame, Zenon
  <2>2. map' \subseteq map /\ stale \subseteq stale'
    BY <1>0, <1>3, MapsFrame, Pruned, Zenon
  <2> QED BY <1>1, <2>1, <2>2, Zenon
<1>4. ASSUME NEW s \in Subs, Drop(s) \/ Unsubscribe(s) PROVE CloseKnows'
  <2>1. UNCHANGED <<closed, close, swept, sat>>
    BY <1>4, LeaveFrame, Zenon
  <2>2. map' \subseteq map /\ stale \subseteq stale'
    BY <1>4, Unsubscribed, Zenon DEF Drop, subscribing
  <2> QED BY <1>1, <2>1, <2>2, Zenon
<1>5. ASSUME NEW p \in Threads, NEW batch \in Batches, Commit(p, batch) PROVE CloseKnows'
  BY <1>1, <1>5, CommitFrame, Zenon
<1>6. ASSUME NEW s \in Subs, Consume(s) PROVE CloseKnows'
  BY <1>1, <1>6, ConsumeFrame, Zenon
<1>7. ASSUME NEW s \in Subs, RecvRaw(s) \/ Reset(s) PROVE CloseKnows'
  BY <1>1, <1>7, ReceiveFrame, Zenon
<1>8. CASE Close
  <2>1. sat' = sat
    BY <1>8, CloseFrame, Zenon
  <2>2. CASE CloseFlag
    <3>1. close = "open" /\ close' = "raw" /\ closed' = TRUE /\ swept' = swept
      BY <2>2, Zenon DEF CloseFlag
    <3> QED BY <3>1, Zenon DEF CloseKnows
  <2>3. ASSUME NEW kind, kind \subseteq Subs, NEW from, NEW to, CloseSwap(kind, from, to)
        PROVE  /\ Emptied(kind)' /\ closed' = closed /\ close = from /\ close' = to
               /\ Emptied(Raw) => Emptied(Raw)'
    <3>1. /\ closed' = closed /\ close = from /\ close' = to /\ map' = map \ kind
          /\ stale \subseteq stale' /\ \A s \in kind : sat[s] = "read" => s \in stale'
      BY <2>3, Swapped, Zenon
    <3>2. Emptied(kind)'
      BY <2>1, <3>1, Zenon DEF Emptied
    <3>3. Emptied(Raw) => Emptied(Raw)'
      BY <1>0, <2>1, <3>1, EmptiedKept, Zenon
    <3> QED BY <3>1, <3>2, <3>3, Zenon
  <2>4. CASE CloseSwap(Raw, "raw", "shutting")
    <3>1. Emptied(Raw)' /\ closed' = closed /\ close = "raw" /\ close' = "shutting"
      BY <1>0, <2>3, <2>4, Zenon
    <3> QED BY <3>1, Zenon DEF CloseKnows
  <2>5. CASE CloseSwap(Observers, "observers", "ending")
    <3>1. /\ Emptied(Observers)' /\ closed' = closed /\ close = "observers" /\ close' = "ending"
          /\ Emptied(Raw) => Emptied(Raw)'
      BY <1>0, <2>3, <2>5, Zenon
    <3> QED BY <3>1, Zenon DEF CloseKnows
  <2>6. CASE CloseShut("shutting", "observers") \/ CloseShut("ending", "closed")
    <3>1. UNCHANGED <<closed, map, stale>> /\ swept' = {}
      BY <2>6, Zenon DEF CloseShut, subscribing
    <3>2. \/ close = "shutting" /\ close' = "observers"
          \/ close = "ending" /\ close' = "closed"
      BY <2>6, Zenon DEF CloseShut
    <3>3. (Emptied(Raw) => Emptied(Raw)') /\ (Emptied(Observers) => Emptied(Observers)')
      BY <1>0, <2>1, <3>1, EmptiedKept, Zenon
    <3> QED BY <3>1, <3>2, <3>3, Zenon DEF CloseKnows
  <2> QED BY <1>8, <2>2, <2>4, <2>5, <2>6, Zenon DEF Close
<1> QED BY <1>2, <1>3, <1>4, <1>5, <1>6, <1>7, <1>8, Zenon DEF Next

\* Once close has returned, nothing is left in a map or open.
LEMMA CloseIsLast ==
  ASSUME SubTypes, OpenIsHeld, CloseKnows
  PROVE  NoneSurvivesClose
<1> SUFFICES ASSUME close = "closed" PROVE map = {} /\ \A s \in Subs : chan[s] # "open"
  BY Zenon DEF NoneSurvivesClose
<1>1. map \cap Raw = {} /\ map \cap Observers = {} /\ swept = {}
  BY Zenon DEF CloseKnows, Emptied
<1>2. map = {}
  BY <1>1, Zenon DEF SubTypes, Subs
<1> QED BY <1>1, <1>2, Zenon DEF OpenIsHeld

LEMMA HandIsReadKept ==
  ASSUME Types, Subscribed, HandIsRead, Next
  PROVE  HandIsRead'
<1>0. SubTypes /\ ObserverTypes /\ PublisherTypes /\ Observers \subseteq Subs
  BY Zenon DEF Types, Subs
<1>1. ASSUME UNCHANGED <<cat, hand>> PROVE HandIsRead'
  BY <1>1, Zenon DEF HandIsRead
<1>2. ASSUME NEW s \in Subs, hand' = hand, cat[s] # "reading", \A t \in Subs : t # s => cat'[t] = cat[t]
      PROVE  HandIsRead'
  BY <1>0, <1>2, Zenon DEF HandIsRead
<1>3. ASSUME NEW s \in Subs, Subscribe(s) PROVE HandIsRead'
  <2>1. hand' = hand
    BY <1>3, SubscribeFrame, Zenon
  <2>2. sat[s] # "subscribed"
    BY <1>0, <1>3, Subscribes, Zenon
  <2>3. \A t \in Subs : t # s => cat'[t] = cat[t]
    BY <1>0, <1>3, Subscribes, Zenon
  <2>4. cat[s] # "reading"
    BY <2>2, Zenon DEF Subscribed
  <2> QED BY <1>2, <2>1, <2>3, <2>4, Zenon
<1>4. ASSUME NEW s \in Observers, Load(s) \/ Recv(s) PROVE HandIsRead'
  <2>1. hand' = hand /\ cat[s] # "reading" /\ \A t \in Subs : t # s => cat'[t] = cat[t]
    BY <1>0, <1>4, Zenon DEF Load, Recv, ObserverTypes
  <2> QED BY <1>0, <1>2, <2>1, Zenon
<1>5. ASSUME NEW s \in Observers, Take(s) PROVE HandIsRead'
  <2>1. /\ hand' = [hand EXCEPT ![s] = [docs |-> pending[s], resync |-> resync[s]]]
        /\ \/ cat' = [cat EXCEPT ![s] = "reading"]
           \/ cat' = [cat EXCEPT ![s] = "waiting"] /\ pending[s] = {} /\ resync[s] = FALSE
    BY <1>0, <1>5, Takes, Zenon
  <2>2. \A t \in Observers : t # s => cat'[t] = cat[t] /\ hand'[t] = hand[t]
    BY <1>0, <2>1, Zenon DEF ObserverTypes
  <2>3. cat'[s] = "reading" \/ hand'[s] = Nothing
    BY <1>0, <2>1, Zenon DEF ObserverTypes, Nothing
  <2> QED BY <2>2, <2>3, Zenon DEF HandIsRead
<1>6. ASSUME NEW s \in Observers, Requery(s) PROVE HandIsRead'
  <2>1. hand' = [hand EXCEPT ![s] = Nothing] /\ cat' = [cat EXCEPT ![s] = "waiting"]
    BY <1>0, <1>6, Requeries, Zenon
  <2> QED BY <1>0, <2>1, Zenon DEF ObserverTypes, HandIsRead
<1>7. ASSUME NEW s \in Subs, RecvRaw(s) \/ Reset(s) PROVE HandIsRead'
  <2>1. hand' = hand /\ cat[s] = "waiting"
    BY <1>7, Zenon DEF RecvRaw, Reset, consuming
  <2>2. \A t \in Subs : t # s => cat'[t] = cat[t]
    BY <1>0, <1>7, Zenon DEF RecvRaw, Reset, consuming, ObserverTypes
  <2> QED BY <1>2, <2>1, <2>2, Zenon
<1>8. ASSUME NEW s \in Subs, Drop(s) PROVE HandIsRead'
  <2>1. hand' = hand /\ cat[s] = "waiting" /\ cat' = [cat EXCEPT ![s] = "over"]
    BY <1>8, Zenon DEF Drop
  <2>2. \A t \in Subs : t # s => cat'[t] = cat[t]
    BY <1>0, <2>1, Zenon DEF ObserverTypes
  <2> QED BY <1>2, <2>1, <2>2, Zenon
<1>9. ASSUME NEW s \in Subs, Unsubscribe(s) PROVE HandIsRead'
  BY <1>1, <1>9, Zenon DEF Unsubscribe, consuming
<1>10. ASSUME NEW p \in Threads, NEW batch \in Batches, Commit(p, batch) PROVE HandIsRead'
  BY <1>1, <1>10, CommitFrame, Zenon
<1>11. ASSUME NEW p \in Threads, Publish(p) PROVE HandIsRead'
  BY <1>1, <1>11, PublishFrame, Zenon
<1>12. CASE Close
  BY <1>1, <1>12, CloseFrame, Zenon
<1> QED BY <1>3, <1>4, <1>5, <1>6, <1>7, <1>8, <1>9, <1>10, <1>11, <1>12, Zenon DEF Next, Consume

-----------------------------------------------------------------------------
(* What is pending is woken. *)

\* Which publisher tells whom: pat changes only at its own steps, to an observer
\* at a delivery and from one at a wake.
LEMMA TellsWhom ==
  ASSUME Types, NEW p \in Threads, Publish(p)
  PROVE  /\ \A q \in Threads : q # p => pat'[q] = pat[q]
         /\ \/ pat[p] \notin Observers
            \/ \E s \in Observers : Wake(p, s)
<1>0. /\ pat \in [Threads -> PatSteps]
      /\ Subs \cap {"idle", "checking", "loading", "observing", "raw", "sending"} = {}
      /\ Raw \subseteq Subs /\ Observers \subseteq Subs /\ Raw \cap Observers = {}
  BY BusAssumption, Zenon DEF Types, PublisherTypes, Subs
<1>1. CASE Check(p) \/ LoadObservers(p) \/ PublishRaw(p)
  <2>1. \A q \in Threads : q # p => pat'[q] = pat[q]
    BY <1>0, <1>1, Zenon DEF Check, LoadObservers, PublishRaw, Go
  <2>2. pat[p] \in {"checking", "loading", "raw"}
    BY <1>1, Zenon DEF Check, LoadObservers, PublishRaw, Go
  <2> QED BY <1>0, <2>1, <2>2, Zenon
<1>2. CASE PruneObservers(p) \/ PruneRaw(p)
  <2>1. \A q \in Threads : q # p => pat'[q] = pat[q]
    BY <1>0, <1>2, Zenon DEF PruneObservers, Prune, PruneRaw, Go
  <2>2. pat[p] \in {"observing", "sending"}
    BY <1>2, Zenon DEF PruneObservers, Prune, PruneRaw, Go
  <2> QED BY <1>0, <2>1, <2>2, Zenon
<1>3. ASSUME NEW s \in Observers, Deliver(p, s)
      PROVE  (\A q \in Threads : q # p => pat'[q] = pat[q]) /\ pat[p] \notin Observers
  <2>1. pat[p] = "observing" /\ (pat' = pat \/ pat' = [pat EXCEPT ![p] = s])
    BY <1>3, Zenon DEF Deliver
  <2> QED BY <1>0, <2>1, Zenon
<1>4. ASSUME NEW s \in Observers, Wake(p, s) PROVE \A q \in Threads : q # p => pat'[q] = pat[q]
  BY <1>0, <1>4, Zenon DEF Wake, Go
<1>5. ASSUME NEW s \in Raw, Send(p, s)
      PROVE  (\A q \in Threads : q # p => pat'[q] = pat[q]) /\ pat[p] \notin Observers
  <2>1. pat[p] = "sending" /\ (pat' = pat \/ pat' = [pat EXCEPT ![p] = s])
    BY <1>5, Zenon DEF Send
  <2> QED BY <1>0, <2>1, Zenon
<1>6. ASSUME NEW s \in Raw, Count(p, s)
      PROVE  (\A q \in Threads : q # p => pat'[q] = pat[q]) /\ pat[p] \notin Observers
  <2>1. pat[p] = s /\ pat' = [pat EXCEPT ![p] = "sending"]
    BY <1>6, Zenon DEF Count, Go
  <2> QED BY <1>0, <2>1, Zenon
<1> QED BY <1>1, <1>2, <1>3, <1>4, <1>5, <1>6, Zenon DEF Publish

LEMMA PendingIsWokenKept ==
  ASSUME Types, Subscribed, PendingIsWoken, Next
  PROVE  PendingIsWoken'
<1>0. /\ SubTypes /\ ObserverTypes /\ PublisherTypes /\ Observers \subseteq Subs
      /\ pat \in [Threads -> PatSteps]
  BY Zenon DEF Types, PublisherTypes, Subs
<1> SUFFICES ASSUME NEW s \in Observers, chan'[s] = "open", pending'[s] # {} \/ resync'[s]
             PROVE  wake'[s] \/ cat'[s] = "woken" \/ \E p \in Threads : pat'[p] = s
  BY Zenon DEF PendingIsWoken
<1>1. ASSUME chan[s] = "open", pending[s] # {} \/ resync[s]
      PROVE  wake[s] \/ cat[s] = "woken" \/ \E p \in Threads : pat[p] = s
  BY <1>1, Zenon DEF PendingIsWoken
<1>2. ASSUME NEW t \in Subs, Subscribe(t)
      PROVE  wake'[s] \/ cat'[s] = "woken" \/ \E p \in Threads : pat'[p] = s
  <2>1. UNCHANGED <<pending, resync, wake, pat>>
    BY <1>2, SubscribeFrame, Zenon
  <2>2. \A u \in Subs : u # t => chan'[u] = chan[u] /\ cat'[u] = cat[u]
    BY <1>0, <1>2, Subscribes, Zenon
  <2>3. sat[t] # "subscribed"
    BY <1>0, <1>2, Subscribes, Zenon
  <2>4. s # t
    BY <2>1, <2>3, Zenon DEF Subscribed
  <2> QED BY <1>0, <1>1, <2>1, <2>2, <2>4, Zenon
<1>3. ASSUME NEW p \in Threads, NEW batch \in Batches, Commit(p, batch)
      PROVE  wake'[s] \/ cat'[s] = "woken" \/ \E q \in Threads : pat'[q] = s
  <2>1. UNCHANGED <<chan, pending, resync, wake, cat>>
    BY <1>3, CommitFrame, Zenon
  <2>2. pat[p] = "idle" /\ \A q \in Threads : q # p => pat'[q] = pat[q]
    BY <1>0, <1>3, Zenon DEF Commit, Go
  <2>3. s # "idle"
    BY <1>0, BusAssumption, Zenon
  <2> QED BY <1>1, <2>1, <2>2, <2>3, Zenon
<1>4. ASSUME NEW p \in Threads, Publish(p)
      PROVE  wake'[s] \/ cat'[s] = "woken" \/ \E q \in Threads : pat'[q] = s
  <2>1. UNCHANGED <<chan, cat>>
    BY <1>4, PublishFrame, Zenon
  <2>2. \A q \in Threads : q # p => pat'[q] = pat[q]
    BY <1>4, TellsWhom, Zenon
  <2>3. ASSUME NEW t \in Observers, Deliver(p, t)
        PROVE  wake'[s] \/ cat'[s] = "woken" \/ \E q \in Threads : pat'[q] = s
    <3>1. wake' = wake /\ pat[p] = "observing"
      BY <1>0, <2>3, Delivers, Zenon
    <3>2. \A u \in Observers : u # t => pending'[u] = pending[u] /\ resync'[u] = resync[u]
      BY <1>0, <2>3, Delivers, Zenon
    <3>3. UNCHANGED <<pending, resync>> \/ pat' = [pat EXCEPT ![p] = t]
      BY <2>3, Zenon DEF Deliver
    <3>4. s # "observing"
      BY <1>0, BusAssumption, Zenon
    <3>5. CASE s = t /\ pat' = [pat EXCEPT ![p] = t]
      BY <1>0, <3>5, Zenon
    <3>6. CASE pending'[s] = pending[s] /\ resync'[s] = resync[s]
      BY <1>1, <2>1, <2>2, <3>1, <3>4, <3>6, Zenon
    <3> QED BY <3>2, <3>3, <3>5, <3>6, Zenon
  <2>4. ASSUME NEW t \in Observers, Wake(p, t)
        PROVE  wake'[s] \/ cat'[s] = "woken" \/ \E q \in Threads : pat'[q] = s
    <3>1. /\ pat[p] = t /\ wake' = [wake EXCEPT ![t] = @ \/ chan[t] = "open"]
          /\ UNCHANGED <<pending, resync>>
      BY <2>4, Zenon DEF Wake, Go
    <3>2. CASE s = t
      BY <1>0, <2>1, <3>1, <3>2, Zenon DEF ObserverTypes
    <3>3. CASE s # t
      <4>1. wake'[s] = wake[s]
        BY <1>0, <3>1, <3>3, Zenon DEF ObserverTypes
      <4> QED BY <1>1, <2>1, <2>2, <3>1, <3>3, <4>1, Zenon
    <3> QED BY <3>2, <3>3, Zenon
  <2>5. CASE ~\E t \in Observers : Deliver(p, t) \/ Wake(p, t)
    <3>1. UNCHANGED <<pending, resync>>
      BY <1>4, <2>5, PendingFrame, Zenon
    <3>2. wake' = wake
      BY <1>4, <2>5, WakeFrame, Zenon
    <3>3. pat[p] # s
      BY <1>4, <2>5, TellsWhom, Zenon
    <3> QED BY <1>1, <2>1, <2>2, <3>1, <3>2, <3>3, Zenon
  <2> QED BY <2>3, <2>4, <2>5, Zenon
<1>5. ASSUME NEW t \in Observers, Load(t) \/ Recv(t) \/ Take(t) \/ Requery(t)
      PROVE  wake'[s] \/ cat'[s] = "woken" \/ \E p \in Threads : pat'[p] = s
  <2>1. UNCHANGED <<chan, pat>>
    BY <1>5, Zenon DEF Load, Recv, Take, Requery, publishing
  <2>2. CASE s # t
    <3>1. /\ pending'[s] = pending[s] /\ resync'[s] = resync[s]
          /\ wake'[s] = wake[s] /\ cat'[s] = cat[s]
      BY <1>0, <1>5, <2>2, Zenon DEF Load, Recv, Take, Requery, ObserverTypes
    <3> QED BY <1>1, <2>1, <3>1, Zenon
  <2>3. CASE s = t /\ Recv(t)
    <3>1. /\ UNCHANGED <<pending, resync>> /\ (wake[s] \/ chan[s] = "shut")
          /\ cat' = [cat EXCEPT ![s] = IF wake[s] THEN "woken" ELSE "over"]
      BY <2>3, Zenon DEF Recv
    <3>2. wake[s]
      BY <2>1, <3>1, Zenon
    <3> QED BY <1>0, <3>1, <3>2, Zenon DEF ObserverTypes
  <2>4. CASE s = t /\ Take(t)
    <3>1. pending' = [pending EXCEPT ![s] = {}] /\ resync' = [resync EXCEPT ![s] = FALSE]
      BY <2>4, Zenon DEF Take
    <3> QED BY <1>0, <3>1, Zenon DEF ObserverTypes
  <2>5. CASE s = t /\ (Load(t) \/ Requery(t))
    <3>1. UNCHANGED <<pending, resync, wake>> /\ cat[s] # "woken"
      BY <2>5, Zenon DEF Load, Requery
    <3> QED BY <1>1, <2>1, <3>1, Zenon
  <2> QED BY <1>5, <2>2, <2>3, <2>4, <2>5, Zenon
<1>6. ASSUME NEW t \in Subs, RecvRaw(t) \/ Reset(t)
      PROVE  wake'[s] \/ cat'[s] = "woken" \/ \E p \in Threads : pat'[p] = s
  <2>1. UNCHANGED <<chan, pending, resync, wake, pat>> /\ t \in Raw
    BY <1>6, ReceiveFrame, Zenon
  <2>2. s # t
    BY <2>1, BusAssumption, Zenon
  <2>3. cat'[s] = cat[s]
    BY <1>0, <1>6, <2>2, Zenon DEF RecvRaw, Reset, consuming, ObserverTypes
  <2> QED BY <1>1, <2>1, <2>3, Zenon
<1>7. ASSUME NEW t \in Subs, Drop(t) \/ Unsubscribe(t)
      PROVE  wake'[s] \/ cat'[s] = "woken" \/ \E p \in Threads : pat'[p] = s
  <2>1. UNCHANGED <<pending, resync, wake, pat>>
    BY <1>7, LeaveFrame, Zenon
  <2>2. chan'[t] = "shut"
    BY <1>0, <1>7, Zenon DEF Drop, Unsubscribe, SubTypes
  <2>3. \A u \in Subs : u # t => chan'[u] = chan[u] /\ cat'[u] = cat[u]
    BY <1>0, <1>7, Zenon DEF Drop, Unsubscribe, consuming, SubTypes, ObserverTypes
  <2>4. s # t
    BY <2>2, Zenon
  <2> QED BY <1>0, <1>1, <2>1, <2>3, <2>4, Zenon
<1>8. CASE Close
  <2>1. UNCHANGED <<pending, resync, wake, cat, pat>>
    BY <1>8, CloseFrame, Zenon
  <2>2. chan' = chan \/ \A u \in Subs : chan'[u] = chan[u] \/ chan'[u] = "shut"
    BY <1>8, Zenon DEF Close, CloseFlag, CloseSwap, CloseShut
  <2> QED BY <1>0, <1>1, <2>1, <2>2, Zenon
<1> QED BY <1>2, <1>3, <1>4, <1>5, <1>6, <1>7, <1>8, Zenon DEF Next, Consume

-----------------------------------------------------------------------------
(* What an owner has not read, its observer knows of. *)

\* Observer s has an entry or a batch for d, or a publisher will tell it.
Told(s, d) ==
  d \in pending[s] \cup hand[s].docs \/ resync[s] \/ hand[s].resync \/ \E p \in Threads : Owes(p, s, d)

LEMMA StaleIsTold ==
  ASSUME StaleIsKnown, NEW s \in Observers, chan[s] = "open", ~closed, cat[s] # "loading",
         NEW d \in Wants[s], d \notin current[s]
  PROVE  Told(s, d)
BY Zenon DEF StaleIsKnown, Told

\* What was told stays so while nothing is taken back.
LEMMA ToldKept ==
  ASSUME NEW s \in Observers, NEW d, Told(s, d), pending[s] \subseteq pending'[s], hand'[s] = hand[s],
         resync[s] => resync'[s], \A p \in Threads : Owes(p, s, d) => Owes(p, s, d)'
  PROVE  Told(s, d)'
BY Zenon DEF Told

LEMMA OwesKept ==
  ASSUME NEW s, NEW d, NEW p, Owes(p, s, d), pat'[p] = pat[p], todo'[p] = todo[p], msgs'[p] = msgs[p]
  PROVE  Owes(p, s, d)'
BY Zenon DEF Owes

\* A publisher's step keeps what it owes, unless it delivers it.
LEMMA PublisherOwes ==
  ASSUME Types, OpenIsHeld, CloseKnows, NEW p \in Threads, Publish(p), NEW s \in Observers, NEW d,
         chan[s] = "open", ~closed, ~Deliver(p, s), NEW q \in Threads, Owes(q, s, d)
  PROVE  Owes(q, s, d)'
<1>0. /\ PublisherTypes /\ ObserverTypes /\ Observers \subseteq Subs /\ Raw \subseteq Subs
      /\ Raw \cap Observers = {}
      /\ Subs \cap {"idle", "checking", "loading", "observing", "raw", "sending"} = {}
  BY BusAssumption, Zenon DEF Types, Subs
<1>1. /\ pat \in [Threads -> PatSteps] /\ msgs \in [Threads -> Seq(Messages)]
      /\ todo \in [Threads -> SUBSET Subs]
  BY <1>0, Zenon DEF PublisherTypes
<1>2. /\ d \in Range(msgs[q])
      /\ \/ pat[q] \in {"checking", "loading"}
         \/ pat[q] \in {"observing"} \cup (Observers \ {s}) /\ s \in todo[q]
  BY Zenon DEF Owes
<1>3. pat[q] \notin {"idle", "raw", "sending"} \cup Raw /\ pat[q] # s
  BY <1>0, <1>2, Zenon
<1>4. ASSUME q = p, msgs' = msgs, pat'[p] \in {"observing"} \cup (Observers \ {s}), s \in todo'[p]
      PROVE  Owes(q, s, d)'
  BY <1>2, <1>4, Zenon DEF Owes
<1>5. CASE Check(p)
  <2>1. /\ pat[p] = "checking" /\ pat' = [pat EXCEPT ![p] = IF closed THEN "idle" ELSE "loading"]
        /\ msgs' = [msgs EXCEPT ![p] = IF closed THEN <<>> ELSE @] /\ todo' = todo
    BY <1>5, Zenon DEF Check, Go
  <2>2. /\ pat'[p] = "loading" /\ msgs'[p] = msgs[p]
        /\ \A r \in Threads : r # p => pat'[r] = pat[r] /\ msgs'[r] = msgs[r]
    BY <1>1, <2>1, Zenon
  <2>3. CASE q = p
    BY <1>2, <2>2, <2>3, Zenon DEF Owes
  <2> QED BY <2>1, <2>2, <2>3, OwesKept, Zenon
<1>6. CASE LoadObservers(p)
  <2>1. /\ pat' = [pat EXCEPT ![p] = "observing"] /\ msgs' = msgs
        /\ todo' = [todo EXCEPT ![p] = map \cap Observers]
    BY <1>6, Zenon DEF LoadObservers, Go
  <2>2. /\ pat'[p] = "observing" /\ todo'[p] = map \cap Observers
        /\ \A r \in Threads : r # p => pat'[r] = pat[r] /\ todo'[r] = todo[r]
    BY <1>1, <2>1, Zenon
  <2>3. s \in map
    BY <1>0, Zenon DEF OpenIsHeld, CloseKnows
  <2>4. CASE q = p
    BY <1>4, <2>1, <2>2, <2>3, <2>4, Zenon
  <2> QED BY <2>1, <2>2, <2>4, OwesKept, Zenon
<1>7. ASSUME NEW t \in Observers, Deliver(p, t) PROVE Owes(q, s, d)'
  <2>1. t # s
    BY <1>7, Zenon
  <2>2. pat[p] = "observing" /\ msgs' = msgs /\ (pat' = pat \/ pat' = [pat EXCEPT ![p] = t])
    BY <1>7, Zenon DEF Deliver
  <2>3. todo' = todo \/ todo' = [todo EXCEPT ![p] = @ \ {t}]
    BY <1>7, Zenon DEF Deliver
  <2>4. /\ pat'[p] \in {"observing"} \cup (Observers \ {s})
        /\ \A r \in Threads : r # p => pat'[r] = pat[r]
    BY <1>1, <2>1, <2>2, Zenon
  <2>5. /\ s \in todo[p] => s \in todo'[p]
        /\ \A r \in Threads : r # p => todo'[r] = todo[r]
    BY <1>1, <2>1, <2>3, Zenon
  <2>6. CASE q = p
    <3>1. s \in todo[p]
      BY <1>2, <2>2, <2>6, Zenon
    <3> QED BY <1>4, <2>2, <2>4, <2>5, <2>6, <3>1, Zenon
  <2> QED BY <2>2, <2>4, <2>5, <2>6, OwesKept, Zenon
<1>8. ASSUME NEW t \in Observers, Wake(p, t) PROVE Owes(q, s, d)'
  <2>1. /\ pat[p] = t /\ pat' = [pat EXCEPT ![p] = "observing"] /\ msgs' = msgs
        /\ todo' = [todo EXCEPT ![p] = @ \ {t}]
    BY <1>8, Zenon DEF Wake, Go
  <2>2. /\ pat'[p] = "observing" /\ todo'[p] = todo[p] \ {t}
        /\ \A r \in Threads : r # p => pat'[r] = pat[r] /\ todo'[r] = todo[r]
    BY <1>1, <2>1, Zenon
  <2>3. CASE q = p
    <3>1. t # s /\ s \in todo[p]
      BY <1>0, <1>2, <1>3, <2>1, <2>3, Zenon
    <3> QED BY <1>4, <2>1, <2>2, <2>3, <3>1, Zenon
  <2> QED BY <2>1, <2>2, <2>3, OwesKept, Zenon
<1>9. CASE PruneObservers(p)
  <2>1. /\ todo[p] = {} /\ pat[p] = "observing" /\ pat' = [pat EXCEPT ![p] = "raw"]
        /\ msgs' = msgs /\ todo' = todo
    BY <1>9, Zenon DEF PruneObservers, Prune, Go
  <2>2. q # p /\ pat'[q] = pat[q]
    BY <1>1, <1>2, <2>1, Zenon
  <2> QED BY <2>1, <2>2, OwesKept, Zenon
<1>10. CASE PublishRaw(p) \/ PruneRaw(p) \/ \E t \in Raw : Send(p, t) \/ Count(p, t)
  <2>1. pat[p] \in {"raw", "sending"} \cup Raw
    BY <1>10, Zenon DEF PublishRaw, PruneRaw, Send, Count, Go
  <2>2. q # p
    BY <1>3, <2>1, Zenon
  <2>3. pat'[q] = pat[q]
    BY <2>2, TellsWhom, Zenon
  <2>4. msgs'[q] = msgs[q]
    BY <1>1, <1>10, <2>2, Zenon DEF PublishRaw, PruneRaw, Send, Count
  <2>5. todo'[q] = todo[q]
    BY <1>1, <1>10, <2>2, Zenon DEF PublishRaw, PruneRaw, Send, Count
  <2> QED BY <2>3, <2>4, <2>5, OwesKept, Zenon
<1> QED BY <1>5, <1>6, <1>7, <1>8, <1>9, <1>10, Zenon DEF Publish

LEMMA DeliveryTells ==
  ASSUME Types, NEW p \in Threads, NEW s \in Observers, Deliver(p, s), chan[s] = "open", NEW d \in Wants[s],
         Told(s, d), hand'[s] = hand[s]
  PROVE  Told(s, d)'
<1>0. /\ PublisherTypes /\ ObserverTypes
      /\ pat \in [Threads -> PatSteps] /\ todo \in [Threads -> SUBSET Subs]
  BY Zenon DEF Types, PublisherTypes
<1>1. chan[s] # "shut" /\ msgs' = msgs
  BY <1>0, Delivers, Zenon
<1>2. \A q \in Threads : q # p /\ Owes(q, s, d) => Owes(q, s, d)'
  <2>1. pat' = pat \/ pat' = [pat EXCEPT ![p] = s]
    BY Zenon DEF Deliver
  <2>2. todo' = todo \/ todo' = [todo EXCEPT ![p] = @ \ {s}]
    BY Zenon DEF Deliver
  <2>3. \A q \in Threads : q # p => pat'[q] = pat[q]
    BY <1>0, <2>1, Zenon
  <2>4. \A q \in Threads : q # p => todo'[q] = todo[q]
    BY <1>0, <2>2, Zenon
  <2> QED BY <1>1, <2>3, <2>4, OwesKept, Zenon
<1>3. Owes(p, s, d) => d \in Range(msgs[p])
  BY Zenon DEF Owes
<1>4. CASE Range(msgs[p]) \cap Wants[s] = {} /\ UNCHANGED <<pending, resync>>
  <2>1. ~Owes(p, s, d)
    BY <1>3, <1>4, Zenon
  <2>2. \A q \in Threads : Owes(q, s, d) => Owes(q, s, d)'
    BY <1>2, <2>1, Zenon
  <2> QED BY <1>4, <2>2, ToldKept, Zenon
<1>5. CASE /\ pending' = [pending EXCEPT ![s] = Coalesced(s, msgs[p]).docs]
           /\ resync' = [resync EXCEPT ![s] = Coalesced(s, msgs[p]).resync]
  <2>1. pending'[s] = Coalesced(s, msgs[p]).docs /\ resync'[s] = Coalesced(s, msgs[p]).resync
    BY <1>0, <1>5, Zenon DEF ObserverTypes
  <2>2. \/ resync'[s]
        \/ ~resync[s] /\ pending'[s] = pending[s] \cup (Range(msgs[p]) \cap Wants[s])
    BY <1>0, <2>1, CoalescedTypes, Zenon
  <2>3. CASE resync'[s]
    BY <2>3, Zenon DEF Told
  <2>4. CASE ~resync[s] /\ pending'[s] = pending[s] \cup (Range(msgs[p]) \cap Wants[s])
    <3>1. CASE Owes(p, s, d)
      BY <1>3, <2>4, <3>1, Zenon DEF Told
    <3>2. CASE ~Owes(p, s, d)
      <4>1. \A q \in Threads : Owes(q, s, d) => Owes(q, s, d)'
        BY <1>2, <3>2, Zenon
      <4> QED BY <2>4, <4>1, ToldKept, Zenon
    <3> QED BY <3>1, <3>2, Zenon
  <2> QED BY <2>2, <2>3, <2>4, Zenon
<1> QED BY <1>0, <1>1, <1>4, <1>5, Delivers, Zenon

LEMMA StaleIsKnownKept ==
  ASSUME Types, Subscribed, OpenIsHeld, CloseKnows, HandIsRead, StaleIsKnown, Next
  PROVE  StaleIsKnown'
<1>0. /\ SubTypes /\ ObserverTypes /\ PublisherTypes /\ Observers \subseteq Subs
      /\ pat \in [Threads -> PatSteps] /\ msgs \in [Threads -> Seq(Messages)]
  BY Zenon DEF Types, PublisherTypes, Subs
<1> SUFFICES ASSUME NEW s \in Observers, chan'[s] = "open", ~closed', cat'[s] # "loading",
                    NEW d \in Wants[s], d \notin current'[s]
             PROVE  Told(s, d)'
  BY Zenon DEF StaleIsKnown, Told
<1>1. ASSUME chan[s] = "open", ~closed, cat[s] # "loading", d \notin current[s] PROVE Told(s, d)
  BY <1>1, StaleIsTold, Zenon
<1>2. ASSUME Told(s, d), UNCHANGED <<pat, msgs, todo>>, pending'[s] = pending[s],
             resync'[s] = resync[s], hand'[s] = hand[s]
      PROVE  Told(s, d)'
  <2>1. \A p \in Threads : Owes(p, s, d) => Owes(p, s, d)'
    BY <1>2, OwesKept, Zenon
  <2> QED BY <1>2, <2>1, ToldKept, Zenon
<1>3. ASSUME NEW t \in Subs, Subscribe(t) PROVE Told(s, d)'
  <2>1. UNCHANGED <<closed, pending, resync, hand, current, pat, msgs, todo>>
    BY <1>3, SubscribeFrame, Zenon
  <2>2. \A u \in Subs : u # t => chan'[u] = chan[u] /\ cat'[u] = cat[u]
    BY <1>0, <1>3, Subscribes, Zenon
  <2>3. s # t
    <3>1. sat[t] # "subscribed"
      BY <1>0, <1>3, Subscribes, Zenon
    <3>2. chan' = chan \/ cat'[t] = IF t \in Raw THEN "waiting" ELSE "loading"
      BY <1>0, <1>3, Subscribes, Zenon
    <3>3. chan[t] = "none"
      BY <3>1, Zenon DEF Subscribed
    <3>4. s \notin Raw
      BY WantsDocs, Zenon
    <3> QED BY <3>2, <3>3, <3>4, Zenon
  <2> QED BY <1>0, <1>1, <1>2, <2>1, <2>2, <2>3, Zenon
<1>4. ASSUME NEW p \in Threads, NEW batch \in Batches, Commit(p, batch) PROVE Told(s, d)'
  <2>1. UNCHANGED <<closed, chan, pending, resync, cat, hand, todo>>
    BY <1>4, CommitFrame, Zenon
  <2>2. /\ pat[p] = "idle" /\ pat' = [pat EXCEPT ![p] = "checking"]
        /\ msgs' = [msgs EXCEPT ![p] = batch]
        /\ current' = [t \in Observers |-> current[t] \ Range(batch)]
    BY <1>4, Zenon DEF Commit, Go
  <2>3. /\ pat'[p] = "checking" /\ msgs'[p] = batch
        /\ \A q \in Threads : q # p => pat'[q] = pat[q] /\ msgs'[q] = msgs[q]
    BY <1>0, <2>2, Zenon
  <2>4. CASE d \in Range(batch)
    <3>1. Owes(p, s, d)'
      BY <2>3, <2>4, Zenon DEF Owes
    <3> QED BY <3>1, Zenon DEF Told
  <2>5. CASE d \notin Range(batch)
    <3>1. d \notin current[s]
      BY <2>2, <2>5, Zenon
    <3>2. Told(s, d)
      BY <1>1, <2>1, <3>1, Zenon
    <3>3. ~Owes(p, s, d)
      <4>1. "idle" \notin Observers
        BY <1>0, BusAssumption, Zenon
      <4> QED BY <2>2, <4>1, Zenon DEF Owes
    <3>4. \A q \in Threads : Owes(q, s, d) => Owes(q, s, d)'
      BY <2>1, <2>3, <3>3, OwesKept, Zenon
    <3> QED BY <2>1, <3>2, <3>4, ToldKept, Zenon
  <2> QED BY <2>4, <2>5, Zenon
<1>5. ASSUME NEW p \in Threads, Publish(p) PROVE Told(s, d)'
  <2>1. UNCHANGED <<closed, chan, cat, hand, current>>
    BY <1>5, PublishFrame, Zenon
  <2>2. Told(s, d)
    BY <1>1, <2>1, Zenon
  <2>3. CASE Deliver(p, s)
    BY <2>1, <2>2, <2>3, DeliveryTells, Zenon
  <2>4. CASE ~Deliver(p, s)
    <3>1. pending'[s] = pending[s] /\ resync'[s] = resync[s]
      <4>1. CASE UNCHANGED <<pending, resync>>
        BY <4>1, Zenon
      <4>2. ASSUME NEW t \in Observers, Deliver(p, t)
            PROVE  pending'[s] = pending[s] /\ resync'[s] = resync[s]
        <5>1. \A u \in Observers : u # t => pending'[u] = pending[u] /\ resync'[u] = resync[u]
          BY <1>0, <4>2, Delivers, Zenon
        <5> QED BY <2>4, <4>2, <5>1, Zenon
      <4> QED BY <1>5, <4>1, <4>2, PendingFrame, Zenon
    <3>2. \A q \in Threads : Owes(q, s, d) => Owes(q, s, d)'
      BY <1>5, <2>1, <2>4, PublisherOwes, Zenon
    <3> QED BY <2>1, <2>2, <3>1, <3>2, ToldKept, Zenon
  <2> QED BY <2>3, <2>4, Zenon
<1>6. ASSUME NEW t \in Observers, Load(t) \/ Recv(t) \/ Take(t) \/ Requery(t) PROVE Told(s, d)'
  <2>1. UNCHANGED <<closed, chan, pat, msgs, todo>>
    BY <1>6, Zenon DEF Load, Recv, Take, Requery, publishing
  <2>2. CASE s # t
    <3>1. pending'[s] = pending[s] /\ resync'[s] = resync[s] /\ hand'[s] = hand[s]
      BY <1>0, <1>6, <2>2, Zenon DEF Load, Recv, Take, Requery, ObserverTypes
    <3>2. cat'[s] = cat[s] /\ current'[s] = current[s]
      BY <1>0, <1>6, <2>2, Zenon DEF Load, Recv, Take, Requery, ObserverTypes
    <3> QED BY <1>1, <1>2, <2>1, <3>1, <3>2, Zenon
  <2>3. CASE Load(s)
    <3>1. current'[s] = Wants[s]
      BY <1>0, <2>3, Zenon DEF Load, ObserverTypes
    <3> QED BY <3>1, Zenon
  <2>4. CASE Recv(s)
    <3>1. UNCHANGED <<pending, resync, hand, current>> /\ cat[s] # "loading"
      BY <2>4, Zenon DEF Recv
    <3> QED BY <1>1, <1>2, <2>1, <3>1, Zenon
  <2>5. CASE Take(s)
    <3>1. /\ cat[s] = "woken" /\ current' = current
          /\ hand'[s].docs = pending[s] /\ hand'[s].resync = resync[s]
      BY <1>0, <2>5, Takes, Zenon
    <3>2. Told(s, d)
      BY <1>1, <2>1, <3>1, Zenon
    <3>3. hand[s] = Nothing
      BY <3>1, Zenon DEF HandIsRead
    <3>4. hand[s].docs = {} /\ hand[s].resync = FALSE
      BY <3>3 DEF Nothing
    <3>5. \A p \in Threads : Owes(p, s, d) => Owes(p, s, d)'
      BY <2>1, OwesKept, Zenon
    <3>6. d \in pending[s] \/ resync[s] \/ \E p \in Threads : Owes(p, s, d)
      BY <3>2, <3>4, Zenon DEF Told
    <3> QED BY <3>1, <3>5, <3>6, Zenon DEF Told
  <2>6. CASE Requery(s)
    <3>1. UNCHANGED <<pending, resync>> /\ cat[s] = "reading" /\ current[s] \subseteq current'[s]
      BY <1>0, <2>6, Requeries, Zenon
    <3>2. IF hand[s].resync THEN Wants[s] \subseteq current'[s] ELSE hand[s].docs \subseteq current'[s]
      BY <1>0, <2>6, Requeries, Zenon
    <3>3. ~hand[s].resync /\ d \notin hand[s].docs
      BY <3>2, Zenon
    <3>4. Told(s, d)
      BY <1>1, <2>1, <3>1, Zenon
    <3>5. \A p \in Threads : Owes(p, s, d) => Owes(p, s, d)'
      BY <2>1, OwesKept, Zenon
    <3>6. d \in pending[s] \/ resync[s] \/ \E p \in Threads : Owes(p, s, d)
      BY <3>3, <3>4, Zenon DEF Told
    <3> QED BY <3>1, <3>5, <3>6, Zenon DEF Told
  <2> QED BY <1>6, <2>2, <2>3, <2>4, <2>5, <2>6, Zenon
<1>7. ASSUME NEW t \in Subs, RecvRaw(t) \/ Reset(t) PROVE Told(s, d)'
  <2>1. UNCHANGED <<closed, chan, pending, resync, hand, current, pat, msgs, todo>> /\ t \in Raw
    BY <1>7, ReceiveFrame, Zenon
  <2>2. s # t
    BY <2>1, WantsDocs, Zenon
  <2>3. cat'[s] = cat[s]
    BY <1>0, <1>7, <2>2, Zenon DEF RecvRaw, Reset, consuming, ObserverTypes
  <2> QED BY <1>1, <1>2, <2>1, <2>3, Zenon
<1>8. ASSUME NEW t \in Subs, Drop(t) \/ Unsubscribe(t) PROVE Told(s, d)'
  <2>1. UNCHANGED <<closed, pending, resync, hand, current, pat, msgs, todo>>
    BY <1>8, LeaveFrame, Zenon
  <2>2. chan'[t] = "shut"
    BY <1>0, <1>8, Zenon DEF Drop, Unsubscribe, SubTypes
  <2>3. \A u \in Subs : u # t => chan'[u] = chan[u] /\ cat'[u] = cat[u]
    BY <1>0, <1>8, Zenon DEF Drop, Unsubscribe, consuming, SubTypes, ObserverTypes
  <2>4. s # t
    BY <2>2, Zenon
  <2> QED BY <1>0, <1>1, <1>2, <2>1, <2>3, <2>4, Zenon
<1>9. CASE Close
  <2>1. ~CloseFlag
    BY Zenon DEF CloseFlag
  <2>2. closed' = closed /\ close # "open"
    BY <1>9, <2>1, Zenon DEF Close, CloseSwap, CloseShut
  <2> QED BY <2>2, Zenon DEF CloseKnows
<1> QED BY <1>3, <1>4, <1>5, <1>6, <1>7, <1>8, <1>9, Zenon DEF Next, Consume

-----------------------------------------------------------------------------
(* What a full buffer lost is counted. *)

LEMMA OneMore ==
  ASSUME NEW S, IsFiniteSet(S), NEW A, A \subseteq S, NEW x \in S, x \notin A, NEW B, B = A \cup {x}
  PROVE  Cardinality(A) \in Nat /\ Cardinality(B) = Cardinality(A) + 1
<1>1. IsFiniteSet(A)
  BY FS_Subset
<1> QED BY <1>1, FS_CardinalityType, FS_AddElement

LEMMA OneLess ==
  ASSUME NEW S, IsFiniteSet(S), NEW A, A \subseteq S, NEW x \in A, NEW B, B = A \ {x}
  PROVE  Cardinality(A) \in Nat \ {0} /\ Cardinality(B) = Cardinality(A) - 1
<1>1. IsFiniteSet(A)
  BY FS_Subset
<1>2. Cardinality(A) # 0
  BY <1>1, FS_EmptySet
<1> QED BY <1>1, <1>2, FS_CardinalityType, FS_RemoveElement

\* The publishers that found s's buffer full and have not counted the loss.
Counting(s) == {p \in Threads : pat[p] = s}

\* A publisher about to count a loss was sending, and then sends on.
LEMMA CountingKept ==
  ASSUME PublisherTypes, NEW p \in Threads, Publish(p),
         \A t \in Raw : ~Send(p, t) /\ ~Count(p, t), NEW s \in Raw
  PROVE  Counting(s)' = Counting(s) /\ UNCHANGED <<dropped, gone>>
<1>0. /\ pat \in [Threads -> PatSteps]
      /\ s \notin {"idle", "checking", "loading", "observing", "raw", "sending"}
      /\ s \notin Observers
  BY BusAssumption, Zenon DEF PublisherTypes, Subs
<1>1. ASSUME NEW from, NEW to, from # s, to # s, pat[p] = from, pat' = [pat EXCEPT ![p] = to]
      PROVE  Counting(s)' = Counting(s)
  <2>1. pat'[p] = to /\ \A q \in Threads : q # p => pat'[q] = pat[q]
    BY <1>0, <1>1, Zenon
  <2> QED BY <1>1, <2>1, Zenon DEF Counting
<1>2. CASE pat' = pat
  <2>1. Counting(s)' = Counting(s)
    BY <1>2, Zenon DEF Counting
  <2>2. UNCHANGED <<dropped, gone>>
    BY Zenon DEF Publish, Check, LoadObservers, PublishRaw, PruneObservers, Prune, PruneRaw, Deliver, Wake
  <2> QED BY <2>1, <2>2, Zenon
<1>3. CASE Check(p)
  <2>1. pat[p] = "checking" /\ (pat' = [pat EXCEPT ![p] = "idle"] \/ pat' = [pat EXCEPT ![p] = "loading"])
    BY <1>3, Zenon DEF Check, Go
  <2>2. UNCHANGED <<dropped, gone>>
    BY <1>3, Zenon DEF Check
  <2> QED BY <1>0, <1>1, <2>1, <2>2, Zenon
<1>4. CASE LoadObservers(p)
  <2>1. pat[p] = "loading" /\ pat' = [pat EXCEPT ![p] = "observing"] /\ UNCHANGED <<dropped, gone>>
    BY <1>4, Zenon DEF LoadObservers, Go
  <2> QED BY <1>0, <1>1, <2>1, Zenon
<1>5. CASE PruneObservers(p)
  <2>1. pat[p] = "observing" /\ pat' = [pat EXCEPT ![p] = "raw"] /\ UNCHANGED <<dropped, gone>>
    BY <1>5, Zenon DEF PruneObservers, Prune, Go
  <2> QED BY <1>0, <1>1, <2>1, Zenon
<1>6. CASE PublishRaw(p)
  <2>1. pat[p] = "raw" /\ (pat' = [pat EXCEPT ![p] = "idle"] \/ pat' = [pat EXCEPT ![p] = "sending"])
    BY <1>6, Zenon DEF PublishRaw
  <2>2. UNCHANGED <<dropped, gone>>
    BY <1>6, Zenon DEF PublishRaw
  <2> QED BY <1>0, <1>1, <2>1, <2>2, Zenon
<1>7. CASE PruneRaw(p)
  <2>1. pat[p] = "sending" /\ pat' = [pat EXCEPT ![p] = "raw"] /\ UNCHANGED <<dropped, gone>>
    BY <1>7, Zenon DEF PruneRaw, Go
  <2> QED BY <1>0, <1>1, <2>1, Zenon
<1>8. ASSUME NEW t \in Observers, Deliver(p, t), pat' # pat
      PROVE  Counting(s)' = Counting(s) /\ UNCHANGED <<dropped, gone>>
  <2>1. pat[p] = "observing" /\ pat' = [pat EXCEPT ![p] = t] /\ UNCHANGED <<dropped, gone>>
    BY <1>8, Zenon DEF Deliver
  <2> QED BY <1>0, <1>1, <2>1, Zenon
<1>9. ASSUME NEW t \in Observers, Wake(p, t)
      PROVE  Counting(s)' = Counting(s) /\ UNCHANGED <<dropped, gone>>
  <2>1. pat[p] = t /\ pat' = [pat EXCEPT ![p] = "observing"] /\ UNCHANGED <<dropped, gone>>
    BY <1>9, Zenon DEF Wake, Go
  <2> QED BY <1>0, <1>1, <2>1, Zenon
<1> QED BY <1>2, <1>3, <1>4, <1>5, <1>6, <1>7, <1>8, <1>9, Zenon DEF Publish

LEMMA LossIsCountedKept ==
  ASSUME Types, LossIsCounted, Next
  PROVE  LossIsCounted'
<1>0. /\ PublisherTypes /\ pat \in [Threads -> PatSteps]
      /\ dropped \in [Raw -> Nat] /\ gone \in [Raw -> Int] /\ Raw \subseteq Subs
      /\ IsFiniteSet(Threads)
  BY BusAssumption, Zenon DEF Types, PublisherTypes, RawTypes, Subs
<1> SUFFICES ASSUME NEW s \in Raw
             PROVE  gone'[s] = dropped'[s] + Cardinality(Counting(s)')
  BY Zenon DEF LossIsCounted, Counting
<1>1. gone[s] = dropped[s] + Cardinality(Counting(s)) /\ dropped[s] \in Nat /\ gone[s] \in Int
  BY <1>0, Zenon DEF LossIsCounted, Counting
<1>2. Counting(s) \subseteq Threads
  BY Zenon DEF Counting
<1>3. ASSUME Counting(s)' = Counting(s), gone'[s] = gone[s], dropped'[s] = dropped[s]
      PROVE  gone'[s] = dropped'[s] + Cardinality(Counting(s)')
  BY <1>1, <1>3, Zenon
<1>4. ASSUME UNCHANGED <<pat, gone, dropped>> PROVE gone'[s] = dropped'[s] + Cardinality(Counting(s)')
  <2>1. Counting(s)' = Counting(s)
    BY <1>4, Zenon DEF Counting
  <2> QED BY <1>3, <1>4, <2>1, Zenon
<1>5. ASSUME NEW p \in Threads, NEW t \in Raw, Send(p, t)
      PROVE  gone'[s] = dropped'[s] + Cardinality(Counting(s)')
  <2>1. CASE pat' = pat
    <3>1. gone' = gone
      <4>1. gone' = gone \/ pat' = [pat EXCEPT ![p] = t]
        BY <1>5, Zenon DEF Send
      <4>2. pat[p] = "sending" /\ t # "sending"
        BY <1>0, <1>5, BusAssumption, Zenon DEF Send, Subs
      <4>3. pat' # [pat EXCEPT ![p] = t]
        BY <1>0, <2>1, <4>2, Zenon
      <4> QED BY <4>1, <4>3, Zenon
    <3>2. dropped' = dropped
      BY <1>5, Zenon DEF Send
    <3> QED BY <1>4, <2>1, <3>1, <3>2, Zenon
  <2>2. CASE pat' # pat
    <3>1. /\ pat[p] = "sending" /\ pat' = [pat EXCEPT ![p] = t] /\ dropped' = dropped
          /\ gone' = [gone EXCEPT ![t] = gone[t] + 1]
      BY <1>5, <2>2, Zenon DEF Send
    <3>2. t # "sending" /\ s # "sending"
      BY <1>0, BusAssumption, Zenon DEF Subs
    <3>3. pat'[p] = t /\ \A q \in Threads : q # p => pat'[q] = pat[q]
      BY <1>0, <3>1, Zenon
    <3>4. CASE s = t
      <4>1. p \notin Counting(s) /\ Counting(s)' = Counting(s) \cup {p}
        BY <3>1, <3>2, <3>3, <3>4, Zenon DEF Counting
      <4>2. Cardinality(Counting(s)) \in Nat /\ Cardinality(Counting(s)') = Cardinality(Counting(s)) + 1
        BY <1>0, <1>2, <4>1, OneMore
      <4>3. gone'[s] = gone[s] + 1 /\ dropped'[s] = dropped[s]
        BY <1>0, <3>1, <3>4, Zenon
      <4> QED BY <1>1, <4>2, <4>3
    <3>5. CASE s # t
      <4>1. Counting(s)' = Counting(s)
        BY <3>1, <3>2, <3>3, <3>5, Zenon DEF Counting
      <4>2. gone'[s] = gone[s] /\ dropped'[s] = dropped[s]
        BY <1>0, <3>1, <3>5, Zenon
      <4> QED BY <1>3, <4>1, <4>2, Zenon
    <3> QED BY <3>4, <3>5, Zenon
  <2> QED BY <2>1, <2>2, Zenon
<1>6. ASSUME NEW p \in Threads, NEW t \in Raw, Count(p, t)
      PROVE  gone'[s] = dropped'[s] + Cardinality(Counting(s)')
  <2>1. /\ pat[p] = t /\ pat' = [pat EXCEPT ![p] = "sending"] /\ gone' = gone
        /\ dropped' = [dropped EXCEPT ![t] = dropped[t] + 1]
    BY <1>6, Zenon DEF Count, Go
  <2>2. s # "sending"
    BY <1>0, BusAssumption, Zenon DEF Subs
  <2>3. pat'[p] = "sending" /\ \A q \in Threads : q # p => pat'[q] = pat[q]
    BY <1>0, <2>1, Zenon
  <2>4. CASE s = t
    <3>1. p \in Counting(s) /\ Counting(s)' = Counting(s) \ {p}
      BY <2>1, <2>2, <2>3, <2>4, Zenon DEF Counting
    <3>2. Cardinality(Counting(s)) \in Nat \ {0} /\ Cardinality(Counting(s)') = Cardinality(Counting(s)) - 1
      BY <1>0, <1>2, <3>1, OneLess
    <3>3. gone'[s] = gone[s] /\ dropped'[s] = dropped[s] + 1
      BY <1>0, <2>1, <2>4, Zenon
    <3> QED BY <1>1, <3>2, <3>3
  <2>5. CASE s # t
    <3>1. Counting(s)' = Counting(s)
      BY <2>1, <2>2, <2>3, <2>5, Zenon DEF Counting
    <3>2. gone'[s] = gone[s] /\ dropped'[s] = dropped[s]
      BY <1>0, <2>1, <2>5, Zenon
    <3> QED BY <1>3, <3>1, <3>2, Zenon
  <2> QED BY <2>4, <2>5, Zenon
<1>7. ASSUME NEW p \in Threads, Publish(p)
      PROVE  gone'[s] = dropped'[s] + Cardinality(Counting(s)')
  <2>1. CASE \A t \in Raw : ~Send(p, t) /\ ~Count(p, t)
    <3>1. Counting(s)' = Counting(s) /\ UNCHANGED <<dropped, gone>>
      BY <1>0, <1>7, <2>1, CountingKept, Zenon
    <3> QED BY <1>3, <3>1, Zenon
  <2> QED BY <1>5, <1>6, <2>1, Zenon
<1>8. ASSUME NEW p \in Threads, NEW batch \in Batches, Commit(p, batch)
      PROVE  gone'[s] = dropped'[s] + Cardinality(Counting(s)')
  <2>1. pat[p] = "idle" /\ pat' = [pat EXCEPT ![p] = "checking"] /\ UNCHANGED <<dropped, gone>>
    BY <1>8, Zenon DEF Commit, Go
  <2>2. s # "idle" /\ s # "checking"
    BY <1>0, BusAssumption, Zenon DEF Subs
  <2>3. pat'[p] = "checking" /\ \A q \in Threads : q # p => pat'[q] = pat[q]
    BY <1>0, <2>1, Zenon
  <2>4. Counting(s)' = Counting(s)
    BY <2>1, <2>2, <2>3, Zenon DEF Counting
  <2> QED BY <1>3, <2>1, <2>4, Zenon
<1>9. ASSUME NEW t \in Subs, Reset(t)
      PROVE  gone'[s] = dropped'[s] + Cardinality(Counting(s)')
  <2>1. /\ t \in Raw /\ UNCHANGED pat
        /\ gone' = [gone EXCEPT ![t] = gone[t] - dropped[t]] /\ dropped' = [dropped EXCEPT ![t] = 0]
    BY <1>9, Zenon DEF Reset, publishing
  <2>2. Counting(s)' = Counting(s)
    BY <2>1, Zenon DEF Counting
  <2>3. CASE s = t
    <3>1. gone'[s] = gone[s] - dropped[s] /\ dropped'[s] = 0
      BY <1>0, <2>1, <2>3, Zenon
    <3>2. Cardinality(Counting(s)) \in Nat
      BY <1>0, <1>2, FS_Subset, FS_CardinalityType
    <3> QED BY <1>1, <2>2, <3>1, <3>2
  <2>4. CASE s # t
    <3>1. gone'[s] = gone[s] /\ dropped'[s] = dropped[s]
      BY <1>0, <2>1, <2>4, Zenon
    <3> QED BY <1>3, <2>2, <3>1, Zenon
  <2> QED BY <2>3, <2>4, Zenon
<1>10. ASSUME NEW t \in Subs, Subscribe(t) \/ Consume(t) \/ RecvRaw(t) \/ Drop(t) \/ Unsubscribe(t)
       PROVE  UNCHANGED <<pat, gone, dropped>>
  <2>1. CASE Subscribe(t)
    BY <2>1, SubscribeFrame, Zenon
  <2>2. CASE Consume(t)
    BY <2>2, ConsumeFrame, Zenon
  <2>3. CASE RecvRaw(t)
    BY <2>3, Zenon DEF RecvRaw, publishing
  <2>4. CASE Drop(t) \/ Unsubscribe(t)
    BY <2>4, LeaveFrame, Zenon
  <2> QED BY <1>10, <2>1, <2>2, <2>3, <2>4, Zenon
<1>11. CASE Close
  BY <1>4, <1>11, CloseFrame, Zenon
<1> QED BY <1>4, <1>7, <1>8, <1>9, <1>10, <1>11, Zenon DEF Next

-----------------------------------------------------------------------------
(* The theorems. *)

LEMMA Start ==
  ASSUME Init
  PROVE  IInv
<1>1. /\ closed = FALSE /\ map = {} /\ chan = [s \in Subs |-> "none"]
      /\ sat = [s \in Subs |-> "new"] /\ stale = {} /\ close = "open" /\ swept = {}
  BY Zenon DEF Init
<1>2. /\ buffer = [s \in Raw |-> <<>>] /\ dropped = [s \in Raw |-> 0] /\ gone = [s \in Raw |-> 0]
  BY Zenon DEF Init
<1>3. /\ pending = [s \in Observers |-> {}] /\ resync = [s \in Observers |-> FALSE]
      /\ wake = [s \in Observers |-> FALSE] /\ cat = [s \in Subs |-> "none"]
      /\ hand = [s \in Observers |-> Nothing] /\ current = [s \in Observers |-> {}]
  BY Zenon DEF Init
<1>4. /\ pat = [p \in Threads |-> "idle"] /\ msgs = [p \in Threads |-> <<>>]
      /\ todo = [p \in Threads |-> {}] /\ dead = [p \in Threads |-> {}] /\ commits = 0
  BY Zenon DEF Init
<1>5. /\ <<>> \in Seq(Messages) /\ Len(<<>>) <= Capacity /\ 0 \in Nat /\ 0 \in Int
      /\ 0 \in 0 .. MaxCommits /\ Cardinality({}) = 0 /\ 0 <= Capacity
  BY FS_EmptySet, BusAssumption
<1>6. Nothing \in Hands
  BY DEF Nothing, Hands
<1>7. SubTypes
  BY <1>1, Zenon DEF SubTypes, ChanStates, SatSteps, CloseSteps
<1>8. RawTypes
  BY <1>2, <1>5, Zenon DEF RawTypes
<1>9. ObserverTypes
  <2>1. \A s \in Observers : pending[s] = {}
    BY <1>3, Zenon
  <2>2. \A s \in Observers : pending[s] \subseteq Wants[s] /\ Cardinality(pending[s]) <= Capacity
    BY <1>5, <2>1, Zenon
  <2> QED BY <1>3, <1>6, <2>2, Zenon DEF ObserverTypes, CatSteps
<1>10. PublisherTypes
  <2>1. "idle" \notin Raw
    BY BusAssumption, Zenon DEF Subs
  <2>2. \A p \in Threads : pat[p] \notin {"sending"} \cup Raw
    BY <1>4, <2>1, Zenon
  <2> QED BY <1>4, <1>5, <2>2, Zenon DEF PublisherTypes, PatSteps
<1>11. Subscribed /\ OpenIsHeld /\ HandIsRead
  BY <1>1, <1>3, <1>4, Zenon DEF Subscribed, OpenIsHeld, HandIsRead, Subs
<1>12. CloseKnows
  BY <1>1, Zenon DEF CloseKnows
<1>13. StaleIsKnown /\ PendingIsWoken
  BY <1>1, <1>3, Zenon DEF StaleIsKnown, PendingIsWoken, Subs
<1>14. LossIsCounted
  <2> SUFFICES ASSUME NEW s \in Raw PROVE gone[s] = dropped[s] + Cardinality(Counting(s))
    BY Zenon DEF LossIsCounted, Counting
  <2>1. s # "idle"
    BY BusAssumption, Zenon DEF Subs
  <2>2. Counting(s) = {}
    BY <1>4, <2>1, Zenon DEF Counting
  <2>3. gone[s] = 0 /\ dropped[s] = 0
    BY <1>2, Zenon
  <2> QED BY <1>5, <2>2, <2>3
<1> QED BY <1>7, <1>8, <1>9, <1>10, <1>11, <1>12, <1>13, <1>14, Zenon DEF IInv, Types

LEMMA Step ==
  ASSUME IInv, Next
  PROVE  IInv'
<1>1. /\ Types /\ Subscribed /\ OpenIsHeld /\ CloseKnows /\ HandIsRead
      /\ StaleIsKnown /\ PendingIsWoken /\ LossIsCounted
  BY Zenon DEF IInv
<1>2. SubTypes' /\ RawTypes' /\ ObserverTypes' /\ PublisherTypes'
  BY <1>1, SubTypesKept, RawTypesKept, ObserverTypesKept, PublisherTypesKept, Zenon
<1>3. Subscribed' /\ OpenIsHeld' /\ CloseKnows' /\ HandIsRead'
  BY <1>1, SubscribedKept, OpenIsHeldKept, CloseKnowsKept, HandIsReadKept, Zenon
<1>4. StaleIsKnown' /\ PendingIsWoken' /\ LossIsCounted'
  BY <1>1, StaleIsKnownKept, PendingIsWokenKept, LossIsCountedKept, Zenon
<1> QED BY <1>2, <1>3, <1>4, Zenon DEF IInv, Types

\* The inductive invariant holds of every bus: what is open is in a map or in the
\* hands of close, a batch is in hand only while it is read, and with that an
\* observer knows of all it has not read, is woken for what is pending, and a raw
\* subscriber's losses are counted.
THEOREM BusInvariant == Spec => []IInv
<1>1. Init => IInv
  BY Start
<1>2. IInv /\ [Next]_vars => IInv'
  <2>1. ASSUME IInv, UNCHANGED vars PROVE IInv'
    <3>1. /\ UNCHANGED <<closed, map, chan, buffer, dropped, pending, resync, wake, sat, stale>>
          /\ UNCHANGED <<cat, hand, current, pat, msgs, todo, dead, close, swept, commits, gone>>
      BY <2>1, Zenon DEF vars
    <3>2. Types'
      BY <2>1, <3>1, Zenon DEF IInv, Types, SubTypes, RawTypes, ObserverTypes, PublisherTypes
    <3>3. Subscribed' /\ OpenIsHeld' /\ CloseKnows' /\ HandIsRead'
      BY <2>1, <3>1, Zenon DEF IInv, Subscribed, OpenIsHeld, CloseKnows, Emptied, HandIsRead
    <3>4. StaleIsKnown'
      BY <2>1, <3>1, Zenon DEF IInv, StaleIsKnown, Owes
    <3>5. PendingIsWoken' /\ LossIsCounted'
      BY <2>1, <3>1, Zenon DEF IInv, PendingIsWoken, LossIsCounted
    <3> QED BY <3>2, <3>3, <3>4, <3>5, Zenon DEF IInv
  <2> QED BY <2>1, Step, Zenon
<1> QED BY <1>1, <1>2, PTL DEF Spec

\* Every variable keeps its type: a buffer never holds more than its capacity, nor
\* an observer more documents than that, and a report never exceeds what was lost.
THEOREM BusTypes == Spec => []TypeOK
<1>1. IInv => TypeOK
  <2> SUFFICES ASSUME IInv PROVE TypeOK
    OBVIOUS
  <2>1. SubTypes /\ RawTypes /\ ObserverTypes /\ PublisherTypes /\ LossIsCounted
    BY Zenon DEF IInv, Types
  <2>2. gone \in [Raw -> Nat]
    <3>1. \A s \in Raw : gone[s] \in Nat
      <4> SUFFICES ASSUME NEW s \in Raw PROVE gone[s] \in Nat
        OBVIOUS
      <4>1. Counting(s) \subseteq Threads
        BY Zenon DEF Counting
      <4>2. Cardinality(Counting(s)) \in Nat
        BY <4>1, BusAssumption, FS_Subset, FS_CardinalityType
      <4>3. gone[s] = dropped[s] + Cardinality(Counting(s)) /\ dropped[s] \in Nat
        BY <2>1, Zenon DEF LossIsCounted, Counting, RawTypes
      <4> QED BY <4>2, <4>3
    <3>2. gone \in [Raw -> Int]
      BY <2>1, Zenon DEF RawTypes
    <3> QED BY <3>1, <3>2, Zenon
  <2>3. \A s \in Raw : buffer[s] \in Seq(Messages) /\ Len(buffer[s]) <= Capacity
    BY <2>1, Zenon DEF RawTypes
  <2>4. \A s \in Observers : pending[s] \subseteq Wants[s] /\ Cardinality(pending[s]) <= Capacity
    BY <2>1, Zenon DEF ObserverTypes
  <2>5. /\ closed \in BOOLEAN /\ map \subseteq Subs /\ chan \in [Subs -> {"none", "open", "shut"}]
        /\ sat \in [Subs -> {"new", "reading", "read", "subscribed", "refused"}] /\ stale \subseteq Subs
        /\ close \in {"open", "raw", "shutting", "observers", "ending", "closed"} /\ swept \subseteq Subs
    BY <2>1, Zenon DEF SubTypes, ChanStates, SatSteps, CloseSteps
  <2>6. /\ resync \in [Observers -> BOOLEAN] /\ wake \in [Observers -> BOOLEAN]
        /\ cat \in [Subs -> {"none", "loading", "waiting", "woken", "reading", "over"}]
        /\ hand \in [Observers -> [docs : SUBSET Docs, resync : BOOLEAN]]
        /\ current \in [Observers -> SUBSET Docs] /\ dropped \in [Raw -> Nat]
    BY <2>1, Zenon DEF ObserverTypes, RawTypes, CatSteps, Hands
  <2>7. /\ pat \in [Threads -> {"idle", "checking", "loading", "observing", "raw", "sending"} \cup Subs]
        /\ msgs \in [Threads -> Seq(Messages)] /\ todo \in [Threads -> SUBSET Subs]
        /\ dead \in [Threads -> SUBSET Subs] /\ commits \in 0 .. MaxCommits
    BY <2>1, Zenon DEF PublisherTypes, PatSteps
  <2> QED BY <2>2, <2>3, <2>4, <2>5, <2>6, <2>7, Zenon DEF TypeOK
<1> QED BY <1>1, BusInvariant, PTL

\* Of a document whose last committed state an observer's owner has not read, the
\* observer has an entry, a resync, a batch in hand, or a publisher about to tell it.
THEOREM BusTellsObservers == Spec => []StaleIsKnown
<1>1. IInv => StaleIsKnown
  BY Zenon DEF IInv
<1> QED BY <1>1, BusInvariant, PTL

\* What an observer has pending never waits for a wake that nobody is about to send.
THEOREM BusWakesObservers == Spec => []PendingIsWoken
<1>1. IInv => PendingIsWoken
  BY Zenon DEF IInv
<1> QED BY <1>1, BusInvariant, PTL

\* Once close has returned no subscriber is in a map and no channel is open, whoever
\* was subscribing meanwhile.
THEOREM BusClosesAll == Spec => []NoneSurvivesClose
<1>1. IInv => NoneSurvivesClose
  BY CloseIsLast, Zenon DEF IInv, Types
<1> QED BY <1>1, BusInvariant, PTL

\* A message lost at a full buffer is in the count, or about to be counted.
THEOREM BusCountsLosses == Spec => []LossIsCounted
<1>1. IInv => LossIsCounted
  BY Zenon DEF IInv
<1> QED BY <1>1, BusInvariant, PTL
=============================================================================
