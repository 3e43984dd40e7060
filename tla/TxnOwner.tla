------------------------------- MODULE TxnOwner -------------------------------
(****************************************************************************)
(* Explicit transactions, each owned by one actor on a worker               *)
(* (crates/db/src/txn/owner).  A transaction's entry in its worker's table  *)
(* leads to the actor's mailbox; whoever takes the entry out ends the       *)
(* transaction with the one message it then sends.  A finish carries a      *)
(* commit fence, so this module composes CommitFence: a transaction's open  *)
(* waits for the fences like every other begin.                             *)
(*                                                                          *)
(* A caller's key is left out: a caller that does not own a transaction is  *)
(* turned away by Table::admits before anything changes.                    *)
(****************************************************************************)
EXTENDS Integers, FiniteSets, Sequences, Functions

CONSTANTS Txns,       \* transactions begun on the pool
          Requests,   \* statements run on them
          Readers,    \* standalone reads, begun through DB::new_txn
          Attempts    \* engine-retried writes

ASSUME OwnerAssumption == IsFiniteSet(Txns)

VARIABLES table,      \* the transactions with an entry in their owner's table
          slot,       \* the idle slots that hold their transaction
          mailbox,    \* each actor's messages, oldest first
          actor,      \* where each actor is
          stale,      \* idle for at least the sweep's limit
          asking,     \* looked up by the sweep, its Expire not queued yet
          fate,       \* what became of each transaction
          taker,      \* who took the entry out of the table
          taking,     \* how far the taker is: took, looked, sent
          begun,      \* Finish.begun
          last,       \* what the Finish does: commit or discard
          request     \* where each request is, with its transaction

VARIABLES outstanding, word, caller, owner, landed, begin, woken, owed, saw

Fence == INSTANCE CommitFence WITH Commits <- Txns,
                                   Begins <- Txns \cup Readers \cup Attempts,
                                   Unfenced <- Attempts

fenceVars == <<outstanding, word, caller, owner, landed, begin, woken, owed, saw>>
ownVars == <<table, slot, mailbox, actor, stale, asking, fate, taker, taking, begun, last, request>>
vars == <<ownVars, fenceVars>>

Run(r) == [kind |-> "Run", req |-> r]
Finish == [kind |-> "Finish"]
Abandon == [kind |-> "Abandon"]
Expire == [kind |-> "Expire"]
Messages == {Run(r) : r \in Requests} \cup {Finish, Abandon, Expire}

\* A request: not asked yet; on the way to its worker; its entry found; queued;
\* run; answered; or told "not found", at once or after it had been queued.
Asked(step, t) == [step |-> step, txn |-> t]
RequestSteps == {"idle", "hop", "found", "queued", "running", "answered", "notfound", "dropped"}

\* Every part of an owner is one of its states, and the fence's parts theirs.
TypeOK ==
  /\ table \subseteq Txns
  /\ slot \subseteq Txns
  /\ mailbox \in [Txns -> Seq(Messages)]
  /\ actor \in [Txns -> {"unborn", "recv", "running", "replying", "landing",
                         "leaving", "awaiting", "gone"}]
  /\ stale \subseteq Txns
  /\ asking \subseteq Txns
  /\ fate \in [Txns -> {"none", "open", "committed", "failed", "discarded", "expired",
                        "stopped"}]
  /\ taker \in [Txns -> {"none", "finish", "abandon", "owner"}]
  /\ taking \in [Txns -> {"no", "took", "looked", "sent"}]
  /\ begun \subseteq Txns
  /\ last \in [Txns -> {"commit", "discard"}]
  /\ request \in [Requests -> [step : RequestSteps, txn : Txns]]
  /\ Fence!TypeOK

Init ==
  /\ table = {} /\ slot = {} /\ stale = {} /\ asking = {} /\ begun = {}
  /\ mailbox = [t \in Txns |-> <<>>]
  /\ actor = [t \in Txns |-> "unborn"]
  /\ fate = [t \in Txns |-> "none"]
  /\ taker = [t \in Txns |-> "none"]
  /\ taking = [t \in Txns |-> "no"]
  /\ last \in [Txns -> {"commit", "discard"}]
  /\ request \in [Requests -> {Asked("idle", t) : t \in Txns}]
  /\ Fence!Init

----------------------------------------------------------------------------
(* Helpers *)

Holds(t, m) == m \in Range(mailbox[t])
Running(t) == {r \in Requests : request[r] = Asked("running", t)}

\* Messages dropped unread: each request's caller hears "not found".
Dropped(t) == {r \in Requests : request[r].txn = t /\ Holds(t, Run(r))}
Move(rs, step) == [r \in Requests |-> IF r \in rs THEN Asked(step, request[r].txn)
                                                   ELSE request[r]]

\* A Finish dropped unread lets go of its Landing.
LetGoOf(t, finishing) == IF finishing THEN Fence!Fail(t) ELSE UNCHANGED fenceVars

\* The value left the slot and was dropped: its holder's Drop discards it.
Discard(t, how) == fate' = [fate EXCEPT ![t] = IF t \in slot THEN how ELSE @]

\* Requests, sweeps and the actor of a transaction share its worker's thread:
\* one of them goes on only where the others wait.
Yielded(t) ==
  /\ actor[t] \in {"recv", "running", "landing", "awaiting", "gone"}
  /\ t \notin asking
  /\ \A r \in Requests : request[r] # Asked("found", t)

----------------------------------------------------------------------------
(* Owners::begin *)

\* `open` opened the transaction: the value goes to its slot, the entry to the
\* table and the actor starts.
Begun(t) ==
  /\ actor[t] = "unborn"
  /\ begin[t] = "open"
  /\ fate[t] = "none"
  /\ fate' = [fate EXCEPT ![t] = "open"]
  /\ slot' = slot \cup {t}
  /\ table' = table \cup {t}
  /\ actor' = [actor EXCEPT ![t] = "recv"]
  /\ UNCHANGED <<mailbox, stale, asking, taker, taking, begun, last, request, fenceVars>>

\* The actor could not be started: the entry is taken back out and dropped.
NotStarted(t) ==
  /\ actor[t] = "unborn"
  /\ begin[t] = "open"
  /\ fate[t] = "none"
  /\ fate' = [fate EXCEPT ![t] = "discarded"]
  /\ actor' = [actor EXCEPT ![t] = "gone"]
  /\ UNCHANGED <<table, slot, mailbox, stale, asking, taker, taking, begun, last, request, fenceVars>>

----------------------------------------------------------------------------
(* Owners::run: admitted at the edge, sent on the worker *)

RunAdmits(r) ==
  LET t == request[r].txn IN
  /\ request[r].step = "idle"
  /\ fate[t] # "none"
  /\ request' = Move({r}, IF t \in table THEN "hop" ELSE "notfound")
  /\ UNCHANGED <<table, slot, mailbox, actor, stale, asking, fate, taker, taking, begun, last, fenceVars>>

\* Table::send finds the entry, then queues the message: in between, another
\* thread may take the entry and queue its end.
RunFind(r) ==
  LET t == request[r].txn IN
  /\ request[r].step = "hop"
  /\ Yielded(t)
  /\ request' = Move({r}, IF t \in table /\ actor[t] # "gone" THEN "found" ELSE "notfound")
  /\ UNCHANGED <<table, slot, mailbox, actor, stale, asking, fate, taker, taking, begun, last, fenceVars>>

RunSend(r) ==
  LET t == request[r].txn IN
  /\ request[r].step = "found"
  /\ mailbox' = [mailbox EXCEPT ![t] = Append(@, Run(r))]
  /\ request' = Move({r}, "queued")
  /\ UNCHANGED <<table, slot, actor, stale, asking, fate, taker, taking, begun, last, fenceVars>>

----------------------------------------------------------------------------
(* Owners::finish and Owners::abandon, on any thread *)

FinishTake(t) ==
  /\ t \in table
  /\ table' = table \ {t}
  /\ taker' = [taker EXCEPT ![t] = "finish"]
  /\ taking' = [taking EXCEPT ![t] = "took"]
  /\ UNCHANGED <<slot, mailbox, actor, stale, asking, fate, begun, last, request, fenceVars>>

FinishLook(t) ==
  /\ taker[t] = "finish" /\ taking[t] = "took"
  /\ begun' = IF t \in slot THEN begun \cup {t} ELSE begun
  /\ taking' = [taking EXCEPT ![t] = "looked"]
  /\ Fence!New(t)
  /\ UNCHANGED <<table, slot, mailbox, actor, stale, asking, fate, taker, last, request>>

FinishSend(t) ==
  /\ taker[t] = "finish" /\ taking[t] = "looked"
  /\ actor[t] # "gone"
  /\ mailbox' = [mailbox EXCEPT ![t] = Append(@, Finish)]
  /\ taking' = [taking EXCEPT ![t] = "sent"]
  /\ UNCHANGED <<table, slot, actor, stale, asking, fate, taker, begun, last, request, fenceVars>>

\* As if the entry that could not be told were put back.
FinishUnsentKeeps(t) ==
  /\ taker[t] = "finish" /\ taking[t] = "looked"
  /\ actor[t] = "gone"
  /\ taking' = [taking EXCEPT ![t] = "sent"]
  /\ Fence!Fail(t)
  /\ UNCHANGED <<table, slot, mailbox, actor, stale, asking, fate, taker, begun, last, request>>

\* The worker stopped: the message comes back, and the entry's drop discards
\* the transaction still in its slot.
FinishUnsent(t) ==
  /\ taker[t] = "finish" /\ taking[t] = "looked"
  /\ actor[t] = "gone"
  /\ taking' = [taking EXCEPT ![t] = "sent"]
  /\ Discard(t, "stopped")
  /\ slot' = slot \ {t}
  /\ Fence!Fail(t)
  /\ UNCHANGED <<table, mailbox, actor, stale, asking, taker, begun, last, request>>

\* As if an answered caller did not disarm its FenceOnDrop.
FinishDroppedArmed(t) ==
  /\ taking[t] = "sent" /\ caller[t] \in {"waiting", "answered"}
  /\ outstanding' = outstanding + 1
  /\ caller' = [caller EXCEPT ![t] = "raised"]
  /\ UNCHANGED <<ownVars, word, owner, landed, begin, woken, owed, saw>>

\* The caller's future is dropped while it waits for the answer.
FinishDropped(t) == taking[t] = "sent" /\ Fence!AbandonRaise(t) /\ UNCHANGED ownVars

FinishAnswered(t) == taking[t] = "sent" /\ Fence!Answered(t) /\ UNCHANGED ownVars

AbandonTake(t) ==
  /\ t \in table
  /\ table' = table \ {t}
  /\ Discard(t, "discarded")
  /\ slot' = slot \ {t}
  /\ taker' = [taker EXCEPT ![t] = "abandon"]
  /\ taking' = [taking EXCEPT ![t] = "took"]
  /\ UNCHANGED <<mailbox, actor, stale, asking, begun, last, request, fenceVars>>

AbandonSend(t) ==
  /\ taker[t] = "abandon" /\ taking[t] = "took"
  /\ taking' = [taking EXCEPT ![t] = "sent"]
  /\ IF actor[t] = "gone"
     THEN slot' = slot \ {t} /\ Discard(t, "stopped") /\ UNCHANGED mailbox
     ELSE /\ mailbox' = [mailbox EXCEPT ![t] = Append(@, Abandon)]
          /\ UNCHANGED <<slot, fate>>
  /\ UNCHANGED <<table, actor, stale, asking, taker, begun, last, request, fenceVars>>

----------------------------------------------------------------------------
(* Owners::expire_idle: one sweep at a time asks every actor *)

SweepFind(t) ==
  /\ t \in table /\ actor[t] # "gone"
  /\ Yielded(t)
  /\ ~Holds(t, Expire)
  /\ asking' = asking \cup {t}
  /\ UNCHANGED <<table, slot, mailbox, actor, stale, fate, taker, taking, begun, last, request, fenceVars>>

SweepSend(t) ==
  /\ t \in asking
  /\ asking' = asking \ {t}
  /\ mailbox' = [mailbox EXCEPT ![t] = Append(@, Expire)]
  /\ UNCHANGED <<table, slot, actor, stale, fate, taker, taking, begun, last, request, fenceVars>>

IdleLimitPasses(t) ==
  /\ fate[t] = "open" /\ t \notin stale
  /\ stale' = stale \cup {t}
  /\ UNCHANGED <<table, slot, mailbox, actor, asking, fate, taker, taking, begun, last, request, fenceVars>>

----------------------------------------------------------------------------
(* The actor: `own`, one message at a time *)

Next1(t) == Head(mailbox[t])


\* What `leave` and `Drain` throw away: requests hear "not found".
Drain(dropped) == request' = Move(dropped, "dropped")

\* The loop broke: the transaction is dropped, the entry taken if it is still
\* there, the mailbox emptied.  With the entry taken by someone whose message
\* this loop did not see, the actor waits for it.
End(t, seen, finishing, dropped) ==
  /\ Discard(t, "discarded")
  /\ slot' = slot \ {t}
  /\ table' = table \ {t}
  /\ taker' = [taker EXCEPT ![t] = IF t \in table THEN "owner" ELSE @]
  /\ mailbox' = [mailbox EXCEPT ![t] = <<>>]
  /\ actor' = [actor EXCEPT ![t] = IF t \in table \/ seen THEN "gone" ELSE "awaiting"]
  /\ Drain(dropped)
  /\ LetGoOf(t, finishing)
  /\ UNCHANGED <<stale, asking, taking, begun, last>>

Receives(t, kind) == /\ actor[t] = "recv" /\ Yielded(t)
                     /\ mailbox[t] # <<>>
                     /\ Next1(t).kind = kind

\* As if the request ran on a value left in the slot.
ActorRunShares(t) ==
  /\ Receives(t, "Run")
  /\ t \in slot
  /\ actor' = [actor EXCEPT ![t] = "running"]
  /\ mailbox' = [mailbox EXCEPT ![t] = Tail(@)]
  /\ request' = Move({Next1(t).req}, "running")
  /\ UNCHANGED <<table, slot, stale, asking, fate, taker, taking, begun, last, fenceVars>>

ActorRun(t) ==
  /\ Receives(t, "Run")
  /\ t \in slot
  /\ slot' = slot \ {t}
  /\ actor' = [actor EXCEPT ![t] = "running"]
  /\ mailbox' = [mailbox EXCEPT ![t] = Tail(@)]
  /\ request' = Move({Next1(t).req}, "running")
  /\ UNCHANGED <<table, stale, asking, fate, taker, taking, begun, last, fenceVars>>

\* The slot is empty: the transaction was abandoned.
ActorRunAbandoned(t) ==
  /\ Receives(t, "Run")
  /\ t \notin slot
  /\ End(t, FALSE, Holds(t, Finish), Dropped(t))

\* Idle again before the answer goes out.
ActorPushBack(t) ==
  /\ actor[t] = "running" /\ Yielded(t)
  /\ slot' = slot \cup {t}
  /\ actor' = [actor EXCEPT ![t] = "replying"]
  /\ UNCHANGED <<table, mailbox, stale, asking, fate, taker, taking, begun, last, request, fenceVars>>

ActorReply(t) ==
  /\ actor[t] = "replying"
  /\ request' = Move(Running(t), "answered")
  /\ actor' = [actor EXCEPT ![t] = "recv"]
  /\ stale' = stale \ {t}
  /\ UNCHANGED <<table, slot, mailbox, asking, fate, taker, taking, begun, last, fenceVars>>

\* As if a caller that left always abandoned the end.
ActorFinishUndone(t) ==
  /\ Receives(t, "Finish")
  /\ IF t \in slot /\ word[t] # "ABANDONED"
     THEN /\ slot' = slot \ {t}
          /\ actor' = [actor EXCEPT ![t] = "landing"]
          /\ table' = table \ {t}
          /\ mailbox' = [mailbox EXCEPT ![t] = <<>>]
          /\ Drain(Dropped(t))
          /\ UNCHANGED <<stale, asking, fate, taker, taking, begun, last, fenceVars>>
     ELSE End(t, TRUE, TRUE, Dropped(t))

ActorFinish(t) ==
  /\ Receives(t, "Finish")
  /\ IF t \in slot /\ (t \in begun \/ word[t] # "ABANDONED")
     THEN /\ slot' = slot \ {t}
          /\ actor' = [actor EXCEPT ![t] = "landing"]
          /\ table' = table \ {t}
          /\ mailbox' = [mailbox EXCEPT ![t] = <<>>]
          /\ Drain(Dropped(t))
          /\ UNCHANGED <<stale, asking, fate, taker, taking, begun, last, fenceVars>>
     ELSE End(t, TRUE, TRUE, Dropped(t))

\* `last` ran: the commit landed or failed, or the discard is done.
ActorLast(t) ==
  /\ actor[t] = "landing" /\ Yielded(t)
  /\ actor' = [actor EXCEPT ![t] = "gone"]
  /\ \/ /\ last[t] = "commit"
        /\ fate' = [fate EXCEPT ![t] = "committed"]
        /\ Fence!Land(t)
     \/ /\ fate' = [fate EXCEPT ![t] = IF last[t] = "commit" THEN "failed" ELSE "discarded"]
        /\ Fence!Fail(t)
  /\ UNCHANGED <<table, slot, mailbox, stale, asking, taker, taking, begun, last, request>>

ActorAbandon(t) ==
  /\ Receives(t, "Abandon")
  /\ End(t, TRUE, FALSE, Dropped(t))

\* The transaction is dropped first; a finish that takes the entry before the
\* actor has left finds the slot empty.
ActorExpire(t) ==
  /\ Receives(t, "Expire")
  /\ mailbox' = [mailbox EXCEPT ![t] = Tail(@)]
  /\ IF t \in stale
     THEN /\ Discard(t, "expired")
          /\ slot' = slot \ {t}
          /\ actor' = [actor EXCEPT ![t] = "leaving"]
     ELSE UNCHANGED <<slot, actor, fate>>
  /\ UNCHANGED <<table, stale, asking, taker, taking, begun, last, request, fenceVars>>

ActorLeave(t) ==
  /\ actor[t] = "leaving"
  /\ End(t, FALSE, Holds(t, Finish), Dropped(t))

\* The entry's taker sends its end right after taking it: dropped here, with
\* any request or sweep that comes before it.
ActorAwaited(t) ==
  LET ends == Holds(t, Finish) \/ Holds(t, Abandon) IN
  /\ actor[t] = "awaiting" /\ Yielded(t)
  /\ mailbox[t] # <<>>
  /\ mailbox' = [mailbox EXCEPT ![t] = <<>>]
  /\ actor' = [actor EXCEPT ![t] = IF ends THEN "gone" ELSE @]
  /\ Drain(Dropped(t))
  /\ LetGoOf(t, Holds(t, Finish))
  /\ UNCHANGED <<table, slot, stale, asking, fate, taker, taking, begun, last>>

\* Every sender is gone and the channel has been reclaimed.
ChannelReclaimed(t) ==
  /\ actor[t] = "awaiting" /\ Yielded(t)
  /\ mailbox[t] = <<>>
  /\ taking[t] = "sent"
  /\ actor' = [actor EXCEPT ![t] = "gone"]
  /\ UNCHANGED <<table, slot, mailbox, stale, asking, fate, taker, taking, begun, last, request, fenceVars>>

\* The worker stops and drops the actor mid-wait.  Its transaction goes with it,
\* unless it waits in the slot of an entry that is still held.
WorkerStops(t) ==
  /\ actor[t] \in {"recv", "running", "landing", "awaiting"} /\ Yielded(t)
  /\ actor' = [actor EXCEPT ![t] = "gone"]
  /\ mailbox' = [mailbox EXCEPT ![t] = <<>>]
  /\ Drain(Dropped(t) \cup Running(t))
  /\ LET entryHeld == t \in table \/ taking[t] \in {"took", "looked"} IN
     \/ /\ actor[t] \in {"recv", "awaiting"}
        /\ IF entryHeld THEN UNCHANGED <<slot, fate>>
           ELSE slot' = slot \ {t} /\ Discard(t, "stopped")
        /\ LetGoOf(t, Holds(t, Finish))
     \/ /\ actor[t] = "running"
        /\ fate' = [fate EXCEPT ![t] = "stopped"]
        /\ LetGoOf(t, Holds(t, Finish))
        /\ UNCHANGED slot
     \/ /\ actor[t] = "landing"
        /\ fate' = [fate EXCEPT ![t] = IF last[t] = "commit" THEN "failed" ELSE "discarded"]
        /\ Fence!Fail(t)
        /\ UNCHANGED slot
     \/ /\ actor[t] = "landing" /\ last[t] = "commit"
        /\ fate' = [fate EXCEPT ![t] = "committed"]
        /\ Fence!Land(t)
        /\ UNCHANGED slot
  /\ UNCHANGED <<table, stale, asking, taker, taking, begun, last>>

----------------------------------------------------------------------------
Opens(b) == Fence!BeginStep(b) /\ UNCHANGED ownVars

TakerStep(t) ==
  \/ FinishLook(t) \/ FinishSend(t) \/ FinishUnsent(t) \/ FinishAnswered(t)
  \/ AbandonSend(t)
  \/ Fence!CallerStep(t) /\ UNCHANGED ownVars

ActorStep(t) ==
  \/ ActorRun(t) \/ ActorRunAbandoned(t) \/ ActorPushBack(t) \/ ActorReply(t)
  \/ ActorFinish(t) \/ ActorLast(t) \/ ActorAbandon(t) \/ ActorExpire(t)
  \/ ActorLeave(t) \/ ActorAwaited(t)

\* Dropping a settled Landing.
LandingStep(t) ==
  /\ Fence!FinishSwap(t) \/ Fence!FinishLower(t) \/ Fence!FinishNotify(t)
  /\ UNCHANGED ownVars

Next ==
  \/ \E b \in Txns \cup Readers \cup Attempts :
       Opens(b) \/ (Fence!Call(b) /\ UNCHANGED ownVars)
  \/ \E r \in Requests : RunAdmits(r) \/ RunFind(r) \/ RunSend(r)
  \/ \E t \in Txns :
       \/ Begun(t) \/ NotStarted(t)
       \/ FinishTake(t) \/ FinishDropped(t) \/ AbandonTake(t) \/ TakerStep(t)
       \/ SweepFind(t) \/ SweepSend(t) \/ IdleLimitPasses(t)
       \/ ActorStep(t) \/ LandingStep(t)
       \/ ChannelReclaimed(t) \/ WorkerStops(t)

Spec == Init /\ [][Next]_vars

\* A worker polls its ready tasks in turn, so a task gets the thread although
\* others keep taking it (strong fairness); callers run to their next wait, and
\* a begin that can go on is polled.  Nobody has to ask, end, stop or reclaim.
Fairness ==
  /\ \A b \in Txns \cup Readers \cup Attempts : WF_vars(Opens(b))
  /\ \A r \in Requests : SF_vars(RunFind(r)) /\ WF_vars(RunSend(r))
  /\ \A t \in Txns : /\ WF_vars(TakerStep(t)) /\ SF_vars(ActorStep(t))
                     /\ WF_vars(LandingStep(t)) /\ WF_vars(SweepSend(t))

FairSpec == Spec /\ Fairness

----------------------------------------------------------------------------
(* Properties *)

\* owner/actor.rs: one open transaction is in exactly one place: its idle slot,
\* the request the actor runs, or the end it lands; an ended one in none.
OneHolder ==
  \A t \in Txns :
    LET inUse == actor[t] \in {"running", "landing"} IN
    /\ fate[t] = "open" <=> t \in slot \/ inUse
    /\ ~(t \in slot /\ inUse)

\* owner/mod.rs, `finish`: a caller that stops waiting once the end has begun
\* "cannot undo the end": a commit handed over with its transaction idle lands
\* or fails; only the idle sweep or a stopped worker ends it otherwise.
BegunNotUndone ==
  \A t \in Txns : t \in begun /\ last[t] = "commit" => fate[t] # "discarded"

\* owner/actor.rs: who waited for the end of a transaction hears of it only once
\* it is over, and who had a request queued hears "not found" only once it is
\* over or its last work has it.  (A stopped worker's transaction may outlive
\* the news in an entry that is still held.)
ToldOnlyWhenOver ==
  /\ \A t \in Txns : caller[t] = "answered" => fate[t] # "open"
  /\ \A r \in Requests : LET t == request[r].txn IN
       request[r].step = "dropped" /\ t \notin table /\ taking[t] \in {"no", "sent"} =>
         fate[t] # "open" \/ actor[t] = "landing"

\* The owner protocol uses each fence as the commit fence's own specification
\* allows: created once, left once by its caller and finished once by its owner.
RefinesFence == Fence!Spec

\* owner/mod.rs, `send`, `finish`: every queued request and every end handed
\* over is answered, whatever ends the transaction first.
EveryoneHears ==
  /\ \A r \in Requests : request[r].step = "hop" ~> request[r].step \notin {"hop", "found", "queued", "running"}
  /\ \A t \in Txns : caller[t] = "waiting" ~> caller[t] # "waiting"

\* txn/fence.rs: a fence that was raised is lowered however the commit ends, so
\* the begins that wait for it are never shut out for good.
FencesClear == []<>(outstanding = 0)

============================================================================
