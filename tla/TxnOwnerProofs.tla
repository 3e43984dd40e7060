---- MODULE TxnOwnerProofs ----
(****************************************************************************)
(* Proofs about TxnOwner for any transactions, requests, reads and          *)
(* attempts: it implements CommitFence, an open transaction has one holder, *)
(* a begun commit is not undone, a Landing goes with its Finish, and nobody *)
(* is told too early.                                                       *)
(****************************************************************************)
EXTENDS TxnOwner, TLAPS

----------------------------------------------------------------------------
(* The owners' steps are steps of the fence, or leave it alone. *)

\* A step that leaves the fence alone.
LEMMA FenceAlone == ASSUME UNCHANGED fenceVars PROVE UNCHANGED Fence!vars
  BY DEF fenceVars, Fence!vars, Fence!fenceVars, Fence!beginVars

\* Letting go of a Landing, or of none.
LEMMA LettingGo ==
  ASSUME NEW t \in Txns, NEW finishing, LetGoOf(t, finishing)
  PROVE  [Fence!Next]_(Fence!vars)
<1>1. Fence!Fail(t) \/ UNCHANGED fenceVars
  BY DEF LetGoOf
<1>2. CASE Fence!Fail(t)
  BY <1>2 DEF Fence!Next, Fence!OwnerStep
<1>3. CASE UNCHANGED fenceVars
  BY <1>3, FenceAlone
<1> QED BY <1>1, <1>2, <1>3

\* What a begin, a request and the sweep do to the fence.
LEMMA BeginsRefine ==
  ASSUME NEW b \in Txns \cup Readers \cup Attempts,
         Opens(b) \/ (Fence!Call(b) /\ UNCHANGED ownVars)
  PROVE  [Fence!Next]_(Fence!vars)
  BY DEF Opens, Fence!Next

\* What the taker of an entry does to the fence.
LEMMA TakersRefine ==
  ASSUME NEW t \in Txns, FinishTake(t) \/ FinishDropped(t) \/ AbandonTake(t) \/ TakerStep(t)
  PROVE  [Fence!Next]_(Fence!vars)
<1>1. CASE FinishTake(t) \/ FinishSend(t) \/ AbandonTake(t) \/ AbandonSend(t)
  BY <1>1, FenceAlone DEF FinishTake, FinishSend, AbandonTake, AbandonSend
<1>2. CASE FinishLook(t)
  BY <1>2 DEF FinishLook, Fence!Next
<1>3. CASE FinishUnsent(t)
  BY <1>3 DEF FinishUnsent, Fence!Next, Fence!OwnerStep
<1>4. CASE FinishDropped(t) \/ FinishAnswered(t)
  BY <1>4 DEF FinishDropped, FinishAnswered, Fence!Next
<1>5. CASE Fence!CallerStep(t)
  BY <1>5 DEF Fence!Next
<1> QED BY <1>1, <1>2, <1>3, <1>4, <1>5, Zenon DEF TakerStep

\* What the end of an actor's loop does to the fence.
LEMMA EndRefines ==
  ASSUME NEW t \in Txns, NEW seen, NEW finishing, NEW dropped, End(t, seen, finishing, dropped)
  PROVE  [Fence!Next]_(Fence!vars)
  BY LettingGo DEF End

\* What the actor, its worker and a dropped Landing do to the fence.
LEMMA ActorsRefine ==
  ASSUME NEW t \in Txns,
         ActorStep(t) \/ LandingStep(t) \/ ChannelReclaimed(t) \/ WorkerStops(t)
  PROVE  [Fence!Next]_(Fence!vars)
<1>1. CASE \/ ActorRun(t) \/ ActorPushBack(t) \/ ActorReply(t) \/ ActorExpire(t)
           \/ ChannelReclaimed(t)
  BY <1>1, FenceAlone DEF ActorRun, ActorPushBack, ActorReply, ActorExpire, ChannelReclaimed
<1>2. CASE ActorRunAbandoned(t) \/ ActorAbandon(t) \/ ActorLeave(t)
  BY <1>2, EndRefines, Zenon DEF ActorRunAbandoned, ActorAbandon, ActorLeave
<1>3. CASE ActorFinish(t)
  BY <1>3, EndRefines, FenceAlone, Zenon DEF ActorFinish
<1>4. CASE ActorLast(t)
  BY <1>4 DEF ActorLast, Fence!Next, Fence!OwnerStep
<1>5. CASE ActorAwaited(t)
  BY <1>5, LettingGo DEF ActorAwaited
<1>6. CASE LandingStep(t)
  BY <1>6 DEF LandingStep, Fence!Next, Fence!OwnerStep
<1>7. CASE WorkerStops(t)
  <2>1. Fence!Fail(t) \/ Fence!Land(t) \/ LetGoOf(t, Holds(t, Finish))
    BY <1>7 DEF WorkerStops
  <2> QED BY <2>1, LettingGo, Zenon DEF Fence!Next, Fence!OwnerStep
<1> QED BY <1>1, <1>2, <1>3, <1>4, <1>5, <1>6, <1>7, Zenon DEF ActorStep

\* Every step of the owner protocol is a step of the fence or leaves it alone:
\* however a finish ends, its fence is created once, left once and finished once.
THEOREM OwnerRefinesFence == Spec => RefinesFence
<1>1. Init => Fence!Init
  BY DEF Init
<1>2. [Next]_vars => [Fence!Next]_(Fence!vars)
  <2> SUFFICES ASSUME [Next]_vars PROVE [Fence!Next]_(Fence!vars)
    OBVIOUS
  <2>1. CASE UNCHANGED vars
    BY <2>1, FenceAlone DEF vars
  <2>2. CASE \E b \in Txns \cup Readers \cup Attempts :
               Opens(b) \/ (Fence!Call(b) /\ UNCHANGED ownVars)
    BY <2>2, BeginsRefine, Zenon
  <2>3. CASE \E r \in Requests : RunAdmits(r) \/ RunFind(r) \/ RunSend(r)
    BY <2>3, FenceAlone, Zenon DEF RunAdmits, RunFind, RunSend
  <2>4. ASSUME NEW t \in Txns,
               \/ Begun(t) \/ NotStarted(t) \/ SweepFind(t) \/ SweepSend(t)
               \/ IdleLimitPasses(t)
        PROVE  [Fence!Next]_(Fence!vars)
    BY <2>4, FenceAlone, Zenon DEF Begun, NotStarted, SweepFind, SweepSend, IdleLimitPasses
  <2> QED BY <2>1, <2>2, <2>3, <2>4, TakersRefine, ActorsRefine, Zenon DEF Next
<1> QED
  BY <1>1, <1>2, PTL DEF Spec, RefinesFence, Fence!Spec

----------------------------------------------------------------------------
(* Mailboxes and requests. *)

\* What a sequence holds after an element was added.
LEMMA RangeOfAppend ==
  ASSUME NEW S, NEW s \in Seq(S), NEW m \in S
  PROVE  Append(s, m) \in Seq(S) /\ Range(Append(s, m)) = Range(s) \cup {m}
<1>1. /\ Append(s, m) \in Seq(S)
      /\ DOMAIN s = 1 .. Len(s) /\ DOMAIN Append(s, m) = 1 .. Len(s) + 1 /\ Len(s) \in Nat
      /\ \A i \in 1 .. Len(s) : Append(s, m)[i] = s[i]
      /\ Append(s, m)[Len(s) + 1] = m
  OBVIOUS
<1>2. 1 .. Len(s) + 1 = (1 .. Len(s)) \cup {Len(s) + 1}
  BY <1>1
<1> DEFINE a == Append(s, m)
<1> HIDE DEF a
<1>3. Range(a) = {a[i] : i \in (1 .. Len(s)) \cup {Len(s) + 1}}
  BY <1>1, <1>2 DEF Range, a
<1>4. Range(a) = {a[i] : i \in 1 .. Len(s)} \cup {a[Len(s) + 1]}
  BY <1>3
<1>5. {a[i] : i \in 1 .. Len(s)} = Range(s)
  BY <1>1 DEF Range, a
<1> QED BY <1>1, <1>4, <1>5, Zenon DEF a

\* What a sequence holds after its first element was taken.
LEMMA RangeOfTail ==
  ASSUME NEW S, NEW s \in Seq(S), s # <<>>, NEW m, m # Head(s)
  PROVE  Tail(s) \in Seq(S) /\ (m \in Range(Tail(s)) <=> m \in Range(s))
<1>1. /\ Tail(s) \in Seq(S) /\ Len(s) \in Nat \ {0}
      /\ DOMAIN s = 1 .. Len(s) /\ DOMAIN Tail(s) = 1 .. Len(s) - 1
      /\ \A i \in 1 .. Len(s) - 1 : Tail(s)[i] = s[i + 1]
      /\ Head(s) = s[1]
  OBVIOUS
<1> DEFINE r == Tail(s)
<1> DEFINE n == Len(s)
<1>2. /\ n \in Nat \ {0} /\ DOMAIN s = 1 .. n /\ DOMAIN r = 1 .. n - 1 /\ m # s[1]
      /\ \A i \in 1 .. n - 1 : r[i] = s[i + 1]
  BY <1>1
<1> HIDE DEF r, n
<1>3. ASSUME NEW i \in 1 .. n, m = s[i] PROVE m \in Range(r)
  <2>1. i - 1 \in 1 .. n - 1 /\ (i - 1) + 1 = i
    BY <1>2, <1>3
  <2>2. r[i - 1] = m
    BY <2>1, <1>2, <1>3
  <2> QED BY <2>1, <2>2, <1>2, Zenon DEF Range
<1>4. ASSUME NEW i \in 1 .. n - 1, m = r[i] PROVE m \in Range(s)
  BY <1>2, <1>4 DEF Range
<1>5. m \in Range(r) <=> m \in Range(s)
  BY <1>2, <1>3, <1>4 DEF Range
<1> QED BY <1>1, <1>5 DEF r

MailTypes == mailbox \in [Txns -> Seq(Messages)]
AskTypes == request \in [Requests -> [step : RequestSteps, txn : Txns]]

\* What a step does to a mailbox.
Queues(t, m) == mailbox' = [mailbox EXCEPT ![t] = Append(@, m)]
Pops(t) == mailbox' = [mailbox EXCEPT ![t] = Tail(@)]
Empties(t) == mailbox' = [mailbox EXCEPT ![t] = <<>>]
Moves(rs, step) == request' = Move(rs, step)

\* What is in a mailbox after a message was queued.
LEMMA Queued ==
  ASSUME MailTypes, NEW t \in Txns, NEW m \in Messages, Queues(t, m)
  PROVE  /\ MailTypes'
         /\ \A u \in Txns : Range(mailbox'[u]) =
              IF u = t THEN Range(mailbox[u]) \cup {m} ELSE Range(mailbox[u])
<1>1. mailbox \in [Txns -> Seq(Messages)]
  BY DEF MailTypes
<1> DEFINE a == Append(mailbox[t], m)
<1>2. a \in Seq(Messages) /\ Range(a) = Range(mailbox[t]) \cup {m}
  BY <1>1, RangeOfAppend
<1>3. mailbox' = [mailbox EXCEPT ![t] = a]
  BY DEF Queues
<1> HIDE DEF a
<1>4. mailbox' \in [Txns -> Seq(Messages)] /\ mailbox'[t] = a
  BY ONLY <1>1, <1>2, <1>3, t \in Txns
<1>5. \A u \in Txns \ {t} : mailbox'[u] = mailbox[u]
  BY ONLY <1>1, <1>3
<1>6. \A u \in Txns : Range(mailbox'[u]) =
        IF u = t THEN Range(mailbox[u]) \cup {m} ELSE Range(mailbox[u])
  BY ONLY <1>2, <1>4, <1>5, Zenon
<1> QED BY <1>4, <1>6 DEF MailTypes

\* What is in a mailbox after its oldest message, which ends nothing, was taken.
LEMMA Received ==
  ASSUME MailTypes, NEW t \in Txns, mailbox[t] # <<>>, Next1(t).kind \in {"Run", "Expire"}, Pops(t)
  PROVE  /\ MailTypes'
         /\ \A u \in Txns : /\ Finish \in Range(mailbox'[u]) <=> Finish \in Range(mailbox[u])
                            /\ Abandon \in Range(mailbox'[u]) <=> Abandon \in Range(mailbox[u])
<1>1. mailbox \in [Txns -> Seq(Messages)]
  BY DEF MailTypes
<1> DEFINE a == Tail(mailbox[t])
<1>2. Finish # Head(mailbox[t]) /\ Abandon # Head(mailbox[t])
  BY DEF Next1, Finish, Abandon
<1>3. /\ a \in Seq(Messages)
      /\ Finish \in Range(a) <=> Finish \in Range(mailbox[t])
      /\ Abandon \in Range(a) <=> Abandon \in Range(mailbox[t])
  BY <1>1, <1>2, RangeOfTail
<1>4. mailbox' = [mailbox EXCEPT ![t] = a]
  BY DEF Pops
<1> HIDE DEF a
<1>5. mailbox' \in [Txns -> Seq(Messages)] /\ mailbox'[t] = a
  BY ONLY <1>1, <1>3, <1>4, t \in Txns
<1>6. \A u \in Txns \ {t} : mailbox'[u] = mailbox[u]
  BY ONLY <1>1, <1>4
<1>7. \A u \in Txns : /\ Finish \in Range(mailbox'[u]) <=> Finish \in Range(mailbox[u])
                      /\ Abandon \in Range(mailbox'[u]) <=> Abandon \in Range(mailbox[u])
  BY ONLY <1>3, <1>5, <1>6, Zenon
<1> QED BY <1>5, <1>7 DEF MailTypes

\* What is in a mailbox after it was emptied.
LEMMA Emptied ==
  ASSUME MailTypes, NEW t \in Txns, Empties(t)
  PROVE  /\ MailTypes'
         /\ \A u \in Txns : Range(mailbox'[u]) = IF u = t THEN {} ELSE Range(mailbox[u])
<1> DEFINE a == <<>>
<1>1. Range(a) = {} /\ a \in Seq(Messages)
  BY DEF Range
<1>2. mailbox \in [Txns -> Seq(Messages)] /\ mailbox' = [mailbox EXCEPT ![t] = a]
  BY DEF MailTypes, Empties
<1> HIDE DEF a
<1>3. mailbox' \in [Txns -> Seq(Messages)] /\ mailbox'[t] = a
  BY ONLY <1>1, <1>2, t \in Txns
<1>4. \A u \in Txns \ {t} : mailbox'[u] = mailbox[u]
  BY ONLY <1>2
<1>5. \A u \in Txns : Range(mailbox'[u]) = IF u = t THEN {} ELSE Range(mailbox[u])
  BY ONLY <1>1, <1>3, <1>4, Zenon
<1> QED BY <1>3, <1>5 DEF MailTypes

\* A request that moves stays with its transaction.
LEMMA Moved ==
  ASSUME AskTypes, NEW rs, NEW step \in RequestSteps, Moves(rs, step)
  PROVE  /\ AskTypes'
         /\ \A r \in Requests : /\ request[r].txn \in Txns
                                /\ request'[r].txn = request[r].txn
                                /\ request'[r].step = IF r \in rs THEN step ELSE request[r].step
  BY DEF AskTypes, Moves, Move, Asked

----------------------------------------------------------------------------
(* Types. *)

\* The parts of an owner that are neither messages nor requests nor its fence.
PartTypes ==
  /\ table \subseteq Txns /\ slot \subseteq Txns /\ stale \subseteq Txns
  /\ asking \subseteq Txns /\ begun \subseteq Txns
  /\ actor \in [Txns -> {"unborn", "recv", "running", "replying", "landing",
                         "leaving", "awaiting", "gone"}]
  /\ fate \in [Txns -> {"none", "open", "committed", "failed", "discarded", "expired",
                        "stopped"}]
  /\ taker \in [Txns -> {"none", "finish", "abandon", "owner"}]
  /\ taking \in [Txns -> {"no", "took", "looked", "sent"}]
  /\ last \in [Txns -> {"commit", "discard"}]

LEMMA TypeOKSplits == TypeOK <=> PartTypes /\ MailTypes /\ AskTypes /\ Fence!TypeOK
  BY Zenon DEF TypeOK, PartTypes, MailTypes, AskTypes

\* What the end of an actor's loop does to the parts.
LEMMA EndParts ==
  ASSUME PartTypes, NEW t \in Txns, NEW seen, NEW finishing, NEW dropped,
         End(t, seen, finishing, dropped)
  PROVE  PartTypes'
  BY DEF PartTypes, End, Discard

\* What a step of one transaction does to its parts.
LEMMA PartsKept ==
  ASSUME PartTypes, NEW t \in Txns,
         \/ Begun(t) \/ NotStarted(t) \/ FinishTake(t) \/ AbandonTake(t) \/ TakerStep(t)
         \/ SweepFind(t) \/ SweepSend(t) \/ IdleLimitPasses(t)
         \/ ActorStep(t) \/ ChannelReclaimed(t) \/ WorkerStops(t)
  PROVE  PartTypes'
<1>1. CASE Begun(t) \/ NotStarted(t)
  BY <1>1, Zenon DEF Begun, NotStarted, PartTypes
<1>2. CASE FinishTake(t) \/ AbandonTake(t)
  BY <1>2 DEF FinishTake, AbandonTake, Discard, PartTypes
<1>3. CASE FinishLook(t)
  BY <1>3, Zenon DEF FinishLook, PartTypes
<1>4. CASE FinishSend(t) \/ FinishUnsent(t)
  BY <1>4, Zenon DEF FinishSend, FinishUnsent, Discard, PartTypes
<1>5. CASE FinishAnswered(t) \/ (Fence!CallerStep(t) /\ UNCHANGED ownVars)
  BY <1>5, Zenon DEF FinishAnswered, ownVars, PartTypes
<1>6. CASE AbandonSend(t)
  BY <1>6, Zenon DEF AbandonSend, Discard, PartTypes
<1>7. CASE SweepFind(t) \/ SweepSend(t) \/ IdleLimitPasses(t)
  BY <1>7, Zenon DEF SweepFind, SweepSend, IdleLimitPasses, PartTypes
<1>8. CASE ActorRun(t) \/ ActorPushBack(t) \/ ActorReply(t)
  BY <1>8 DEF ActorRun, ActorPushBack, ActorReply, PartTypes
<1>9. CASE ActorRunAbandoned(t) \/ ActorAbandon(t) \/ ActorLeave(t)
  BY <1>9, EndParts, Zenon DEF ActorRunAbandoned, ActorAbandon, ActorLeave
<1>10. CASE ActorFinish(t)
  <2>1. CASE End(t, TRUE, TRUE, Dropped(t))
    BY <2>1, EndParts, Zenon
  <2>2. CASE ~End(t, TRUE, TRUE, Dropped(t))
    BY <1>10, <2>2, Zenon DEF ActorFinish, PartTypes
  <2> QED BY <2>1, <2>2, Zenon
<1>11. CASE ActorLast(t)
  BY <1>11 DEF ActorLast, PartTypes
<1>12. CASE ActorExpire(t)
  BY <1>12 DEF ActorExpire, Discard, PartTypes
<1>13. CASE ActorAwaited(t) \/ ChannelReclaimed(t)
  BY <1>13, Zenon DEF ActorAwaited, ChannelReclaimed, PartTypes
<1>14. CASE WorkerStops(t)
  BY <1>14, Zenon DEF WorkerStops, Discard, PartTypes
<1> QED
  BY <1>1, <1>2, <1>3, <1>4, <1>5, <1>6, <1>7, <1>8, <1>9, <1>10, <1>11, <1>12, <1>13, <1>14, Zenon
  DEF TakerStep, ActorStep

\* What a step of one transaction does to the mailboxes.
LEMMA MailKept ==
  ASSUME MailTypes, NEW t \in Txns,
         \/ Begun(t) \/ NotStarted(t) \/ FinishTake(t) \/ AbandonTake(t) \/ TakerStep(t)
         \/ SweepFind(t) \/ SweepSend(t) \/ IdleLimitPasses(t)
         \/ ActorStep(t) \/ ChannelReclaimed(t) \/ WorkerStops(t)
  PROVE  MailTypes'
<1> DEFINE Same == UNCHANGED mailbox
<1> DEFINE Adds == \E m \in {Finish, Abandon, Expire} : Queues(t, m)
<1> DEFINE Takes == mailbox[t] # <<>> /\ Next1(t).kind \in {"Run", "Expire"} /\ Pops(t)
<1>1. Same => MailTypes'
  BY Zenon DEF MailTypes
<1>2. Adds => MailTypes'
  BY Queued, Zenon DEF Messages
<1>3. Takes => MailTypes'
  BY Received, Zenon
<1>4. Empties(t) => MailTypes'
  BY Emptied, Zenon
<1>5. TakerStep(t) \/ SweepSend(t) => Same \/ Adds
  BY Zenon DEF TakerStep, FinishLook, FinishSend, FinishUnsent, FinishAnswered, AbandonSend, ownVars,
         SweepSend, Queues
<1>6. ActorRun(t) \/ ActorExpire(t) => Takes
  BY Zenon DEF ActorRun, ActorExpire, Receives, Pops
<1>7. /\ ActorRunAbandoned(t) \/ ActorAbandon(t) \/ ActorLeave(t) => Empties(t)
      /\ ActorFinish(t) \/ ActorAwaited(t) \/ WorkerStops(t) => Empties(t)
  BY Zenon DEF ActorRunAbandoned, ActorAbandon, ActorLeave, End, ActorFinish, ActorAwaited, WorkerStops,
         Empties
<1>8. ASSUME \/ Begun(t) \/ NotStarted(t) \/ FinishTake(t) \/ AbandonTake(t) \/ SweepFind(t)
             \/ IdleLimitPasses(t) \/ ChannelReclaimed(t) \/ ActorPushBack(t) \/ ActorReply(t)
             \/ ActorLast(t)
      PROVE  Same
  BY <1>8, Zenon DEF Begun, NotStarted, FinishTake, AbandonTake, SweepFind, IdleLimitPasses,
         ChannelReclaimed, ActorPushBack, ActorReply, ActorLast
<1> HIDE DEF Same, Adds, Takes
<1> QED
  BY <1>1, <1>2, <1>3, <1>4, <1>5, <1>6, <1>7, <1>8, Zenon DEF ActorStep

\* What a step of one transaction does to the requests.
LEMMA AsksKept ==
  ASSUME AskTypes, NEW t \in Txns,
         \/ Begun(t) \/ NotStarted(t) \/ FinishTake(t) \/ AbandonTake(t) \/ TakerStep(t)
         \/ SweepFind(t) \/ SweepSend(t) \/ IdleLimitPasses(t)
         \/ ActorStep(t) \/ ChannelReclaimed(t) \/ WorkerStops(t)
  PROVE  AskTypes'
<1> DEFINE Same == UNCHANGED request
<1>1. Same => AskTypes'
  BY Zenon DEF AskTypes
<1>2. ASSUME NEW rs, NEW step \in {"running", "answered", "dropped"}, Moves(rs, step) PROVE AskTypes'
  BY <1>2, Moved, Zenon DEF RequestSteps
<1>3. ActorRun(t) => Moves({Next1(t).req}, "running")
  BY DEF ActorRun, Moves
<1>4. ActorReply(t) => Moves(Running(t), "answered")
  BY Zenon DEF ActorReply, Moves
<1>5. /\ ActorRunAbandoned(t) \/ ActorAbandon(t) \/ ActorLeave(t) => Moves(Dropped(t), "dropped")
      /\ ActorFinish(t) \/ ActorAwaited(t) => Moves(Dropped(t), "dropped")
      /\ WorkerStops(t) => Moves(Dropped(t) \cup Running(t), "dropped")
  BY Zenon DEF ActorRunAbandoned, ActorAbandon, ActorLeave, End, ActorFinish, ActorAwaited, WorkerStops,
         Drain, Moves
<1>6. ASSUME \/ Begun(t) \/ NotStarted(t) \/ FinishTake(t) \/ AbandonTake(t) \/ SweepFind(t)
             \/ SweepSend(t) \/ IdleLimitPasses(t) \/ ChannelReclaimed(t) \/ ActorPushBack(t)
             \/ ActorLast(t) \/ ActorExpire(t) \/ TakerStep(t)
      PROVE  Same
  BY <1>6, Zenon DEF Begun, NotStarted, FinishTake, AbandonTake, SweepFind, SweepSend, IdleLimitPasses,
         ChannelReclaimed, ActorPushBack, ActorLast, ActorExpire, TakerStep, FinishLook,
         FinishSend, FinishUnsent, FinishAnswered, AbandonSend, ownVars
<1>7. Moves({Next1(t).req}, "running") \/ Moves(Running(t), "answered") => AskTypes'
  BY <1>2, Zenon
<1>8. Moves(Dropped(t), "dropped") \/ Moves(Dropped(t) \cup Running(t), "dropped") => AskTypes'
  BY <1>2, Zenon
<1> HIDE DEF Same
<1> QED
  BY <1>1, <1>3, <1>4, <1>5, <1>6, <1>7, <1>8, Zenon DEF ActorStep

\* What a request's own steps do to the types.
LEMMA RequestTypes ==
  ASSUME PartTypes, MailTypes, AskTypes, NEW r \in Requests, RunAdmits(r) \/ RunFind(r) \/ RunSend(r)
  PROVE  PartTypes' /\ MailTypes' /\ AskTypes'
<1>1. request[r].txn \in Txns
  BY Zenon DEF AskTypes
<1>2. PartTypes'
  BY Zenon DEF RunAdmits, RunFind, RunSend, PartTypes
<1>3. MailTypes'
  <2>1. UNCHANGED mailbox \/ Queues(request[r].txn, Run(r))
    BY Zenon DEF RunAdmits, RunFind, RunSend, Queues
  <2>2. Run(r) \in Messages
    BY Zenon DEF Messages
  <2> QED BY <1>1, <2>1, <2>2, Queued, Zenon DEF MailTypes
<1>4. AskTypes'
  <2>1. \E step \in {"hop", "notfound", "found", "queued"} : Moves({r}, step)
    BY Zenon DEF RunAdmits, RunFind, RunSend, Moves
  <2> QED BY <2>1, Moved, Zenon DEF RequestSteps
<1> QED BY <1>2, <1>3, <1>4, Zenon

\* Every step keeps the types of the owners' own parts.
LEMMA StepTypes ==
  ASSUME PartTypes, MailTypes, AskTypes, [Next]_vars
  PROVE  PartTypes' /\ MailTypes' /\ AskTypes'
<1>1. CASE UNCHANGED ownVars
  BY <1>1 DEF ownVars, PartTypes, MailTypes, AskTypes
<1>2. CASE \E r \in Requests : RunAdmits(r) \/ RunFind(r) \/ RunSend(r)
  BY <1>2, RequestTypes, Zenon
<1>3. ASSUME NEW t \in Txns,
             \/ Begun(t) \/ NotStarted(t) \/ FinishTake(t) \/ AbandonTake(t) \/ TakerStep(t)
             \/ SweepFind(t) \/ SweepSend(t) \/ IdleLimitPasses(t)
             \/ ActorStep(t) \/ ChannelReclaimed(t) \/ WorkerStops(t)
      PROVE  PartTypes' /\ MailTypes' /\ AskTypes'
  BY <1>3, PartsKept, MailKept, AsksKept, Zenon
<1>4. ASSUME NEW t \in Txns, FinishDropped(t) \/ LandingStep(t) PROVE UNCHANGED ownVars
  BY <1>4 DEF FinishDropped, LandingStep
<1>5. ASSUME NEW b \in Txns \cup Readers \cup Attempts,
             Opens(b) \/ (Fence!Call(b) /\ UNCHANGED ownVars)
      PROVE  UNCHANGED ownVars
  BY <1>5, Zenon DEF Opens
<1>6. UNCHANGED vars => UNCHANGED ownVars
  BY Zenon DEF vars, ownVars
<1> QED BY <1>1, <1>2, <1>3, <1>4, <1>5, <1>6, Zenon DEF Next

----------------------------------------------------------------------------
(* The inductive invariant. *)

\* What each part of a transaction says of the others.  A transaction is open
\* where somebody holds it; the entry has one taker, who sends one end; a Landing
\* goes with its Finish: until its fence is settled it is with the taker that is
\* about to send it, with the queued message or with the end the actor lands.
Sound(t) ==
  /\ fate[t] = "none" <=> actor[t] = "unborn"
  /\ fate[t] = "open" <=> t \in slot \/ actor[t] \in {"running", "landing"}
  /\ actor[t] \in {"unborn", "running", "landing", "leaving", "awaiting"} => t \notin slot
  /\ actor[t] = "unborn" => t \notin table /\ taker[t] = "none"
  /\ t \in table => taker[t] = "none"
  /\ taker[t] \in {"none", "owner"} => taking[t] = "no"
  /\ t \in begun => taker[t] = "finish"
  /\ Holds(t, Abandon) => taker[t] = "abandon"
  /\ Holds(t, Finish) \/ actor[t] = "landing" => taker[t] = "finish" /\ taking[t] = "sent"
  /\ actor[t] = "landing" => ~Holds(t, Finish)
  /\ owner[t] # "none" => taker[t] = "finish" /\ taking[t] \in {"looked", "sent"}
  /\ owner[t] = "working" <=> \/ taker[t] = "finish" /\ taking[t] = "looked"
                             \/ Holds(t, Finish)
                             \/ actor[t] = "landing"
  /\ owner[t] \notin {"none", "working"} => fate[t] # "open"
  /\ caller[t] = "answered" => owner[t] \notin {"none", "working"}
  /\ t \in begun /\ last[t] = "commit" => fate[t] # "discarded"

\* A transaction that is over, or with its end, or in the slot of an entry that
\* outlived its actor.
Over(t) ==
  /\ fate[t] # "none"
  /\ \/ fate[t] # "open" \/ actor[t] = "landing"
     \/ actor[t] = "gone" /\ (t \in table \/ taking[t] \in {"took", "looked"})

\* A request dropped unread was for such a transaction.
SoundlyDropped(r) == request[r].step = "dropped" => Over(request[r].txn)

IInv ==
  /\ TypeOK
  /\ \A t \in Txns : Sound(t)
  /\ \A r \in Requests : SoundlyDropped(r)

\* The message the actor takes next is in its mailbox.
LEMMA FirstMessage ==
  ASSUME MailTypes, NEW t \in Txns, mailbox[t] # <<>>
  PROVE  /\ Next1(t).kind = "Finish" => Holds(t, Finish)
         /\ Next1(t).kind = "Abandon" => Holds(t, Abandon)
<1>1. mailbox[t] \in Seq(Messages)
  BY DEF MailTypes
<1> DEFINE s == mailbox[t]
<1>2. s \in Seq(Messages) /\ s # <<>>
  BY <1>1
<1> HIDE DEF s
<1>3. Head(s) = s[1] /\ 1 \in DOMAIN s /\ Head(s) \in Messages
  BY <1>2
<1>4. Head(s) \in Range(s)
  BY <1>3, Zenon DEF Range
<1>5. \A m \in Messages : /\ m.kind = "Finish" => m = Finish
                          /\ m.kind = "Abandon" => m = Abandon
  BY DEF Messages, Run, Finish, Abandon, Expire
<1> QED BY <1>3, <1>4, <1>5, Zenon DEF s, Next1, Holds

\* What the leaves below need to know of the fence's types.
LEMMA FenceParts ==
  ASSUME Fence!TypeOK
  PROVE  /\ caller \in [Txns -> Fence!CallerSteps]
         /\ owner \in [Txns -> Fence!OwnerSteps]
  BY Zenon DEF Fence!TypeOK

\* The ends that a mailbox holds are the ones it held.
SameEnds == \A u \in Txns : /\ Holds(u, Finish)' <=> Holds(u, Finish)
                            /\ Holds(u, Abandon)' <=> Holds(u, Abandon)

LEMMA EndsUnsent ==
  ASSUME MailTypes, NEW t \in Txns,
         \/ UNCHANGED mailbox
         \/ \E m \in Messages \ {Finish, Abandon} : Queues(t, m)
         \/ mailbox[t] # <<>> /\ Next1(t).kind \in {"Run", "Expire"} /\ Pops(t)
  PROVE  SameEnds
<1>1. CASE UNCHANGED mailbox
  BY <1>1 DEF SameEnds, Holds
<1>2. CASE \E m \in Messages \ {Finish, Abandon} : Queues(t, m)
  <2>1. PICK m \in Messages \ {Finish, Abandon} : Queues(t, m)
    BY <1>2
  <2>2. \A u \in Txns : Range(mailbox'[u]) =
              IF u = t THEN Range(mailbox[u]) \cup {m} ELSE Range(mailbox[u])
    BY <2>1, Queued, Zenon
  <2> QED BY <2>2, Zenon DEF SameEnds, Holds
<1>3. CASE mailbox[t] # <<>> /\ Next1(t).kind \in {"Run", "Expire"} /\ Pops(t)
  BY <1>3, Received, Zenon DEF SameEnds, Holds
<1> QED BY <1>1, <1>2, <1>3, Zenon

\* What a value's Drop does: a transaction that was in its slot is discarded.
LEMMA Discards ==
  ASSUME PartTypes, NEW t \in Txns, NEW how, Discard(t, how)
  PROVE  \/ t \in slot /\ fate' = [fate EXCEPT ![t] = how]
         \/ t \notin slot /\ fate' = fate
  BY Zenon DEF Discard, PartTypes

\* A step of one transaction leaves the others alone.
Alone(u) ==
  /\ fate'[u] = fate[u] /\ actor'[u] = actor[u] /\ taker'[u] = taker[u] /\ taking'[u] = taking[u]
  /\ last'[u] = last[u] /\ caller'[u] = caller[u] /\ owner'[u] = owner[u]
  /\ u \in slot' <=> u \in slot
  /\ u \in table' <=> u \in table
  /\ u \in begun' <=> u \in begun
  /\ Holds(u, Finish)' <=> Holds(u, Finish)
  /\ Holds(u, Abandon)' <=> Holds(u, Abandon)

LEMMA OthersSound ==
  ASSUME NEW u, Sound(u), Alone(u)
  PROVE  Sound(u)'
  BY Zenon DEF Sound, Alone

\* A transaction begins, or its entry is taken.
LEMMA TakenSound ==
  ASSUME TypeOK, NEW t \in Txns, NEW u \in Txns, Sound(t), Sound(u),
         Begun(t) \/ NotStarted(t) \/ FinishTake(t) \/ AbandonTake(t)
  PROVE  Sound(u)'
<1>1. PartTypes /\ MailTypes /\ Fence!TypeOK
  BY TypeOKSplits, Zenon
<1>2. UNCHANGED <<mailbox, fenceVars>>
  BY Zenon DEF Begun, NotStarted, FinishTake, AbandonTake
<1>3. SameEnds
  BY <1>1, <1>2, EndsUnsent, Zenon
<1>4. UNCHANGED <<caller, owner>>
  BY <1>2, Zenon DEF fenceVars
<1>5. CASE Begun(t)
  BY <1>1, <1>3, <1>4, <1>5, Zenon DEF Begun, Sound, PartTypes, SameEnds
<1>6. CASE NotStarted(t)
  BY <1>1, <1>3, <1>4, <1>6, Zenon DEF NotStarted, Sound, PartTypes, SameEnds
<1>7. CASE FinishTake(t)
  BY <1>1, <1>3, <1>4, <1>7, Zenon DEF FinishTake, Sound, PartTypes, SameEnds
<1>8. CASE AbandonTake(t)
  <2>1. \/ t \in slot /\ fate' = [fate EXCEPT ![t] = "discarded"]
        \/ t \notin slot /\ fate' = fate
    BY <1>1, <1>8, Discards, Zenon DEF AbandonTake
  <2>2. CASE t \in slot
    <3>1. /\ t \in table /\ table' = table \ {t} /\ slot' = slot \ {t}
          /\ fate' = [fate EXCEPT ![t] = "discarded"]
          /\ taker' = [taker EXCEPT ![t] = "abandon"] /\ taking' = [taking EXCEPT ![t] = "took"]
          /\ UNCHANGED <<actor, begun, last>>
      BY <1>8, <2>1, <2>2, Zenon DEF AbandonTake
    <3>2. CASE u = t
      BY <1>1, <1>3, <1>4, <2>2, <3>1, <3>2, Zenon DEF Sound, PartTypes, SameEnds
    <3>3. CASE u # t
      BY <1>1, <1>3, <1>4, <3>1, <3>3, Zenon DEF Sound, PartTypes, SameEnds
    <3> QED BY <3>2, <3>3, Zenon
  <2>3. CASE t \notin slot
    BY <1>1, <1>3, <1>4, <1>8, <2>1, <2>3, Zenon DEF AbandonTake, Sound, PartTypes, SameEnds
  <2> QED BY <2>2, <2>3, Zenon
<1> QED BY <1>5, <1>6, <1>7, <1>8, Zenon

\* The entry's taker looks, sends its end or finds the actor gone.
LEMMA SentSound ==
  ASSUME TypeOK, NEW t \in Txns, NEW u \in Txns, Sound(t), Sound(u),
         FinishLook(t) \/ FinishSend(t) \/ FinishUnsent(t) \/ AbandonSend(t)
  PROVE  Sound(u)'
<1>1. PartTypes /\ MailTypes /\ Fence!TypeOK
  BY TypeOKSplits
<1>2. /\ caller \in [Txns -> Fence!CallerSteps]
      /\ owner \in [Txns -> Fence!OwnerSteps]
  BY <1>1, FenceParts
<1>3. CASE FinishLook(t)
  <2>1. SameEnds
    BY <1>1, <1>3, EndsUnsent, Zenon DEF FinishLook
  <2> QED BY <1>1, <1>2, <1>3, <2>1, Zenon DEF FinishLook, Fence!New, Sound, PartTypes, SameEnds
<1>4. CASE FinishSend(t)
  <2>1. UNCHANGED <<caller, owner>>
    BY <1>4, Zenon DEF FinishSend, fenceVars
  <2>2. Queues(t, Finish)
    BY <1>4, Zenon DEF FinishSend, Queues
  <2>3. Finish \in Messages /\ Finish # Abandon
    BY Zenon DEF Messages, Finish, Abandon
  <2>4. \A v \in Txns : Range(mailbox'[v]) =
          IF v = t THEN Range(mailbox[v]) \cup {Finish} ELSE Range(mailbox[v])
    BY <1>1, <2>2, <2>3, Queued, Zenon
  <2>5. \A v \in Txns : /\ Holds(v, Finish)' <=> Holds(v, Finish) \/ v = t
                        /\ Holds(v, Abandon)' <=> Holds(v, Abandon)
    BY <2>3, <2>4, Zenon DEF Holds
  <2> QED BY <1>1, <1>4, <2>1, <2>5, Zenon DEF FinishSend, Sound, PartTypes
<1>5. CASE FinishUnsent(t)
  <2>1. SameEnds
    BY <1>1, <1>5, EndsUnsent, Zenon DEF FinishUnsent
  <2> QED
    BY <1>1, <1>2, <1>5, <2>1, SMTT(30)
    DEF FinishUnsent, Discard, Fence!Fail, Sound, PartTypes, SameEnds
<1>6. CASE AbandonSend(t)
  <2>1. UNCHANGED <<caller, owner>>
    BY <1>6, Zenon DEF AbandonSend, fenceVars
  <2>2. CASE actor[t] = "gone"
    <3>1. SameEnds
      BY <1>1, <1>6, <2>2, EndsUnsent, Zenon DEF AbandonSend
    <3>2. \/ t \in slot /\ fate' = [fate EXCEPT ![t] = "stopped"]
          \/ t \notin slot /\ fate' = fate
      BY <1>1, <1>6, <2>2, Discards, Zenon DEF AbandonSend
    <3>3. /\ slot' = slot \ {t} /\ taking' = [taking EXCEPT ![t] = "sent"]
          /\ taker[t] = "abandon" /\ UNCHANGED <<table, actor, taker, begun, last>>
      BY <1>6, <2>2, Zenon DEF AbandonSend
    <3>4. CASE u = t
      BY <1>1, <2>1, <2>2, <3>1, <3>2, <3>3, <3>4, Zenon DEF Sound, PartTypes, SameEnds
    <3>5. CASE u # t
      BY <1>1, <2>1, <3>1, <3>2, <3>3, <3>5, Zenon DEF Sound, PartTypes, SameEnds
    <3> QED BY <3>4, <3>5, Zenon
  <2>3. CASE actor[t] # "gone"
    <3>1. Queues(t, Abandon)
      BY <1>6, <2>3, Zenon DEF AbandonSend, Queues
    <3>2. Abandon \in Messages /\ Finish # Abandon
      BY Zenon DEF Messages, Finish, Abandon
    <3>3. \A v \in Txns : Range(mailbox'[v]) =
            IF v = t THEN Range(mailbox[v]) \cup {Abandon} ELSE Range(mailbox[v])
      BY <1>1, <3>1, <3>2, Queued, Zenon
    <3>4. \A v \in Txns : /\ Holds(v, Abandon)' <=> Holds(v, Abandon) \/ v = t
                          /\ Holds(v, Finish)' <=> Holds(v, Finish)
      BY <3>2, <3>3, Zenon DEF Holds
    <3> QED BY <1>1, <1>6, <2>1, <2>3, <3>4, Zenon DEF AbandonSend, Sound, PartTypes
  <2> QED BY <2>2, <2>3, Zenon
<1> QED BY <1>3, <1>4, <1>5, <1>6

\* The caller of a finish leaves or is answered, and the Landing is dropped.
LEMMA LeftSound ==
  ASSUME TypeOK, NEW t \in Txns, NEW u \in Txns, Sound(u), UNCHANGED ownVars,
         \/ Fence!AbandonRaise(t) \/ Fence!Answered(t) \/ Fence!CallerStep(t)
         \/ Fence!FinishSwap(t) \/ Fence!FinishLower(t) \/ Fence!FinishNotify(t)
  PROVE  Sound(u)'
<1>1. PartTypes /\ MailTypes /\ Fence!TypeOK
  BY TypeOKSplits, Zenon
<1>2. /\ caller \in [Txns -> Fence!CallerSteps]
      /\ owner \in [Txns -> Fence!OwnerSteps]
  BY <1>1, FenceParts, Zenon
<1>3. /\ owner'[u] = "none" <=> owner[u] = "none"
      /\ owner'[u] = "working" <=> owner[u] = "working"
      /\ caller'[u] = "answered" => caller[u] = "answered" \/ owner[u] \notin {"none", "working"}
  BY <1>2, Zenon
  DEF Fence!AbandonRaise, Fence!Answered, Fence!CallerStep, Fence!AbandonSwap, Fence!AbandonLower,
      Fence!AbandonNotify, Fence!FinishSwap, Fence!FinishLower, Fence!FinishNotify
<1>4. SameEnds
  BY <1>1, EndsUnsent, Zenon DEF ownVars
<1> QED BY <1>3, <1>4, Zenon DEF Sound, ownVars, SameEnds

\* Requests, sweeps and begins.
LEMMA AskedSound ==
  ASSUME TypeOK, NEW t \in Txns, NEW u \in Txns, Sound(u),
         SweepFind(t) \/ SweepSend(t) \/ IdleLimitPasses(t)
  PROVE  Sound(u)'
<1>1. PartTypes /\ MailTypes /\ Fence!TypeOK
  BY TypeOKSplits, Zenon
<1>2. UNCHANGED mailbox \/ Queues(t, Expire)
  BY Zenon DEF SweepFind, SweepSend, IdleLimitPasses, Queues
<1>3. Expire \in Messages \ {Finish, Abandon}
  BY Zenon DEF Messages, Expire, Finish, Abandon
<1>4. SameEnds
  BY <1>1, <1>2, <1>3, EndsUnsent, Zenon
<1>5. UNCHANGED <<table, slot, actor, fate, taker, taking, begun, last, caller, owner>>
  BY Zenon DEF SweepFind, SweepSend, IdleLimitPasses, fenceVars
<1> QED BY <1>4, <1>5, Zenon DEF Sound, SameEnds

LEMMA RequestSound ==
  ASSUME TypeOK, NEW r \in Requests, NEW u \in Txns, Sound(u),
         RunAdmits(r) \/ RunFind(r) \/ RunSend(r)
  PROVE  Sound(u)'
<1>1. MailTypes /\ AskTypes
  BY TypeOKSplits, Zenon
<1>2. request[r].txn \in Txns
  BY <1>1, Zenon DEF AskTypes
<1>3. UNCHANGED mailbox \/ Queues(request[r].txn, Run(r))
  BY Zenon DEF RunAdmits, RunFind, RunSend, Queues
<1>4. Run(r) \in Messages \ {Finish, Abandon}
  BY Zenon DEF Messages, Run, Finish, Abandon
<1>5. SameEnds
  BY <1>1, <1>2, <1>3, <1>4, EndsUnsent, Zenon
<1>6. UNCHANGED <<table, slot, actor, fate, taker, taking, begun, last, caller, owner>>
  BY Zenon DEF RunAdmits, RunFind, RunSend, fenceVars
<1> QED BY <1>5, <1>6, Zenon DEF Sound, SameEnds

LEMMA BeginSound ==
  ASSUME TypeOK, NEW b \in Txns \cup Readers \cup Attempts, NEW u \in Txns, Sound(u),
         Opens(b) \/ (Fence!Call(b) /\ UNCHANGED ownVars)
  PROVE  Sound(u)'
<1>1. UNCHANGED <<ownVars, caller, owner>>
  BY Zenon DEF Opens, Fence!BeginStep, Fence!NewTxnLook, Fence!Arm, Fence!ClearedLook, Fence!Wake,
         Fence!Open, Fence!Call, Fence!fenceVars
<1> QED BY <1>1, Zenon DEF Sound, ownVars, Holds

\* The actor's mailbox is emptied.
NoEnds(t) == \A u \in Txns : /\ Holds(u, Finish)' <=> u # t /\ Holds(u, Finish)
                             /\ Holds(u, Abandon)' <=> u # t /\ Holds(u, Abandon)

LEMMA EndsEmptied ==
  ASSUME MailTypes, NEW t \in Txns, Empties(t)
  PROVE  NoEnds(t)
<1>1. \A u \in Txns : Range(mailbox'[u]) = IF u = t THEN {} ELSE Range(mailbox[u])
  BY Emptied, Zenon
<1> QED BY <1>1, Zenon DEF NoEnds, Holds

\* Letting go of a Landing, or of none.
LEMMA LetGo ==
  ASSUME Fence!TypeOK, NEW t \in Txns, NEW finishing \in BOOLEAN, LetGoOf(t, finishing)
  PROVE  /\ finishing => owner[t] = "working"
         /\ caller' = caller
         /\ owner' = IF finishing THEN [owner EXCEPT ![t] = "settled"] ELSE owner
  BY DEF LetGoOf, Fence!Fail, fenceVars

\* The actor takes a request, or gives its transaction back, or answers.
LEMMA RunSound ==
  ASSUME TypeOK, NEW t \in Txns, NEW u \in Txns, Sound(t), Sound(u),
         ActorRun(t) \/ ActorPushBack(t) \/ ActorReply(t) \/ ActorExpire(t) \/ ChannelReclaimed(t)
  PROVE  Sound(u)'
<1>1. PartTypes /\ MailTypes /\ Fence!TypeOK
  BY TypeOKSplits, Zenon
<1>2. UNCHANGED <<caller, owner>>
  BY Zenon DEF ActorRun, ActorPushBack, ActorReply, ActorExpire, ChannelReclaimed, fenceVars
<1>3. \/ UNCHANGED mailbox
      \/ mailbox[t] # <<>> /\ Next1(t).kind \in {"Run", "Expire"} /\ Pops(t)
  BY Zenon DEF ActorRun, ActorPushBack, ActorReply, ActorExpire, ChannelReclaimed, Receives, Pops
<1>4. SameEnds
  BY <1>1, <1>3, EndsUnsent, Zenon
<1>5. CASE ActorRun(t)
  BY <1>1, <1>2, <1>4, <1>5, Zenon DEF ActorRun, Receives, Sound, PartTypes, SameEnds
<1>6. CASE ActorPushBack(t)
  BY <1>1, <1>2, <1>4, <1>6, Zenon DEF ActorPushBack, Sound, PartTypes, SameEnds
<1>7. CASE ActorReply(t) \/ ChannelReclaimed(t)
  <2>1. CASE ActorReply(t)
    BY <1>1, <1>2, <1>4, <2>1, Zenon DEF ActorReply, Sound, PartTypes, SameEnds
  <2>2. CASE ChannelReclaimed(t)
    BY <1>1, <1>2, <1>4, <2>2, Zenon DEF ChannelReclaimed, Sound, PartTypes, SameEnds
  <2> QED BY <1>7, <2>1, <2>2, Zenon
<1>8. CASE ActorExpire(t)
  <2>1. CASE t \in stale
    <3>1. \/ t \in slot /\ fate' = [fate EXCEPT ![t] = "expired"]
          \/ t \notin slot /\ fate' = fate
      BY <1>1, <1>8, <2>1, Discards, Zenon DEF ActorExpire
    <3>2. /\ slot' = slot \ {t} /\ actor' = [actor EXCEPT ![t] = "leaving"]
          /\ actor[t] = "recv" /\ UNCHANGED <<table, taker, taking, begun, last>>
      BY <1>8, <2>1, Zenon DEF ActorExpire, Receives
    <3>3. CASE u = t
      BY <1>1, <1>2, <1>4, <3>1, <3>2, <3>3, Zenon DEF Sound, PartTypes, SameEnds
    <3>4. CASE u # t
      BY <1>1, <1>2, <1>4, <3>1, <3>2, <3>4, Zenon DEF Sound, PartTypes, SameEnds
    <3> QED BY <3>3, <3>4, Zenon
  <2>2. CASE t \notin stale
    BY <1>2, <1>4, <1>8, <2>2, Zenon DEF ActorExpire, Sound, SameEnds
  <2> QED BY <2>1, <2>2, Zenon
<1> QED BY <1>5, <1>6, <1>7, <1>8, Zenon

\* The actor's loop ends.  A transaction still in its slot is discarded only
\* when its end was not a begun commit.
LEMMA EndSound ==
  ASSUME TypeOK, NEW t \in Txns, NEW u \in Txns, Sound(t), Sound(u),
         NEW seen \in BOOLEAN, NEW finishing \in BOOLEAN, NEW dropped,
         End(t, seen, finishing, dropped),
         actor[t] \notin {"unborn", "running", "landing"},
         finishing <=> Holds(t, Finish),
         t \in slot => t \notin begun /\ seen,
         t \in slot => t \notin table
  PROVE  Sound(u)'
<1>1. PartTypes /\ MailTypes /\ Fence!TypeOK
  BY TypeOKSplits, Zenon
<1>2. NoEnds(t)
  BY <1>1, EndsEmptied, Zenon DEF End, Empties
<1>3. owner \in [Txns -> Fence!OwnerSteps]
  BY <1>1, FenceParts
<1>4. /\ finishing => owner[t] = "working"
      /\ caller' = caller
      /\ owner' = IF finishing THEN [owner EXCEPT ![t] = "settled"] ELSE owner
  BY <1>1, LetGo DEF End
<1> QED BY <1>1, <1>2, <1>3, <1>4, SMTT(60) DEF End, Discard, Sound, PartTypes, NoEnds

\* The messages that end the actor's loop.
LEMMA EndedSound ==
  ASSUME TypeOK, NEW t \in Txns, NEW u \in Txns, Sound(t), Sound(u),
         ActorRunAbandoned(t) \/ ActorAbandon(t) \/ ActorLeave(t) \/ ActorFinish(t)
  PROVE  Sound(u)'
<1>1. PartTypes /\ MailTypes /\ Fence!TypeOK
  BY TypeOKSplits
<1>2. Holds(t, Finish) \in BOOLEAN
  BY DEF Holds
<1>3. CASE ActorRunAbandoned(t)
  <2>1. /\ End(t, FALSE, Holds(t, Finish), Dropped(t))
        /\ t \notin slot /\ actor[t] = "recv"
    BY <1>3, Zenon DEF ActorRunAbandoned, Receives
  <2> QED BY <1>2, <2>1, EndSound, Zenon
<1>4. CASE ActorLeave(t)
  <2>1. /\ End(t, FALSE, Holds(t, Finish), Dropped(t))
        /\ t \notin slot /\ actor[t] = "leaving"
    BY <1>4, Zenon DEF ActorLeave, Sound
  <2> QED BY <1>2, <2>1, EndSound, Zenon
<1>5. CASE ActorAbandon(t)
  <2>1. /\ End(t, TRUE, FALSE, Dropped(t))
        /\ actor[t] = "recv" /\ Holds(t, Abandon)
    BY <1>1, <1>5, FirstMessage, Zenon DEF ActorAbandon, Receives
  <2>2. ~Holds(t, Finish) /\ t \notin begun /\ t \notin table
    BY <2>1 DEF Sound
  <2> QED BY <2>1, <2>2, EndSound, Zenon
<1>6. CASE ActorFinish(t)
  <2>1. actor[t] = "recv" /\ Holds(t, Finish)
    BY <1>1, <1>6, FirstMessage, Zenon DEF ActorFinish, Receives
  <2>2. t \notin table
    BY <2>1, Zenon DEF Sound
  <2>3. CASE t \in slot /\ (t \in begun \/ word[t] # "ABANDONED")
    <3>1. NoEnds(t)
      BY <1>1, <1>6, <2>3, EndsEmptied, Zenon DEF ActorFinish, Empties
    <3>2. UNCHANGED <<caller, owner>>
      BY <1>6, <2>3, Zenon DEF ActorFinish, fenceVars
    <3>3. /\ slot' = slot \ {t} /\ actor' = [actor EXCEPT ![t] = "landing"]
          /\ table' = table \ {t} /\ UNCHANGED <<fate, taker, taking, begun, last>>
      BY <1>6, <2>3, Zenon DEF ActorFinish
    <3> QED
      BY <1>1, <2>1, <2>3, <3>1, <3>2, <3>3, Zenon DEF Sound, PartTypes, NoEnds
  <2>4. CASE ~(t \in slot /\ (t \in begun \/ word[t] # "ABANDONED"))
    <3>1. End(t, TRUE, TRUE, Dropped(t))
      BY <1>6, <2>4, Zenon DEF ActorFinish
    <3> QED BY <2>1, <2>2, <2>4, <3>1, EndSound, Zenon
  <2> QED BY <2>3, <2>4, Zenon
<1> QED BY <1>3, <1>4, <1>5, <1>6

\* The end is done; the actor hears its end after it had left; its worker stops.
LEMMA GoneSound ==
  ASSUME TypeOK, NEW t \in Txns, NEW u \in Txns, Sound(t), Sound(u),
         ActorLast(t) \/ ActorAwaited(t) \/ WorkerStops(t)
  PROVE  Sound(u)'
<1>1. PartTypes /\ MailTypes /\ Fence!TypeOK
  BY TypeOKSplits
<1>2. /\ caller \in [Txns -> Fence!CallerSteps]
      /\ owner \in [Txns -> Fence!OwnerSteps]
  BY <1>1, FenceParts
<1>3. Holds(t, Finish) \in BOOLEAN
  BY DEF Holds
<1> DEFINE Settles == owner[t] = "working" /\ caller' = caller /\ owner' = [owner EXCEPT ![t] = "settled"]
<1>4. Fence!Land(t) \/ Fence!Fail(t) => Settles
  BY DEF Fence!Land, Fence!Fail
<1>5. LetGoOf(t, Holds(t, Finish)) =>
        IF Holds(t, Finish) THEN Settles ELSE caller' = caller /\ owner' = owner
  BY <1>1, <1>3, LetGo
<1> HIDE DEF Settles
<1>6. CASE ActorLast(t)
  <2>1. SameEnds
    BY <1>1, <1>6, EndsUnsent, Zenon DEF ActorLast
  <2>2. Settles
    BY <1>4, <1>6, Zenon DEF ActorLast
  <2>3. CASE u = t
    BY <1>1, <1>2, <1>6, <2>1, <2>2, <2>3, SMTT(30)
    DEF ActorLast, Sound, PartTypes, SameEnds, Settles
  <2>4. CASE u # t
    <3>1. Alone(u)
      BY <1>1, <1>2, <1>6, <2>1, <2>2, <2>4, Zenon
      DEF Alone, ActorLast, PartTypes, SameEnds, Settles
    <3> QED BY <3>1, OthersSound, Zenon
  <2> QED BY <2>3, <2>4, Zenon
<1>7. CASE ActorAwaited(t)
  <2>1. NoEnds(t)
    BY <1>1, <1>7, EndsEmptied, Zenon DEF ActorAwaited, Empties
  <2>2. IF Holds(t, Finish) THEN Settles ELSE caller' = caller /\ owner' = owner
    BY <1>5, <1>7 DEF ActorAwaited
  <2>3. UNCHANGED <<table, slot, fate, taker, taking, begun, last>>
    BY <1>7 DEF ActorAwaited
  <2>4. actor[t] = "awaiting" /\ \E a \in {"awaiting", "gone"} : actor' = [actor EXCEPT ![t] = a]
    BY <1>7, Zenon DEF ActorAwaited
  <2>5. CASE u = t
    BY <1>1, <1>2, <2>1, <2>2, <2>3, <2>4, <2>5, SMTT(30)
    DEF Sound, PartTypes, NoEnds, Settles
  <2>6. CASE u # t
    <3>1. Alone(u)
      BY <1>1, <1>2, <2>1, <2>2, <2>3, <2>4, <2>6, Zenon
      DEF Alone, PartTypes, NoEnds, Settles
    <3> QED BY <3>1, OthersSound, Zenon
  <2> QED BY <2>5, <2>6, Zenon
<1>8. CASE WorkerStops(t)
  <2>1. NoEnds(t)
    <3>1. Empties(t)
      BY <1>8, Zenon DEF WorkerStops, Empties
    <3> QED BY <1>1, <3>1, EndsEmptied
  <2>2. /\ UNCHANGED <<table, taker, taking, begun, last>>
        /\ actor' = [actor EXCEPT ![t] = "gone"]
    BY <1>8, Zenon DEF WorkerStops
  <2>3. CASE actor[t] = "landing"
    <3>1. Settles /\ UNCHANGED slot
      BY <1>4, <1>8, <2>3, Zenon DEF WorkerStops
    <3>2. \E how \in {"committed", "failed", "discarded"} :
            /\ fate' = [fate EXCEPT ![t] = how]
            /\ last[t] = "commit" => how # "discarded"
      BY <1>8, <2>3, Zenon DEF WorkerStops
    <3>3. CASE u = t
      BY <1>1, <1>2, <2>1, <2>2, <2>3, <3>1, <3>2, <3>3, SMTT(30)
      DEF Sound, PartTypes, NoEnds, Settles
    <3>4. CASE u # t
      <4>1. Alone(u)
        BY <1>1, <1>2, <2>1, <2>2, <2>3, <3>1, <3>2, <3>4, Zenon
        DEF Alone, PartTypes, NoEnds, Settles
      <4> QED BY <4>1, OthersSound, Zenon
    <3> QED BY <3>3, <3>4, Zenon
  <2>4. CASE actor[t] # "landing"
    <3>1. IF Holds(t, Finish) THEN Settles ELSE caller' = caller /\ owner' = owner
      BY <1>5, <1>8, <2>4, Zenon DEF WorkerStops
    <3>2. CASE actor[t] = "running"
      <4>1. fate' = [fate EXCEPT ![t] = "stopped"] /\ UNCHANGED slot
        BY <1>8, <3>2, Zenon DEF WorkerStops
      <4>2. CASE u = t
        BY <1>1, <1>2, <2>1, <2>2, <3>1, <3>2, <4>1, <4>2, SMTT(30)
        DEF Sound, PartTypes, NoEnds, Settles
      <4>3. CASE u # t
        <5>1. Alone(u)
          BY <1>1, <1>2, <2>1, <2>2, <3>1, <3>2, <4>1, <4>3, Zenon
          DEF Alone, PartTypes, NoEnds, Settles
        <5> QED BY <5>1, OthersSound, Zenon
      <4> QED BY <4>2, <4>3, Zenon
    <3>3. CASE actor[t] \in {"recv", "awaiting"}
      <4>1. IF t \in table \/ taking[t] \in {"took", "looked"} THEN UNCHANGED <<slot, fate>>
            ELSE slot' = slot \ {t} /\ Discard(t, "stopped")
        BY <1>8, <3>3, Zenon DEF WorkerStops
      <4>2. CASE u = t
        BY <1>1, <1>2, <2>1, <2>2, <3>1, <3>3, <4>1, <4>2, SMTT(30)
        DEF Discard, Sound, PartTypes, NoEnds, Settles
      <4>3. CASE u # t
        <5>1. Alone(u)
          BY <1>1, <1>2, <2>1, <2>2, <3>1, <3>3, <4>1, <4>3, Zenon
          DEF Alone, Discard, PartTypes, NoEnds, Settles
        <5> QED BY <5>1, OthersSound, Zenon
      <4> QED BY <4>2, <4>3, Zenon
    <3> QED BY <1>8, <2>4, <3>2, <3>3, Zenon DEF WorkerStops
  <2> QED BY <2>3, <2>4
<1> QED BY <1>6, <1>7, <1>8

\* Every step keeps every transaction sound.
LEMMA StepSound ==
  ASSUME TypeOK, \A t \in Txns : Sound(t), [Next]_vars
  PROVE  \A u \in Txns : Sound(u)'
<1> SUFFICES ASSUME NEW u \in Txns PROVE Sound(u)'
  BY Zenon
<1>1. CASE UNCHANGED vars
  BY <1>1, Zenon DEF vars, ownVars, fenceVars, Sound, Holds
<1>2. CASE \E b \in Txns \cup Readers \cup Attempts :
             Opens(b) \/ (Fence!Call(b) /\ UNCHANGED ownVars)
  BY <1>2, BeginSound, Zenon
<1>3. CASE \E r \in Requests : RunAdmits(r) \/ RunFind(r) \/ RunSend(r)
  BY <1>3, RequestSound, Zenon
<1>4. ASSUME NEW t \in Txns,
             FinishDropped(t) \/ FinishAnswered(t) \/ LandingStep(t)
               \/ (Fence!CallerStep(t) /\ UNCHANGED ownVars)
      PROVE  Sound(u)'
  BY <1>4, LeftSound, Zenon DEF FinishDropped, FinishAnswered, LandingStep
<1> QED
  BY <1>1, <1>2, <1>3, <1>4, TakenSound, SentSound, AskedSound, RunSound, EndedSound, GoneSound, Zenon
  DEF Next, TakerStep, ActorStep

----------------------------------------------------------------------------
(* Requests that were dropped. *)

\* A transaction that is over stays over.
LEMMA StaysOver ==
  ASSUME TypeOK, NEW t \in Txns, NEW u \in Txns, Sound(t), Over(u),
         \/ Begun(t) \/ NotStarted(t) \/ FinishTake(t) \/ AbandonTake(t) \/ TakerStep(t)
         \/ SweepFind(t) \/ SweepSend(t) \/ IdleLimitPasses(t)
         \/ ActorStep(t) \/ ChannelReclaimed(t) \/ WorkerStops(t)
  PROVE  Over(u)'
<1>1. PartTypes
  BY TypeOKSplits, Zenon
<1>2. CASE Begun(t) \/ NotStarted(t)
  BY <1>1, <1>2, Zenon DEF Begun, NotStarted, Over, PartTypes
<1>3. CASE FinishTake(t) \/ AbandonTake(t)
  <2>1. CASE FinishTake(t)
    BY <1>1, <2>1, Zenon DEF FinishTake, Over, PartTypes
  <2>2. CASE AbandonTake(t)
    BY <1>1, <2>2, Zenon DEF AbandonTake, Discard, Over, PartTypes
  <2> QED BY <1>3, <2>1, <2>2, Zenon
<1>4. CASE FinishLook(t) \/ FinishSend(t) \/ FinishUnsent(t)
  <2>1. CASE FinishLook(t)
    BY <1>1, <2>1, Zenon DEF FinishLook, Over, PartTypes
  <2>2. CASE FinishSend(t)
    BY <1>1, <2>2, Zenon DEF FinishSend, Over, PartTypes
  <2>3. CASE FinishUnsent(t)
    BY <1>1, <2>3, Zenon DEF FinishUnsent, Discard, Over, Sound, PartTypes
  <2> QED BY <1>4, <2>1, <2>2, <2>3, Zenon
<1>5. CASE AbandonSend(t)
  BY <1>1, <1>5, Zenon DEF AbandonSend, Discard, Over, Sound, PartTypes
<1>6. CASE \/ FinishAnswered(t) \/ (Fence!CallerStep(t) /\ UNCHANGED ownVars)
           \/ SweepFind(t) \/ SweepSend(t) \/ IdleLimitPasses(t)
  BY <1>6, Zenon DEF FinishAnswered, ownVars, SweepFind, SweepSend, IdleLimitPasses, Over
<1>7. CASE ActorRun(t) \/ ActorPushBack(t) \/ ActorReply(t) \/ ChannelReclaimed(t)
  <2>1. actor[t] \notin {"landing", "gone"}
    BY <1>7, Zenon DEF ActorRun, ActorPushBack, ActorReply, ChannelReclaimed, Receives
  <2>2. /\ UNCHANGED <<fate, table, taking>>
        /\ \E next : actor' = [actor EXCEPT ![t] = next]
    BY <1>7, Zenon DEF ActorRun, ActorPushBack, ActorReply, ChannelReclaimed
  <2> QED BY <1>1, <2>1, <2>2, Zenon DEF Over, PartTypes
<1>8. CASE ActorExpire(t)
  <2>1. actor[t] = "recv"
    BY <1>8, Zenon DEF ActorExpire, Receives
  <2>2. CASE t \in stale
    <3>1. \/ t \in slot /\ fate' = [fate EXCEPT ![t] = "expired"]
          \/ t \notin slot /\ fate' = fate
      BY <1>1, <1>8, <2>2, Discards, Zenon DEF ActorExpire
    <3>2. actor' = [actor EXCEPT ![t] = "leaving"] /\ UNCHANGED <<table, taking>>
      BY <1>8, <2>2, Zenon DEF ActorExpire
    <3> QED BY <1>1, <2>1, <3>1, <3>2, Zenon DEF Over, PartTypes
  <2>3. CASE t \notin stale
    BY <1>8, <2>3, Zenon DEF ActorExpire, Over
  <2> QED BY <2>2, <2>3, Zenon
<1>9. ASSUME NEW seen, NEW finishing, NEW dropped, End(t, seen, finishing, dropped),
             actor[t] \in {"recv", "leaving"}
      PROVE  Over(u)'
  BY <1>1, <1>9, Zenon DEF End, Discard, Over, Sound, PartTypes
<1>10. CASE ActorRunAbandoned(t) \/ ActorAbandon(t) \/ ActorLeave(t)
  BY <1>9, <1>10, Zenon DEF ActorRunAbandoned, ActorAbandon, ActorLeave, Receives
<1>11. CASE ActorFinish(t)
  <2>1. CASE End(t, TRUE, TRUE, Dropped(t))
    BY <1>9, <1>11, <2>1, Zenon DEF ActorFinish, Receives
  <2>2. CASE ~End(t, TRUE, TRUE, Dropped(t))
    <3>1. actor[t] = "recv" /\ t \in slot /\ actor' = [actor EXCEPT ![t] = "landing"]
          /\ table' = table \ {t} /\ UNCHANGED <<fate, taking>>
      BY <1>11, <2>2, Zenon DEF ActorFinish, Receives
    <3> QED BY <1>1, <3>1 DEF Over, PartTypes
  <2> QED BY <2>1, <2>2, Zenon
<1>12. CASE ActorLast(t)
  BY <1>1, <1>12, SMTT(30) DEF ActorLast, Over, PartTypes
<1>13. CASE ActorAwaited(t)
  BY <1>1, <1>13, SMTT(30) DEF ActorAwaited, Over, PartTypes
<1>14. CASE WorkerStops(t)
  <2>1. /\ actor' = [actor EXCEPT ![t] = "gone"]
        /\ UNCHANGED <<table, taking>>
    BY <1>14, Zenon DEF WorkerStops
  <2>2. \/ UNCHANGED fate /\ (t \in table \/ taking[t] \in {"took", "looked"})
        \/ \E how \in {"stopped", "failed", "discarded", "committed"} :
             fate' = [fate EXCEPT ![t] = how]
        \/ UNCHANGED fate /\ actor[t] \in {"recv", "awaiting"} /\ t \notin slot
    <3>1. \/ UNCHANGED fate /\ (t \in table \/ taking[t] \in {"took", "looked"})
          \/ \E how \in {"stopped", "failed", "discarded", "committed"} :
               fate' = [fate EXCEPT ![t] = how]
          \/ actor[t] \in {"recv", "awaiting"} /\ Discard(t, "stopped")
      BY <1>14, Zenon DEF WorkerStops
    <3>2. Discard(t, "stopped") =>
            \/ fate' = [fate EXCEPT ![t] = "stopped"]
            \/ UNCHANGED fate /\ t \notin slot
      BY <1>1, Discards, Zenon
    <3> QED BY <3>1, <3>2, Zenon
  <2> QED BY <1>1, <2>1, <2>2, Zenon DEF Over, Sound, PartTypes
<1> QED
  BY <1>2, <1>3, <1>4, <1>5, <1>6, <1>7, <1>8, <1>10, <1>11, <1>12, <1>13, <1>14, Zenon
  DEF TakerStep, ActorStep

\* The steps that drop queued requests leave their transaction over.
LEMMA DroppedOver ==
  ASSUME TypeOK, NEW t \in Txns, Sound(t),
         \/ ActorRunAbandoned(t) \/ ActorFinish(t) \/ ActorAbandon(t) \/ ActorLeave(t)
         \/ ActorAwaited(t) \/ WorkerStops(t)
  PROVE  Over(t)'
<1>1. PartTypes
  BY TypeOKSplits, Zenon
<1>2. ASSUME NEW seen, NEW finishing, NEW dropped, End(t, seen, finishing, dropped),
             actor[t] \in {"recv", "leaving"}
      PROVE  Over(t)'
  BY <1>1, <1>2, Zenon DEF End, Discard, Over, Sound, PartTypes
<1>3. CASE ActorRunAbandoned(t) \/ ActorAbandon(t) \/ ActorLeave(t)
  BY <1>2, <1>3, Zenon DEF ActorRunAbandoned, ActorAbandon, ActorLeave, Receives
<1>4. CASE ActorFinish(t)
  <2>1. CASE End(t, TRUE, TRUE, Dropped(t))
    BY <1>2, <1>4, <2>1, Zenon DEF ActorFinish, Receives
  <2>2. CASE ~End(t, TRUE, TRUE, Dropped(t))
    <3>1. actor[t] = "recv" /\ actor' = [actor EXCEPT ![t] = "landing"] /\ UNCHANGED fate
      BY <1>4, <2>2, Zenon DEF ActorFinish, Receives
    <3> QED BY <1>1, <3>1, Zenon DEF Over, Sound, PartTypes
  <2> QED BY <2>1, <2>2, Zenon
<1>5. CASE ActorAwaited(t)
  BY <1>1, <1>5, Zenon DEF ActorAwaited, Over, Sound, PartTypes
<1>6. CASE WorkerStops(t)
  BY <1>1, <1>6, Zenon DEF WorkerStops, Discard, Over, Sound, PartTypes
<1> QED BY <1>3, <1>4, <1>5, <1>6, Zenon

\* A request of a step of transaction t is dropped only if it is t's, and only by
\* a step that leaves t over.
LEMMA WhoIsDropped ==
  ASSUME TypeOK, NEW t \in Txns, Sound(t), NEW r \in Requests,
         \/ Begun(t) \/ NotStarted(t) \/ FinishTake(t) \/ AbandonTake(t) \/ TakerStep(t)
         \/ SweepFind(t) \/ SweepSend(t) \/ IdleLimitPasses(t)
         \/ ActorStep(t) \/ ChannelReclaimed(t) \/ WorkerStops(t)
  PROVE  /\ request[r].txn \in Txns
         /\ request'[r].txn = request[r].txn
         /\ request'[r].step = "dropped" =>
              request[r].step = "dropped" \/ (request[r].txn = t /\ Over(t)')
<1>1. AskTypes
  BY TypeOKSplits, Zenon
<1>2. request[r].txn \in Txns
  BY <1>1, Zenon DEF AskTypes
<1>3. CASE UNCHANGED request
  BY <1>2, <1>3, Zenon
<1>4. ASSUME NEW rs, NEW step \in {"running", "answered"}, Moves(rs, step)
      PROVE  /\ request'[r].txn = request[r].txn
             /\ request'[r].step = "dropped" => request[r].step = "dropped"
  <2>1. step \in RequestSteps
    BY <1>4 DEF RequestSteps
  <2>2. /\ request'[r].txn = request[r].txn
        /\ request'[r].step = IF r \in rs THEN step ELSE request[r].step
    BY <1>1, <1>4, <2>1, Moved, Zenon
  <2> QED BY <1>4, <2>2
<1>5. ASSUME NEW rs, Moves(rs, "dropped"), \A q \in Requests : q \in rs => request[q].txn = t
      PROVE  /\ request'[r].txn = request[r].txn
             /\ request'[r].step = "dropped" => request[r].step = "dropped" \/ request[r].txn = t
  <2>1. "dropped" \in RequestSteps
    BY DEF RequestSteps
  <2> QED BY <1>1, <1>5, <2>1, Moved
<1>6. CASE ActorRun(t) \/ ActorReply(t)
  <2>1. \E rs : Moves(rs, "running") \/ Moves(rs, "answered")
    BY <1>6, Zenon DEF ActorRun, ActorReply, Moves
  <2> QED BY <1>2, <1>4, <2>1
<1>7. \A q \in Requests : q \in Dropped(t) \cup Running(t) => request[q].txn = t
  BY DEF Dropped, Running, Asked
<1>8. CASE \/ ActorRunAbandoned(t) \/ ActorFinish(t) \/ ActorAbandon(t) \/ ActorLeave(t)
           \/ ActorAwaited(t) \/ WorkerStops(t)
  <2>1. Moves(Dropped(t), "dropped") \/ Moves(Dropped(t) \cup Running(t), "dropped")
    BY <1>8, Zenon DEF ActorRunAbandoned, ActorFinish, ActorAbandon, ActorLeave, ActorAwaited,
                       WorkerStops, End, Drain, Moves
  <2>2. Over(t)'
    BY <1>8, DroppedOver, Zenon
  <2> QED BY <1>2, <1>5, <1>7, <2>1, <2>2, Zenon
<1>9. CASE \/ Begun(t) \/ NotStarted(t) \/ FinishTake(t) \/ AbandonTake(t) \/ TakerStep(t)
           \/ SweepFind(t) \/ SweepSend(t) \/ IdleLimitPasses(t) \/ ChannelReclaimed(t)
           \/ ActorPushBack(t) \/ ActorLast(t) \/ ActorExpire(t)
  <2>1. UNCHANGED request
    BY <1>9, Zenon DEF Begun, NotStarted, FinishTake, AbandonTake, TakerStep, FinishLook, FinishSend,
                FinishUnsent, FinishAnswered, AbandonSend, ownVars, SweepFind, SweepSend,
                IdleLimitPasses, ChannelReclaimed, ActorPushBack, ActorLast, ActorExpire
  <2> QED BY <1>3, <2>1, Zenon
<1> QED BY <1>6, <1>8, <1>9, Zenon DEF ActorStep

LEMMA StepSoundlyDrops ==
  ASSUME TypeOK, \A t \in Txns : Sound(t), [Next]_vars,
         NEW q \in Requests, SoundlyDropped(q)
  PROVE  SoundlyDropped(q)'
<1>1. AskTypes
  BY TypeOKSplits, Zenon
<1>2. request[q].txn \in Txns
  BY <1>1, Zenon DEF AskTypes
<1>3. CASE UNCHANGED ownVars
  BY <1>3, Zenon DEF ownVars, SoundlyDropped, Over
<1>4. ASSUME NEW r \in Requests, RunAdmits(r) \/ RunFind(r) \/ RunSend(r)
      PROVE  SoundlyDropped(q)'
  <2>1. PICK step \in {"hop", "notfound", "found", "queued"} : Moves({r}, step)
    BY <1>4, Zenon DEF RunAdmits, RunFind, RunSend, Moves
  <2>2. step \in RequestSteps /\ step # "dropped"
    BY Zenon DEF RequestSteps
  <2>3. /\ request'[q].txn = request[q].txn
        /\ request'[q].step = "dropped" => request[q].step = "dropped"
    BY <1>1, <2>1, <2>2, Moved
  <2>4. UNCHANGED <<fate, actor, table, taking>>
    BY <1>4, Zenon DEF RunAdmits, RunFind, RunSend
  <2> QED BY <2>3, <2>4, Zenon DEF SoundlyDropped, Over
<1>5. ASSUME NEW t \in Txns,
             \/ Begun(t) \/ NotStarted(t) \/ FinishTake(t) \/ AbandonTake(t) \/ TakerStep(t)
             \/ SweepFind(t) \/ SweepSend(t) \/ IdleLimitPasses(t)
             \/ ActorStep(t) \/ ChannelReclaimed(t) \/ WorkerStops(t)
      PROVE  SoundlyDropped(q)'
  <2>1. /\ request'[q].txn = request[q].txn
        /\ request'[q].step = "dropped" =>
             request[q].step = "dropped" \/ (request[q].txn = t /\ Over(t)')
    BY <1>5, WhoIsDropped, Zenon
  <2>2. ASSUME Over(request[q].txn) PROVE Over(request[q].txn)'
    <3> DEFINE u == request[q].txn
    <3>1. u \in Txns /\ Over(u)
      BY <1>2, <2>2, Zenon
    <3>2. u' = u
      BY <2>1, Zenon
    <3> HIDE DEF u
    <3>3. \A w \in Txns : Over(w) => Over(w)'
      BY <1>5, StaysOver, Zenon
    <3>4. Over(u)'
      BY <3>1, <3>2, <3>3, Zenon DEF Over
    <3> QED BY <3>4, Zenon DEF u
  <2>3. ASSUME request[q].txn = t, Over(t)' PROVE Over(request[q].txn)'
    BY <2>1, <2>3, Zenon DEF Over
  <2> QED BY <2>1, <2>2, <2>3, Zenon DEF SoundlyDropped
<1>6. ASSUME NEW t \in Txns, FinishDropped(t) \/ LandingStep(t) PROVE UNCHANGED ownVars
  BY <1>6, Zenon DEF FinishDropped, LandingStep
<1>7. ASSUME NEW b \in Txns \cup Readers \cup Attempts,
             Opens(b) \/ (Fence!Call(b) /\ UNCHANGED ownVars)
      PROVE  UNCHANGED ownVars
  BY <1>7, Zenon DEF Opens
<1>8. UNCHANGED vars => UNCHANGED ownVars
  BY Zenon DEF vars, ownVars
<1> QED BY <1>3, <1>4, <1>5, <1>6, <1>7, <1>8, Zenon DEF Next

----------------------------------------------------------------------------
(* The fence's invariant holds of the owners' fences. *)

Proved == INSTANCE CommitFenceProofs WITH Commits <- Txns,
                                   Begins <- Txns \cup Readers \cup Attempts,
                                   Unfenced <- Attempts

\* The fence's proofs, for the fences of finishes.
LEMMA Assumed == Proved!FenceAssumption
  BY OwnerAssumption, Zenon DEF Proved!FenceAssumption, IsFiniteSet, Proved!IsFiniteSet

\* The fence that the owners compose is the one those proofs are about.
LEMMA SameInit == Fence!Init => Proved!Init
  BY Zenon DEF Fence!Init, Proved!Init

LEMMA SameNext == [Fence!Next]_(Fence!vars) => [Proved!Next]_(Proved!vars)
<1> USE DEF Fence!fenceVars, Fence!beginVars, Proved!fenceVars, Proved!beginVars
<1>1. ASSUME NEW c \in Txns,
             Fence!New(c) \/ Fence!AbandonRaise(c) \/ Fence!Answered(c) \/ Fence!CallerStep(c)
      PROVE  Proved!New(c) \/ Proved!AbandonRaise(c) \/ Proved!Answered(c) \/ Proved!CallerStep(c)
  <2>1. Fence!New(c) => Proved!New(c) BY Zenon DEF Fence!New, Proved!New
  <2>2. Fence!AbandonRaise(c) => Proved!AbandonRaise(c)
    BY Zenon DEF Fence!AbandonRaise, Proved!AbandonRaise, Fence!Raise, Proved!Raise
  <2>3. Fence!Answered(c) => Proved!Answered(c) BY Zenon DEF Fence!Answered, Proved!Answered
  <2>4. Fence!AbandonSwap(c) => Proved!AbandonSwap(c) BY Zenon DEF Fence!AbandonSwap, Proved!AbandonSwap
  <2>5. Fence!AbandonLower(c) => Proved!AbandonLower(c)
    BY Zenon DEF Fence!AbandonLower, Proved!AbandonLower, Fence!Lower, Proved!Lower, Fence!WasLast, Proved!WasLast
  <2>6. Fence!AbandonNotify(c) => Proved!AbandonNotify(c)
    BY Zenon DEF Fence!AbandonNotify, Proved!AbandonNotify, Fence!NotifyWaiters, Proved!NotifyWaiters
  <2> QED BY <1>1, <2>1, <2>2, <2>3, <2>4, <2>5, <2>6, Zenon DEF Fence!CallerStep, Proved!CallerStep
<1>2. ASSUME NEW c \in Txns, Fence!OwnerStep(c) PROVE Proved!OwnerStep(c)
  BY <1>2, Zenon DEF Fence!OwnerStep, Proved!OwnerStep, Fence!Land, Proved!Land, Fence!Fail, Proved!Fail,
     Fence!FinishSwap, Proved!FinishSwap, Fence!FinishLower, Proved!FinishLower, Fence!Lower, Proved!Lower,
     Fence!WasLast, Proved!WasLast, Fence!FinishNotify, Proved!FinishNotify,
     Fence!NotifyWaiters, Proved!NotifyWaiters
<1>3. ASSUME NEW b \in Txns \cup Readers \cup Attempts, Fence!Call(b) \/ Fence!BeginStep(b)
      PROVE  Proved!Call(b) \/ Proved!BeginStep(b)
  BY <1>3, Zenon DEF Fence!Call, Proved!Call, Fence!StoppedWaiting, Proved!StoppedWaiting,
     Fence!BeginStep, Proved!BeginStep, Fence!NewTxnLook, Proved!NewTxnLook, Fence!any, Proved!any,
     Fence!Arm, Proved!Arm, Fence!ClearedLook, Proved!ClearedLook, Fence!Wake, Proved!Wake,
     Fence!Open, Proved!Open
<1>4. UNCHANGED Fence!vars => UNCHANGED Proved!vars
  BY Zenon DEF Fence!vars, Proved!vars
<1> QED BY <1>1, <1>2, <1>3, <1>4, Zenon DEF Fence!Next, Proved!Next


\* What is proved of the fence holds of the owners' fences.
LEMMA OwnersFence == Spec => []Proved!IInv
<1>1. Fence!Spec => Proved!Spec
  BY SameInit, SameNext, PTL DEF Fence!Spec, Proved!Spec
<1> QED BY <1>1, OwnerRefinesFence, Proved!FenceInvariant, Assumed, PTL DEF RefinesFence

LEMMA FenceFacts == Proved!IInv => Fence!TypeOK /\ Fence!BeginSeesAbandoned
  BY Zenon DEF Proved!IInv, Proved!TypeOK, Fence!TypeOK, Proved!BeginSeesAbandoned,
         Fence!BeginSeesAbandoned, Fence!States, Fence!CallerSteps, Fence!OwnerSteps,
         Fence!BeginSteps, Proved!States, Proved!CallerSteps, Proved!OwnerSteps, Proved!BeginSteps

\* However a finish, an abandon, the sweep and a stopping worker race for a
\* transaction, no fenced begin opens ahead of a commit whose caller had stopped
\* waiting or been answered (owner/mod.rs, fence.rs).
THEOREM OwnersFenceBegins == Spec => []Fence!BeginSeesAbandoned
  BY OwnersFence, FenceFacts, PTL

\* Every part of an owner, its actors and its fences keeps its type.
THEOREM OwnerTypes == Spec => []TypeOK
<1> DEFINE Own == PartTypes /\ MailTypes /\ AskTypes
<1>1. Init => Own
  BY DEF Init, PartTypes, MailTypes, AskTypes, Asked, RequestSteps
<1>2. Own /\ [Next]_vars => Own'
  BY StepTypes, Zenon
<1>3. Own /\ Proved!IInv => TypeOK
  BY FenceFacts, TypeOKSplits, Zenon
<1> QED BY <1>1, <1>2, <1>3, OwnersFence, PTL DEF Spec

----------------------------------------------------------------------------
(* The theorems. *)

\* The inductive invariant holds in every state the owners reach.
THEOREM OwnerInvariant == Spec => []IInv
<1> DEFINE Inv == /\ \A t \in Txns : Sound(t)
                  /\ \A r \in Requests : SoundlyDropped(r)
<1>1. Init => Inv
  <2> SUFFICES ASSUME Init PROVE Inv
    BY Zenon
  <2>1. ASSUME NEW t \in Txns PROVE Sound(t)
    <3>1. mailbox[t] = <<>>
      BY <2>1, Zenon DEF Init
    <3>2. \A m : ~Holds(t, m)
      BY <3>1 DEF Holds, Range
    <3> QED BY <2>1, <3>2, Zenon DEF Init, Fence!Init, Sound
  <2>2. ASSUME NEW r \in Requests PROVE SoundlyDropped(r)
    BY <2>2 DEF Init, SoundlyDropped, Asked
  <2> QED BY <2>1, <2>2, Zenon
<1>2. TypeOK /\ Inv /\ [Next]_vars => Inv'
  BY StepSound, StepSoundlyDrops, Zenon
<1>3. TypeOK /\ Inv => IInv
  BY Zenon DEF IInv
<1> QED BY <1>1, <1>2, <1>3, OwnerTypes, PTL DEF Spec

\* owner/actor.rs: an open transaction is in exactly one place, an ended one in
\* none.
THEOREM OwnersHoldOnce == Spec => []OneHolder
<1>1. IInv => OneHolder
  BY Zenon DEF IInv, Sound, OneHolder
<1> QED BY <1>1, OwnerInvariant, PTL

\* owner/mod.rs, `finish`: a commit handed over with its transaction idle is not
\* undone by the caller that stops waiting for it.
THEOREM OwnersKeepBegun == Spec => []BegunNotUndone
<1>1. IInv => BegunNotUndone
  BY Zenon DEF IInv, Sound, BegunNotUndone
<1> QED BY <1>1, OwnerInvariant, PTL

\* owner/actor.rs: the end of a transaction is told only once it is over.
THEOREM OwnersTellTheTruth == Spec => []ToldOnlyWhenOver
<1>1. IInv => ToldOnlyWhenOver
  <2> SUFFICES ASSUME IInv PROVE ToldOnlyWhenOver
    BY Zenon
  <2>1. \A t \in Txns : caller[t] = "answered" => fate[t] # "open"
    BY Zenon DEF IInv, Sound
  <2>2. \A r \in Requests : SoundlyDropped(r)
    BY DEF IInv
  <2> QED BY <2>1, <2>2, Zenon DEF SoundlyDropped, Over, ToldOnlyWhenOver
<1> QED BY <1>1, OwnerInvariant, PTL
=====
