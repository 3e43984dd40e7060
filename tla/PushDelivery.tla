------------------------------ MODULE PushDelivery ------------------------------
(****************************************************************************)
(* One document's heads on their way to one replicator: committed heads are *)
(* registered under a durable marker by the failure recorder, queued, sent  *)
(* by push workers, and re-sent by the retry sweep and by the replay of a   *)
(* replicator's installation, until an acknowledgement that still holds the *)
(* marker's generation deletes it.  Sources: p2p coordinator/broadcast.rs   *)
(* and push_worker.rs, p2p-adapter retry.rs and replicator_install_store.rs,*)
(* storage stores/peerstore.rs, db merge/push_docs*.rs.                     *)
(*                                                                          *)
(* A head is its version, (priority, CID).  A head replaces any older       *)
(* heads.  The backlog is what this scope sees of it: whether it is full,   *)
(* and which peers are parked, is up to the other scopes.  A schedule is    *)
(* due at any time; only a receiver's hint defers it.  Each transaction on  *)
(* the peerstore is one step.                                               *)
(****************************************************************************)
EXTENDS Integers, FiniteSetsExt, Functions

CONSTANTS
  Heads,        \* versions the document's heads may have
  Workers,      \* push workers
  OneAtATime,   \* publications of the document come one after the other
  Budget        \* Budget[k]: how many faults, repeated publications, ... may happen

Kinds == {"fault", "again", "forget", "add", "crash", "close"}

VARIABLES
  heads,                               \* the committed frontier
  present, incarnation,                \* the replicator's row and its incarnation
  marker, clock, acked,                \* scope marker, schedule, acknowledged heads
  latest, queued, closed,              \* the backlog
  pub, pubGen,                         \* each head's publication, its generation
  reading,                             \* registrations past their first read
  at, job, hint, taken,                \* workers
  rat, gen, tried, left, inc,          \* the sweep and the installation's replay
  delivered,                           \* what the peer has accepted
  owed,                                \* history: heads registered for this peer
  budget

store == <<marker, clock, acked, owed>>
peer == <<present, incarnation>>
backlog == <<latest, queued, closed>>
publishing == <<pub, pubGen>>
working == <<at, job, hint, taken>>
replaying == <<rat, gen, tried, left, inc>>
vars == <<heads, present, incarnation, marker, clock, acked, latest, queued, closed,
          pub, pubGen, reading, at, job, hint, taken, rat, gen, tried, left, inc,
          delivered, owed, budget>>

Replayers == {"sweep", "install"}
Idle == [inc |-> 0, gen |-> 0]
NoJob == [head |-> 0, gen |-> 0]

Init ==
  /\ heads = {} /\ present = TRUE /\ incarnation = 1
  /\ marker = 0 /\ clock = "none" /\ acked = {}
  /\ latest = 0 /\ queued = NoJob /\ closed = FALSE
  /\ pub = [h \in Heads |-> "none"] /\ pubGen = [h \in Heads |-> 0]
  /\ reading = [r \in {"recorder", "install"} |-> Idle]
  /\ at = [w \in Workers |-> "idle"] /\ job = [w \in Workers |-> NoJob]
  /\ hint = {} /\ taken = [w \in Workers |-> NoJob]
  /\ rat = [r \in Replayers |-> "idle"] /\ gen = [r \in Replayers |-> 0]
  /\ tried = [r \in Replayers |-> {}] /\ left = [r \in Replayers |-> {}] /\ inc = 0
  /\ delivered = {} /\ owed = {} /\ budget = Budget

Spend(k) == budget[k] > 0 /\ budget' = [budget EXCEPT ![k] = @ - 1]
Go(w, from, to) == at[w] = from /\ at' = [at EXCEPT ![w] = to]

\* A replayer's step; one that is done holds nothing.
RStep(r, from, to, g, hs, rest) ==
  /\ rat[r] = from /\ rat' = [rat EXCEPT ![r] = to]
  /\ gen' = [gen EXCEPT ![r] = IF to = "idle" THEN 0 ELSE g]
  /\ tried' = [tried EXCEPT ![r] = IF to = "idle" THEN {} ELSE hs]
  /\ left' = [left EXCEPT ![r] = IF to = "idle" THEN {} ELSE rest]
RGo(r, from, to) == RStep(r, from, to, gen[r], tried[r], left[r])

\* The recorder takes one event at a time; a registration is two steps of it.
Free == reading["recorder"] = Idle

----------------------------------------------------------------------------
(* Transactions on the peerstore. *)

\* store.allocate.  Generations are only compared with those still held.
Held == {marker, queued.gen} \cup Range(pubGen) \cup Range(gen) \cup {reading[r].gen : r \in DOMAIN reading}
          \cup {job[w].gen : w \in Workers} \cup {taken[w].gen : w \in Workers}
Fresh == 1 + Max(Held)

\* RegisterScopeMarkerAttempt, for heads hs.
RegisterTxn(r, hs) ==
  IF present /\ incarnation = reading[r].inc /\ marker <= reading[r].gen
  THEN /\ marker' = reading[r].gen
       /\ clock' = IF clock = "none" THEN "open" ELSE clock
       /\ owed' = owed \cup hs
  ELSE UNCHANGED <<marker, clock, owed>>

\* register_scope_marker before its transaction: a fresh generation for the
\* peer's incarnation; nothing is registered for a peer that is gone.
Read(r) == reading' = [reading EXCEPT ![r] = [inc |-> incarnation, gen |-> Fresh]]

\* RefreshPushFailureAttempt, with its fresh generation.
RefreshTxn(g, hinted) ==
  /\ IF present /\ marker = g /\ clock # "none"
     THEN marker' = Fresh /\ clock' = IF hinted THEN "deferred" ELSE clock
     ELSE UNCHANGED <<marker, clock>>
  /\ UNCHANGED <<acked, owed>>

\* PeerstoreRetryAttempt::CompleteMarker; restarting the clock after a fenced
\* delivery does not defer it.
CompleteTxn(g, hs) ==
  /\ IF present /\ marker = g
     THEN marker' = 0 /\ acked' = hs /\ clock' = IF clock = "open" THEN "none" ELSE clock
     ELSE UNCHANGED <<marker, clock, acked>>
  /\ UNCHANGED owed

\* PeerstoreRetryAttempt::ClearPeer.
ClearTxn ==
  clock' = IF present /\ incarnation = inc /\ marker = 0 /\ clock = "open" THEN "none" ELSE clock

----------------------------------------------------------------------------
(* Publication: commit, push_jobs, report_observed_head, enqueue. *)

Publish(h) ==
  OneAtATime => \A k \in Heads : pub[k] \in {"none", "over", "failed", "lost"}

Commit(h) ==
  /\ pub[h] = "none" /\ Publish(h)
  /\ \E S \in SUBSET {k \in heads : k < h} : heads' = (heads \ S) \cup {h}
  /\ pub' = [pub EXCEPT ![h] = "listing"]
  /\ UNCHANGED <<peer, store, backlog, pubGen, reading, working, replaying, delivered, budget>>

\* A merged block that is redriven is forwarded again.
Again(h) ==
  /\ pub[h] = "over" /\ Publish(h) /\ Spend("again")
  /\ OneAtATime => \A k \in heads : k <= h
  /\ pub' = [pub EXCEPT ![h] = "listing"]
  /\ UNCHANGED <<heads, peer, store, backlog, pubGen, reading, working, replaying, delivered>>

List(h) ==
  /\ pub[h] = "listing"
  /\ pub' = [pub EXCEPT ![h] = IF closed THEN "failed" ELSE IF present THEN "waiting" ELSE "over"]
  /\ UNCHANGED <<heads, peer, store, backlog, pubGen, reading, working, replaying, delivered, budget>>

\* The recorder reads the peer for a head's registration, or for one that the
\* full backlog handed back.
ReadPeer(h) ==
  /\ pub[h] \in {"waiting", "rejected"} /\ Free
  /\ IF present
     THEN Read("recorder") /\ pub' = [pub EXCEPT ![h] = IF @ = "waiting" THEN "registering" ELSE "deferring"]
     ELSE pub' = [pub EXCEPT ![h] = IF @ = "waiting" THEN "failed" ELSE "over"] /\ UNCHANGED <<reading>>
  /\ UNCHANGED <<heads, peer, store, backlog, pubGen, working, replaying, delivered, budget>>

Register(h) ==
  /\ pub[h] \in {"registering", "deferring"}
  /\ RegisterTxn("recorder", {h})
  /\ pub' = [pub EXCEPT ![h] =
       IF @ = "deferring" THEN "over" ELSE IF marker' = reading["recorder"].gen THEN "registered" ELSE "failed"]
  /\ pubGen' = [pubGen EXCEPT ![h] = IF pub'[h] = "registered" THEN reading["recorder"].gen ELSE 0]
  /\ reading' = [reading EXCEPT !["recorder"] = Idle]
  /\ UNCHANGED <<heads, peer, acked, backlog, working, replaying, delivered, budget>>

\* try_enqueue for this scope; a full backlog drops the older job as well.
Enqueue(h) ==
  LET mine == [head |-> h, gen |-> pubGen[h]]
  IN  /\ pub[h] = "registered"
      /\ pubGen' = [pubGen EXCEPT ![h] = 0]
      /\ \/ /\ closed \/ latest > h
            /\ pub' = [pub EXCEPT ![h] = "over"] /\ UNCHANGED <<latest, queued>>
         \/ /\ ~closed /\ latest = h
            /\ pub' = [pub EXCEPT ![h] = "over"]
            /\ queued' = IF queued = NoJob THEN NoJob ELSE mine
            /\ UNCHANGED latest
         \/ /\ ~closed /\ latest < h
            /\ \/ pub' = [pub EXCEPT ![h] = "over"] /\ latest' = h /\ queued' = mine
               \/ pub' = [pub EXCEPT ![h] = "rejected"] /\ latest' = 0 /\ queued' = NoJob
      /\ UNCHANGED <<heads, peer, store, closed, reading, working, replaying, delivered, budget>>

----------------------------------------------------------------------------
(* run_push_job. *)

Current(w) == latest = job[w].head

Take(w) ==
  /\ queued # NoJob /\ Go(w, "idle", "handed")
  /\ job' = [job EXCEPT ![w] = queued]
  /\ queued' = NoJob
  /\ UNCHANGED <<heads, peer, store, latest, closed, publishing, reading, hint, taken,
                 replaying, delivered, budget>>

CheckFirst(w) ==
  /\ Go(w, "handed", IF Current(w) THEN "admitting" ELSE "done")
  /\ UNCHANGED <<heads, peer, store, backlog, publishing, reading, job, hint, taken,
                 replaying, delivered, budget>>

\* admit_push_scope.
Admit(w) ==
  /\ Free
  /\ Go(w, "admitting", IF present /\ clock = "open" /\ marker = job[w].gen THEN "sending" ELSE "done")
  /\ UNCHANGED <<heads, peer, store, backlog, publishing, reading, job, hint, taken,
                 replaying, delivered, budget>>

Accepted(w) ==
  /\ Go(w, "sending", "ending")
  /\ delivered' = delivered \cup {job[w].head}
  /\ UNCHANGED <<heads, peer, store, backlog, publishing, reading, job, hint, taken,
                 replaying, budget>>

\* No capability or signature, a refusal with or without a hint, no reply: the
\* head may have arrived all the same.  A hint, saturation or a failed probe
\* takes the peer's queued jobs.
Unaccepted(w) ==
  /\ Spend("fault")
  /\ \/ /\ Go(w, "sending", "taking")
        /\ \/ hint' = hint \cup {w} /\ UNCHANGED delivered
           \/ UNCHANGED hint /\ delivered' \in {delivered, delivered \cup {job[w].head}}
     \/ /\ Go(w, "sending", "failing")
        /\ UNCHANGED hint /\ delivered' \in {delivered, delivered \cup {job[w].head}}
  /\ UNCHANGED <<heads, peer, store, backlog, publishing, reading, job, taken, replaying>>

TakeQueued(w) ==
  /\ Go(w, "taking", IF queued = NoJob THEN "failing" ELSE "demoting")
  /\ taken' = [taken EXCEPT ![w] = queued]
  /\ latest' = IF queued # NoJob /\ queued.head = latest THEN 0 ELSE latest
  /\ queued' = NoJob
  /\ UNCHANGED <<heads, peer, store, closed, publishing, reading, job, hint, replaying,
                 delivered, budget>>

Demote(w) ==
  /\ Free /\ Go(w, "demoting", "failing")
  /\ RefreshTxn(taken[w].gen, w \in hint)
  /\ taken' = [taken EXCEPT ![w] = NoJob]
  /\ UNCHANGED <<heads, peer, backlog, publishing, reading, job, hint, replaying, delivered, budget>>


CheckFailed(w) ==
  /\ Go(w, "failing", IF Current(w) THEN "refreshing" ELSE "ending")
  /\ UNCHANGED <<heads, peer, store, backlog, publishing, reading, job, hint, taken,
                 replaying, delivered, budget>>

Refresh(w) ==
  /\ Free /\ Go(w, "refreshing", "done")
  /\ RefreshTxn(job[w].gen, w \in hint)
  /\ UNCHANGED <<heads, peer, backlog, publishing, reading, job, hint, taken, replaying, delivered, budget>>

\* A superseded job's acknowledgement is left to the marker's generation.
CheckEnd(w) ==
  /\ Go(w, "ending", IF Current(w) THEN "looking" ELSE "acking")
  /\ UNCHANGED <<heads, peer, store, backlog, publishing, reading, job, hint, taken,
                 replaying, delivered, budget>>

\* is_whole_frontier; a failed lookup counts as no.
Look(w) ==
  /\ Go(w, "looking", IF heads = {job[w].head} THEN "acking" ELSE "done") \/ Go(w, "looking", "done")
  /\ UNCHANGED <<heads, peer, store, backlog, publishing, reading, job, hint, taken,
                 replaying, delivered, budget>>

Ack(w) ==
  /\ Free /\ Go(w, "acking", "done")
  /\ CompleteTxn(job[w].gen, {job[w].head})
  /\ UNCHANGED <<heads, peer, backlog, publishing, reading, job, hint, taken, replaying,
                 delivered, budget>>

JobDone(w) ==
  /\ Go(w, "done", "idle")
  /\ latest' = IF Current(w) THEN 0 ELSE latest
  /\ job' = [job EXCEPT ![w] = NoJob] /\ hint' = hint \ {w}
  /\ UNCHANGED <<heads, peer, store, queued, closed, publishing, reading, taken, replaying,
                 delivered, budget>>

Work(w) ==
  \/ Take(w) \/ CheckFirst(w) \/ Admit(w) \/ Accepted(w) \/ TakeQueued(w) \/ Demote(w)
  \/ CheckFailed(w) \/ Refresh(w) \/ CheckEnd(w) \/ Look(w) \/ Ack(w) \/ JobDone(w)

----------------------------------------------------------------------------
(* run_retry_pass, and the replay of an installation. *)

Same == UNCHANGED <<heads, peer, backlog, publishing, working>>

SweepBegin ==
  /\ ~closed /\ present /\ clock # "none"
  /\ RGo("sweep", "idle", "probing")
  /\ inc' = incarnation
  /\ Same /\ UNCHANGED <<store, reading, delivered, budget>>

\* The probe of one marker: nothing left, not due, or its generation.
Probe ==
  /\ RStep("sweep", "probing", IF marker = 0 THEN "clearing" ELSE IF clock = "open" THEN "loading" ELSE "idle",
           marker, {}, {})
  /\ Same /\ UNCHANGED <<store, reading, inc, delivered, budget>>

\* The heads that a replay attempts, read at one snapshot; a sweep looks at
\* the schedule once more.
Load(r) ==
  /\ RStep(r, "loading", IF r = "sweep" THEN IF clock = "open" THEN "replaying" ELSE "ending"
                         ELSE IF heads = {} THEN "idle" ELSE "marking", gen[r], heads, heads)
  /\ Same /\ UNCHANGED <<store, reading, inc, delivered, budget>>

\* observe_push_head_with_generation, or persist_replay_failures.
ReplayReads ==
  /\ \/ RGo("install", "marking", IF present THEN "registering" ELSE "idle")
     \/ RGo("install", "failing", IF present THEN "deferring" ELSE "idle")
  /\ IF present THEN Read("install") ELSE UNCHANGED reading
  /\ Same /\ UNCHANGED <<store, inc, delivered, budget>>

ReplayRegisters ==
  LET g == reading["install"].gen
      all == tried["install"]
  IN  /\ RegisterTxn("install", all)
      /\ \/ RStep("install", "registering", IF marker' = g THEN "replaying" ELSE "idle", g, all, all)
         \/ RGo("install", "deferring", "idle")
      /\ reading' = [reading EXCEPT !["install"] = Idle]
      /\ Same /\ UNCHANGED <<acked, inc, delivered, budget>>

Failed(r) == IF r = "sweep" THEN "ending" ELSE "failing"

\* remaining_retry_after, then the send.
ReplayOne(r, h) ==
  /\ h \in left[r]
  /\ IF clock = "deferred"
     THEN RGo(r, "replaying", Failed(r)) /\ UNCHANGED delivered
     ELSE RStep(r, "replaying", "replaying", gen[r], tried[r], left[r] \ {h}) /\ delivered' = delivered \cup {h}
  /\ Same /\ UNCHANGED <<store, reading, inc, budget>>

\* persist_retry_after with the hint of a refusal.
ReplayFails(r, h) ==
  /\ h \in left[r] /\ Spend("fault")
  /\ RGo(r, "replaying", Failed(r))
  /\ \/ delivered' \in {delivered, delivered \cup {h}} /\ UNCHANGED clock
     \/ UNCHANGED delivered /\ clock' = IF present THEN "deferred" ELSE clock
  /\ Same /\ UNCHANGED <<marker, acked, owed, reading, inc>>

\* As if what was read before the sends could never be confirmed.
VerifyNever(r) ==
  /\ left[r] = {}
  /\ RGo(r, "replaying", Failed(r))
  /\ Same /\ UNCHANGED <<store, reading, inc, delivered, budget>>

\* complete_document_retry_if_current: its read, in a transaction of its own.
Verify(r) ==
  /\ left[r] = {}
  /\ RGo(r, "replaying", IF heads = tried[r] THEN "completing" ELSE Failed(r))
  /\ Same /\ UNCHANGED <<store, reading, inc, delivered, budget>>

Complete(r) ==
  /\ RGo(r, "completing", IF r = "sweep" THEN "ending" ELSE "idle")
  /\ CompleteTxn(gen[r], tried[r])
  /\ Same /\ UNCHANGED <<reading, inc, delivered, budget>>

SweepEnds ==
  /\ RGo("sweep", "ending", IF marker = 0 THEN "clearing" ELSE "idle")
  /\ Same /\ UNCHANGED <<store, reading, inc, delivered, budget>>

SweepClears ==
  /\ RGo("sweep", "clearing", "idle")
  /\ ClearTxn
  /\ Same /\ UNCHANGED <<marker, acked, owed, reading, inc, delivered, budget>>

Replay(r) ==
  \/ Load(r) \/ Verify(r) \/ Complete(r) \/ \E h \in Heads : ReplayOne(r, h)

----------------------------------------------------------------------------
(* The replicator, time, shutdown and restart. *)

\* delete_replicator.
Forget ==
  /\ present /\ Spend("forget")
  /\ present' = FALSE /\ marker' = 0 /\ clock' = "none" /\ acked' = {} /\ owed' = {}
  /\ UNCHANGED <<heads, incarnation, backlog, publishing, reading, working, replaying, delivered>>

\* Prepare: a new row or a changed one, when no installation is pending.
Add ==
  /\ Spend("add")
  /\ RGo("install", "idle", "loading")
  /\ present' = TRUE /\ incarnation' = incarnation + 1
  /\ UNCHANGED <<heads, store, backlog, publishing, reading, working, inc, delivered>>

Elapse ==
  /\ clock = "deferred"
  /\ clock' = "open"
  /\ UNCHANGED <<heads, peer, marker, acked, owed, backlog, publishing, reading, working,
                 replaying, delivered, budget>>

\* Coordinator shutdown: the retry loop has been stopped; running jobs go on.
Close ==
  /\ ~closed /\ Spend("close")
  /\ closed' = TRUE /\ latest' = 0 /\ queued' = NoJob
  /\ RGo("sweep", rat["sweep"], "idle")
  /\ UNCHANGED <<heads, peer, store, publishing, reading, working, inc, delivered>>

\* The process ends and starts again; a pending installation is settled as
\* interrupted.
Crash ==
  /\ Spend("crash")
  /\ latest' = 0 /\ queued' = NoJob /\ closed' = FALSE
  /\ pub' = [h \in Heads |-> IF pub[h] \in {"listing", "waiting", "registering"} THEN "lost"
                             ELSE IF pub[h] \in {"registered", "rejected", "deferring"} THEN "over" ELSE pub[h]]
  /\ pubGen' = [h \in Heads |-> 0]
  /\ reading' = [r \in {"recorder", "install"} |-> Idle]
  /\ at' = [w \in Workers |-> "idle"] /\ job' = [w \in Workers |-> NoJob]
  /\ hint' = {} /\ taken' = [w \in Workers |-> NoJob]
  /\ rat' = [r \in Replayers |-> "idle"] /\ gen' = [r \in Replayers |-> 0]
  /\ tried' = [r \in Replayers |-> {}] /\ left' = [r \in Replayers |-> {}] /\ inc' = 0
  /\ UNCHANGED <<heads, peer, store, delivered>>

----------------------------------------------------------------------------
Publication(h) == List(h) \/ ReadPeer(h) \/ Register(h) \/ Enqueue(h)
Sweep == SweepBegin \/ Probe \/ Replay("sweep") \/ SweepEnds \/ SweepClears
Install == Replay("install") \/ ReplayReads \/ ReplayRegisters

Next ==
  \/ \E h \in Heads : Commit(h) \/ Again(h) \/ Publication(h)
  \/ \E w \in Workers : Work(w) \/ Unaccepted(w)
  \/ Sweep \/ Install
  \/ \E r \in Replayers, h \in Heads : ReplayFails(r, h)
  \/ Forget \/ Add \/ Elapse \/ Close \/ Crash

Spec == Init /\ [][Next]_vars

\* Tasks run, sends end, deadlines pass, and the sweep comes round; a worker
\* or the recorder is not held up for ever by what else uses the recorder.
FairSpec ==
  /\ Spec
  /\ \A h \in Heads : SF_vars(Publication(h))
  /\ \A w \in Workers : SF_vars(Work(w))
  /\ WF_vars(Sweep) /\ WF_vars(Install) /\ WF_vars(Elapse)

----------------------------------------------------------------------------
Jobs == {NoJob} \cup [head : Heads, gen : Nat \ {0}]
Places == {"idle", "handed", "admitting", "sending", "taking", "demoting", "failing", "refreshing",
           "ending", "looking", "acking", "done"}
RPlaces == {"idle", "probing", "loading", "marking", "registering", "replaying", "completing",
            "ending", "clearing", "failing", "deferring"}

TypeOK ==
  /\ heads \subseteq Heads /\ delivered \subseteq Heads /\ owed \subseteq Heads /\ acked \subseteq Heads
  /\ present \in BOOLEAN /\ incarnation \in Nat
  /\ marker \in Nat /\ clock \in {"none", "open", "deferred"}
  /\ latest \in Heads \cup {0} /\ queued \in Jobs /\ closed \in BOOLEAN
  /\ pub \in [Heads -> {"none", "listing", "waiting", "registering", "registered", "rejected",
                        "deferring", "over", "failed", "lost"}]
  /\ pubGen \in [Heads -> Nat]
  /\ reading \in [{"recorder", "install"} -> [inc : Nat, gen : Nat]]
  /\ at \in [Workers -> Places] /\ job \in [Workers -> Jobs]
  /\ hint \subseteq Workers /\ taken \in [Workers -> Jobs]
  /\ rat \in [Replayers -> RPlaces] /\ gen \in [Replayers -> Nat]
  /\ tried \in [Replayers -> SUBSET Heads] /\ left \in [Replayers -> SUBSET Heads] /\ inc \in Nat
  /\ budget \in [Kinds -> Nat]

\* "A marker stands for every head registered under it": while a registered
\* head is current and the peer has not accepted it, the peer's marker is
\* there, whatever acknowledgements, failures, sweeps, replays, removals and
\* restarts came in between.
MarkerCovers == (present /\ marker = 0) => owed \cap heads \subseteq delivered

\* acknowledged_heads, "the sorted heads `peer_id` last acknowledged for a
\* scope", are heads the peer has accepted.
AckedIsDelivered == acked \subseteq delivered

\* "A late failure cannot recreate a forgotten marker": nothing of a removed
\* peer comes back through a registration, failure, acknowledgement or hint
\* that was under way when it was removed.
ForgottenStaysForgotten == ~present => marker = 0 /\ clock = "none" /\ acked = {}

\* A marker has a schedule: the sweep only visits peers that have one.
MarkerHasClock == marker # 0 => clock # "none"
=============================================================================
