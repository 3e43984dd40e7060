------------------------------ MODULE PushBacklog ------------------------------
(****************************************************************************)
(* crates/p2p/src/sync/push_backlog.rs and the workers of                   *)
(* coordinator/push_worker.rs that drain it.  One task owns the queue and   *)
(* takes one command at a time; after each it hands what it can to parked   *)
(* workers.  A worker asks twice whether its job is still current, sends,   *)
(* parks the peer when the peer is saturated or silent, and reports back.   *)
(*                                                                          *)
(* A version stands for (priority, CID).  Cooldowns end at any time, so     *)
(* their length, and consecutive, which only sets it, are left out.  Spells *)
(* are only compared with those that cooldowns and running jobs hold, so a  *)
(* new one is any number not among them.  The counters are left out.        *)
(****************************************************************************)
EXTENDS Integers, FiniteSets, FiniteSetsExt, Functions, SequencesExt

CONSTANTS
  Peers, Docs, Workers,
  Versions,        \* of each document's heads, in their order
  Sizes,           \* Sizes[v]: what resident_bytes may give for version v
  ItemCapacity, ByteCapacity, ActiveCap,
  NoJob

VARIABLES
  queues, ready, latest, items, bytes,  \* the queue: per peer, the ring, live versions, totals
  active,                               \* jobs started for each peer
  parked, cooling, spell,               \* peer_cooldowns; those before until; unreachable or 0
  waiters, serving, wakeOn,             \* the owner: parked workers, in serve_waiters, its timer
  phase,                                \* "open", "closing" (Close is sent) or "closed"
  at, job,                              \* each worker's place and job
  answered                              \* workers whose peer replied since their job started

queue == <<queues, ready, latest, items, bytes>>
parking == <<parked, cooling, spell>>
pool == <<at, job, answered>>
vars == <<queues, ready, latest, items, bytes, active, parked, cooling, spell,
          waiters, serving, wakeOn, phase, at, job, answered>>

Jobs == {[doc |-> d, version |-> v, size |-> s] : d \in Docs, v \in Versions, s \in UNION Range(Sizes)}
quota == Max({ItemCapacity \div 4, 1})

Init ==
  /\ queues = [p \in Peers |-> <<>>] /\ ready = <<>>
  /\ latest = [p \in Peers |-> [d \in Docs |-> 0]]
  /\ items = 0 /\ bytes = 0
  /\ active = [p \in Peers |-> 0]
  /\ parked = {} /\ cooling = {} /\ spell = [p \in Peers |-> 0]
  /\ waiters = <<>> /\ serving = FALSE /\ wakeOn = {}
  /\ phase = "open"
  /\ at = [w \in Workers |-> "idle"] /\ job = [w \in Workers |-> NoJob]
  /\ answered = {}

\* run: a command is taken between two calls of serve_waiters.
Handle == ~serving /\ serving' = TRUE /\ UNCHANGED wakeOn

Go(w, from, to) == at[w] = from /\ at' = [at EXCEPT ![w] = to]

\* VecDeque::retain over the ring.
Unready(p) == SelectSeq(ready, LAMBDA r : r # p)

----------------------------------------------------------------------------
(* Admission. *)

Queued(p, d) == SelectInSeq(queues[p], LAMBDA j : j.doc = d)

\* As if a superseded job's bytes stayed on the count.
SupersedeKeepsBytes(p, d) ==
  LET i == Queued(p, d) IN [jobs |-> IF i = 0 THEN queues[p] ELSE RemoveAt(queues[p], i),
                            items |-> IF i = 0 THEN 0 ELSE 1, bytes |-> 0]

\* remove_queued_job: what stays, and what it takes off the counts.
Supersede(p, d) ==
  LET i == Queued(p, d)
  IN  IF i = 0 THEN [jobs |-> queues[p], items |-> 0, bytes |-> 0]
      ELSE [jobs |-> RemoveAt(queues[p], i), items |-> 1, bytes |-> queues[p][i].size]

Rejects(p, j, jobs, n, b) ==
  \/ n >= ItemCapacity
  \/ Len(jobs) >= quota
  \/ n > 0 /\ b + j.size > ByteCapacity

\* As if a peer that becomes ready went to the front of the ring.
EnterFront(p, jobs) == IF jobs = <<>> THEN <<p>> \o Unready(p) ELSE ready

\* The ring after a job of p's is pushed behind jobs.
Enter(p, jobs) == IF jobs = <<>> THEN Append(Unready(p), p) ELSE ready

EnqueueAgain(p, j) ==
  LET i == Queued(p, j.doc)
  IN  /\ latest[p][j.doc] = j.version
      /\ IF i = 0 THEN UNCHANGED <<queues, bytes>>
         ELSE /\ queues' = [queues EXCEPT ![p][i] = j]
              /\ bytes' = bytes - queues[p][i].size + j.size
      /\ UNCHANGED <<ready, latest, items>>

EnqueueNew(p, j) ==
  LET known == latest[p][j.doc]
      old == IF known = 0 THEN [jobs |-> queues[p], items |-> 0, bytes |-> 0]
             ELSE Supersede(p, j.doc)
      n == items - old.items
      b == bytes - old.bytes
  IN  /\ known < j.version
      /\ IF Rejects(p, j, old.jobs, n, b)
         THEN /\ queues' = [queues EXCEPT ![p] = old.jobs]
              /\ ready' = IF old.jobs = <<>> THEN Unready(p) ELSE ready
              /\ latest' = [latest EXCEPT ![p][j.doc] = 0]
              /\ items' = n /\ bytes' = b
         ELSE /\ queues' = [queues EXCEPT ![p] = Append(old.jobs, j)]
              /\ ready' = Enter(p, old.jobs)
              /\ latest' = [latest EXCEPT ![p][j.doc] = j.version]
              /\ items' = n + 1 /\ bytes' = b + j.size

\* A closed backlog refuses and changes nothing; so does an older version.
Enqueue(p, j) ==
  /\ phase # "closed"
  /\ j.size \in Sizes[j.version]
  /\ Handle
  /\ EnqueueAgain(p, j) \/ EnqueueNew(p, j)
  /\ UNCHANGED <<active, parking, waiters, phase, pool>>

----------------------------------------------------------------------------
(* serve_waiters and pop_eligible. *)

NextJob(w) ==
  /\ Handle
  /\ Go(w, "idle", "waiting")
  /\ waiters' = Append(waiters, w)
  /\ UNCHANGED <<queue, active, parking, phase, job, answered>>

UnreachableActive == MapThenSumSet(LAMBDA p : active[p], {p \in Peers : spell[p] # 0})

\* As if each unreachable peer had a cap of its own.
EligibleEach(p) == active[p] < ActiveCap /\ p \notin cooling

Eligible(p) ==
  /\ active[p] < ActiveCap
  /\ p \notin cooling
  /\ spell[p] # 0 => UnreachableActive < ActiveCap

Turn == SelectInSeq(ready, Eligible)

\* The ring once the peer at i is served: those skipped go behind it.
Served(i, more) ==
  SubSeq(ready, i + 1, Len(ready)) \o SubSeq(ready, 1, i - 1) \o (IF more THEN <<ready[i]>> ELSE <<>>)

DropWaiter ==
  /\ serving /\ phase # "closed"
  /\ waiters # <<>> /\ at[Head(waiters)] = "stopped"
  /\ waiters' = Tail(waiters)
  /\ UNCHANGED <<queue, active, parking, serving, wakeOn, phase, pool>>

Hand ==
  /\ serving /\ phase # "closed" /\ waiters # <<>> /\ Turn # 0
  /\ LET w == Head(waiters)
         p == ready[Turn]
         j == Head(queues[p])
     IN  /\ Go(w, "waiting", "handed")
         /\ queues' = [queues EXCEPT ![p] = Tail(@)]
         /\ ready' = Served(Turn, Len(queues[p]) > 1)
         /\ items' = items - 1 /\ bytes' = bytes - j.size
         /\ active' = [active EXCEPT ![p] = @ + 1]
         /\ job' = [job EXCEPT ![w] = [peer |-> p, doc |-> j.doc, version |-> j.version, probe |-> spell[p]]]
         /\ answered' = answered \ {w}
  /\ waiters' = Tail(waiters)
  /\ UNCHANGED <<latest, parking, serving, wakeOn, phase>>

\* The worker leaves as the job is sent: it goes back to the front.
Requeue ==
  /\ serving /\ phase = "closing" /\ waiters # <<>> /\ Turn # 0
  /\ Go(Head(waiters), "waiting", "stopped")
  /\ ready' = IF Len(queues[ready[Turn]]) > 1 THEN Served(Turn, TRUE)
              ELSE <<ready[Turn]>> \o Served(Turn, FALSE)
  /\ waiters' = Tail(waiters)
  /\ UNCHANGED <<queues, latest, items, bytes, active, parking, serving, wakeOn, phase, job, answered>>

Wait ==
  /\ serving /\ phase # "closed" /\ (waiters = <<>> \/ Turn = 0)
  /\ serving' = FALSE
  /\ wakeOn' = IF waiters = <<>> THEN {} ELSE {p \in Range(ready) \cap cooling : active[p] < ActiveCap}
  /\ UNCHANGED <<queue, active, parking, waiters, phase, pool>>

Drain ==
  /\ serving /\ phase = "closed"
  /\ serving' = FALSE /\ wakeOn' = {}
  /\ at' = [w \in Workers |-> IF w \in Range(waiters) THEN "stopped" ELSE at[w]]
  /\ waiters' = <<>>
  /\ UNCHANGED <<queue, active, parking, phase, job, answered>>

\* sleep_until: the earliest expiry among the peers the owner waits on.
Timer ==
  /\ ~serving /\ wakeOn \ cooling # {}
  /\ serving' = TRUE
  /\ UNCHANGED <<queue, active, parking, waiters, wakeOn, phase, pool>>

CooldownEnds(p) ==
  /\ p \in cooling
  /\ cooling' = cooling \ {p}
  /\ UNCHANGED <<queue, active, parked, spell, waiters, serving, wakeOn, phase, pool>>

----------------------------------------------------------------------------
(* run_push_job. *)

IsCurrent(w) == latest[job[w].peer][job[w].doc] = job[w].version

CheckFirst(w) ==
  /\ Handle
  /\ Go(w, "handed", IF IsCurrent(w) THEN "sending" ELSE "retired")
  /\ UNCHANGED <<queue, active, parking, waiters, phase, job, answered>>

\* The recorder does not admit the send, or no CAR capability is free.
Refused(w) ==
  /\ Go(w, "sending", "failed")
  /\ UNCHANGED <<queue, active, parking, waiters, serving, wakeOn, phase, job, answered>>

\* The head could not be signed.
Unsigned(w) ==
  /\ Go(w, "sending", "failing")
  /\ UNCHANGED <<queue, active, parking, waiters, serving, wakeOn, phase, job, answered>>

Hear(p) == answered' = answered \cup {w \in Workers : job[w] # NoJob /\ job[w].peer = p}

\* peer_answered, for an accepted head and for a refusal without retry_after.
Answered(w) ==
  /\ Handle
  /\ Go(w, "sending", "ending") \/ Go(w, "sending", "failing")
  /\ Hear(job[w].peer)
  /\ IF spell[job[w].peer] = 0 THEN UNCHANGED parking
     ELSE /\ parked' = parked \ {job[w].peer} /\ cooling' = cooling \ {job[w].peer}
          /\ spell' = [spell EXCEPT ![job[w].peer] = 0]
  /\ UNCHANGED <<queue, active, waiters, phase, job>>

FreshSpell ==
  Min((1..(Cardinality(Peers) + Cardinality(Workers) + 1))
        \ ({spell[p] : p \in Peers} \cup {job[w].probe : w \in {x \in Workers : job[x] # NoJob}}))

Idle(p) == queues[p] = <<>> /\ active[p] = 0

\* retire_idle_cooldowns among the parked: the park that ended earliest goes.
RetireIdle(some, cool) ==
  LET idle == {p \in some : Idle(p)}
  IN  IF Cardinality(some) <= ItemCapacity + Cardinality(Workers) THEN {}
      ELSE IF idle \ cool # {} THEN idle \ cool ELSE idle

ParkPeer(p, newSpell) ==
  LET goes == RetireIdle(parked \cup {p}, cooling \cup {p})
  IN  \E gone \in IF goes = {} THEN {{}} ELSE {{q} : q \in goes} :
        /\ parked' = (parked \cup {p}) \ gone
        /\ cooling' = (cooling \cup {p}) \ gone
        /\ spell' = [q \in Peers |-> IF q \in gone THEN 0 ELSE IF q = p THEN newSpell ELSE spell[q]]

TakeQueued(p) ==
  /\ queues' = [queues EXCEPT ![p] = <<>>]
  /\ ready' = Unready(p)
  /\ items' = items - Len(queues[p])
  /\ bytes' = bytes - MapThenSumSet(LAMBDA i : queues[p][i].size, DOMAIN queues[p])
  /\ latest' = [latest EXCEPT ![p] = [d \in Docs |->
       IF \E j \in Range(queues[p]) : j.doc = d /\ j.version = latest[p][d] THEN 0 ELSE latest[p][d]]]

ProbeFailed(w) == job[w].probe # 0 /\ spell[job[w].peer] = job[w].probe

\* No reply: park_peer_unreachable.
Unreachable(w) ==
  LET p == job[w].peer
  IN  /\ Handle
      /\ Go(w, "sending", "failing")
      /\ ParkPeer(p, IF spell[p] # 0 THEN spell[p] ELSE FreshSpell)
      /\ IF ProbeFailed(w) THEN TakeQueued(p) ELSE UNCHANGED queue
      /\ UNCHANGED <<active, waiters, phase, job, answered>>

\* Saturated, or a retry_after: two commands, with others between them.
AtCapacity(w) ==
  /\ Handle
  /\ Go(w, "sending", "taking")
  /\ Hear(job[w].peer)
  /\ ParkPeer(job[w].peer, 0)
  /\ UNCHANGED <<queue, active, waiters, phase, job>>

Take(w) ==
  /\ Handle
  /\ Go(w, "taking", "failing")
  /\ TakeQueued(job[w].peer)
  /\ UNCHANGED <<active, parking, waiters, phase, job, answered>>

CheckFailed(w) ==
  /\ Handle
  /\ Go(w, "failing", IF IsCurrent(w) THEN "failed" ELSE "ending")
  /\ UNCHANGED <<queue, active, parking, waiters, phase, job, answered>>

CheckEnd(w) ==
  /\ Handle
  /\ Go(w, "ending", IF IsCurrent(w) THEN "succeeded" ELSE "retired")
  /\ UNCHANGED <<queue, active, parking, waiters, phase, job, answered>>

JobDone(w) ==
  LET p == job[w].peer
      ended == at[w] = "succeeded" /\ p \in parked \ cooling
  IN  /\ Handle
      /\ at[w] \in {"succeeded", "failed", "retired"}
      /\ at' = [at EXCEPT ![w] = "idle"]
      /\ active' = [active EXCEPT ![p] = @ - 1]
      /\ latest' = IF IsCurrent(w) THEN [latest EXCEPT ![p][job[w].doc] = 0] ELSE latest
      /\ parked' = IF ended THEN parked \ {p} ELSE parked
      /\ spell' = IF ended THEN [spell EXCEPT ![p] = 0] ELSE spell
      /\ job' = [job EXCEPT ![w] = NoJob]
      /\ answered' = answered \ {w}
      /\ UNCHANGED <<queues, ready, items, bytes, cooling, waiters, phase>>

----------------------------------------------------------------------------
(* Shutdown: Close is sent, then the workers are told to stop. *)

SendClose ==
  /\ phase = "open"
  /\ phase' = "closing"
  /\ UNCHANGED <<queue, active, parking, waiters, serving, wakeOn, pool>>

Close ==
  /\ phase = "closing"
  /\ Handle
  /\ phase' = "closed"
  /\ queues' = [p \in Peers |-> <<>>] /\ ready' = <<>>
  /\ latest' = [p \in Peers |-> [d \in Docs |-> 0]]
  /\ items' = 0 /\ bytes' = 0
  /\ UNCHANGED <<active, parking, waiters, pool>>

\* A waiting worker leaves, with a job already in its channel perhaps; a
\* running one is aborted at the deadline.
Stop(w) ==
  /\ phase # "open" /\ at[w] # "stopped"
  /\ at' = [at EXCEPT ![w] = "stopped"]
  /\ UNCHANGED <<queue, active, parking, waiters, serving, wakeOn, phase, job, answered>>

----------------------------------------------------------------------------
Owner == DropWaiter \/ Hand \/ Wait \/ Drain \/ Timer

Work(w) ==
  \/ NextJob(w) \/ CheckFirst(w) \/ Refused(w) \/ Unsigned(w) \/ Answered(w)
  \/ Unreachable(w) \/ AtCapacity(w) \/ Take(w) \/ CheckFailed(w) \/ CheckEnd(w) \/ JobDone(w)

Next ==
  \/ Owner \/ Requeue
  \/ \E p \in Peers, j \in Jobs : Enqueue(p, j)
  \/ \E w \in Workers : Work(w) \/ Stop(w)
  \/ \E p \in Peers : CooldownEnds(p)
  \/ SendClose \/ Close

Spec == Init /\ [][Next]_vars

\* The owner's task runs; its channel is first in, first out, so each command
\* a worker sends is taken although others keep coming; sends have timeouts.
FairSpec ==
  /\ Spec
  /\ WF_vars(Owner)
  /\ \A w \in Workers : SF_vars(Work(w))
  /\ \A p \in Peers : WF_vars(CooldownEnds(p))

----------------------------------------------------------------------------
Places == {"idle", "waiting", "handed", "sending", "taking", "failing", "ending",
           "succeeded", "failed", "retired", "stopped"}
Running == {w \in Workers : job[w] # NoJob}

\* A worker holds a job from when it is handed one until it reports it done.
TypeOK ==
  /\ queues \in [Peers -> Seq(Jobs)] /\ ready \in Seq(Peers)
  /\ latest \in [Peers -> [Docs -> Versions \cup {0}]]
  /\ items \in Nat /\ bytes \in Nat /\ active \in [Peers -> Nat]
  /\ cooling \subseteq parked /\ parked \subseteq Peers /\ spell \in [Peers -> Nat]
  /\ waiters \in Seq(Workers) /\ serving \in BOOLEAN /\ wakeOn \subseteq Peers
  /\ phase \in {"open", "closing", "closed"} /\ answered \subseteq Running
  /\ at \in [Workers -> Places]
  /\ \A w \in Workers :
       /\ at[w] \in {"idle", "waiting"} => job[w] = NoJob
       /\ job[w] = NoJob => at[w] \in {"idle", "waiting", "stopped"}

\* Inner: through coalescing, rejection, parking, hand-over and close, the
\* totals are those of the queues, a started job counts until it is done, and
\* the ring holds each peer with a queue exactly once.
CountsExact ==
  /\ items = MapThenSumSet(LAMBDA p : Len(queues[p]), Peers)
  /\ bytes = MapThenSumSet(LAMBDA p :
       MapThenSumSet(LAMBDA i : queues[p][i].size, DOMAIN queues[p]), Peers)
  /\ \A p \in Peers : active[p] = Cardinality({w \in Running : job[w].peer = p})
  /\ IsInjective(ready) /\ Range(ready) = {p \in Peers : queues[p] # <<>>}

\* The resource contract: queued_items <= item_capacity, a quarter of it for
\* one peer, min(cap, workers) workers for one peer, and parking state for
\* item_capacity + worker_count peers.
WithinCaps ==
  /\ items <= ItemCapacity
  /\ \A p \in Peers : Len(queues[p]) <= quota /\ active[p] <= ActiveCap
  /\ Cardinality(parked) <= ItemCapacity + Cardinality(Workers)

\* serve_waiters: a worker is never left parked beside a job it could have,
\* unless the owner's timer is set for that job's peer.
NoneHeldBack ==
  (~serving /\ phase # "closed" /\ waiters # <<>>)
    => \A p \in Range(ready) : Eligible(p) => p \in wakeOn

\* "until it answers again it shares one per_peer_active_cap with every other
\* such peer": a start adds to what dead peers hold only below one peer's cap.
DeadPeersShare ==
  \A p \in Peers : spell[p] # 0 /\ active'[p] > active[p] => UnreachableActive < ActiveCap

\* "a peer that answers right after one failed round keeps its queue live": no
\* transport failure empties a queue unless its job was a probe and the peer
\* has not replied since that probe was started.
DemotedByProbe ==
  \A w \in Workers : at[w] = "sending" /\ at'[w] = "failing" /\ queues' # queues
    => job[w].probe # 0 /\ w \notin answered

\* The totals, the caps and the parked workers are those the queues determine.
BacklogExact == TypeOK /\ CountsExact /\ NoneHeldBack /\ WithinCaps
=============================================================================
