-------------------------- MODULE BlockingPoolProofs --------------------------
(***************************************************************************)
(* Proofs about BlockingPool for any jobs, any threads and any length of   *)
(* the queue: the queue's slots are counted exactly, so that a push never  *)
(* fails; closing fails no job that was queued; and no job stays in a queue *)
(* that nobody serves.                                                     *)
(***************************************************************************)
EXTENDS BlockingPool, FiniteSetTheorems, TLAPS

-----------------------------------------------------------------------------
(* The inductive invariant. *)

CallerSteps == {"new", "room", "push", "ready", "look", "drain", "over"}
ThreadSteps == {"wait", "pop", "give", "run", "empty", "leave", "last", "drain", "gone"}
Hands == {<<>>} \cup {<<j>> : j \in Jobs}

\* A thread that has not left its loop, one that is counted by live.
InLoop == {t \in Threads : thread[t] \in {"wait", "pop", "give", "run"}}
Serving == {t \in Threads : thread[t] \notin {"last", "drain", "gone"}}

Types ==
  /\ jobs \in Seq(Jobs) /\ room \in Nat /\ ready \in Nat /\ live \in Int /\ closing \in BOOLEAN
  /\ caller \in [Jobs -> CallerSteps]
  /\ thread \in [Threads -> ThreadSteps]
  /\ hand \in [Jobs \cup Threads -> Hands]
  /\ answer \in [Jobs -> {"none", "done", "failed"}]
  /\ closer \in {"open", "add", "closed"}
  /\ early \subseteq Jobs

\* Only threads that took a job and drainers have one in hand.
HandsHeld ==
  /\ \A t \in Threads : thread[t] \in {"give", "run"} => hand[t] # <<>>
  /\ \A t \in Threads : thread[t] \notin {"give", "run", "drain"} => hand[t] = <<>>
  /\ \A j \in Jobs : caller[j] # "drain" => hand[j] = <<>>

\* Whose job holds a slot of the queue: pushing, or popped and not given back.
Pushing == {j \in Jobs : caller[j] = "push"}
Popped == {t \in Threads : thread[t] \in {"give", "drain"} /\ hand[t] # <<>>}
Dropping == {j \in Jobs : caller[j] = "drain" /\ hand[j] # <<>>}

\* Until close has added its permits, a permit is a queued job: each is with the
\* semaphore, with a thread that pops or with the caller that adds it.
Popping == {t \in Threads : thread[t] = "pop"}
Signalling == {j \in Jobs : caller[j] = "ready"}
Permits == closer # "closed" => Len(jobs) = ready + Cardinality(Popping) + Cardinality(Signalling)

Counted == live = Cardinality(Serving)

\* Nobody drains while a thread serves.
Drains ==
  /\ \A t \in Threads : thread[t] = "drain" => live = 0
  /\ \A j \in Jobs : caller[j] = "drain" => live = 0

\* A thread leaves its loop only after it found the queue empty, once the pool
\* closed: none of the jobs that were queued then is left by that time.
Stays == closer # "closed" \/ Range(jobs) \cap early # {} => InLoop = Threads

Closing ==
  /\ closing <=> closer # "open"
  /\ closer = "open" => early = {} /\ \A j \in Jobs : answer[j] # "failed"

\* A queued job's caller is past its push, and so was that of a job that was
\* queued when the pool closed.
PastPush == \A j \in Jobs : j \in Range(jobs) \cup early =>
                              caller[j] \in {"ready", "look", "drain", "over"}

\* What a drainer has popped was queued after the pool closed.
DrainsLate ==
  /\ \A t \in Threads : thread[t] = "drain" => Range(hand[t]) \cap early = {}
  /\ \A j \in Jobs : caller[j] = "drain" => Range(hand[j]) \cap early = {}

IInv ==
  /\ Types /\ HandsHeld /\ RoomExact /\ Permits /\ Counted /\ Drains
  /\ Stays /\ Closing /\ PastPush /\ DrainsLate /\ QueuedFinish /\ NoneStranded

-----------------------------------------------------------------------------
(* Sequences and finite sets. *)

\* The queue after a job was added.
LEMMA Appended ==
  ASSUME NEW S, NEW s \in Seq(S), NEW m \in S
  PROVE  /\ Append(s, m) \in Seq(S)
         /\ Len(s) \in Nat /\ Len(Append(s, m)) = Len(s) + 1
         /\ Range(Append(s, m)) = Range(s) \cup {m}
<1>1. /\ Append(s, m) \in Seq(S) /\ Len(Append(s, m)) = Len(s) + 1 /\ Len(s) \in Nat
      /\ DOMAIN s = 1 .. Len(s) /\ DOMAIN Append(s, m) = 1 .. Len(s) + 1
      /\ \A i \in 1 .. Len(s) : Append(s, m)[i] = s[i]
      /\ Append(s, m)[Len(s) + 1] = m
  OBVIOUS
<1> DEFINE a == Append(s, m)
<1> DEFINE n == Len(s)
<1>2. /\ DOMAIN s = 1 .. n /\ DOMAIN a = 1 .. n + 1 /\ n \in Nat
      /\ \A i \in 1 .. n : a[i] = s[i]
      /\ a[n + 1] = m
  BY <1>1
<1> HIDE DEF a, n
<1>3. 1 .. n + 1 = (1 .. n) \cup {n + 1}
  BY <1>2
<1>4. Range(a) = {a[i] : i \in (1 .. n) \cup {n + 1}}
  BY <1>2, <1>3 DEF Range
<1>5. Range(a) = {a[i] : i \in 1 .. n} \cup {a[n + 1]}
  BY <1>4, Zenon
<1>6. {a[i] : i \in 1 .. n} = Range(s)
  BY <1>2 DEF Range
<1> QED BY <1>1, <1>2, <1>5, <1>6 DEF a

\* The queue after its first job was taken.
LEMMA Shortened ==
  ASSUME NEW S, NEW s \in Seq(S), s # <<>>
  PROVE  /\ Tail(s) \in Seq(S) /\ Head(s) \in S /\ Head(s) \in Range(s)
         /\ Len(s) \in Nat /\ Len(Tail(s)) = Len(s) - 1
         /\ Range(Tail(s)) \subseteq Range(s)
<1>1. /\ Tail(s) \in Seq(S) /\ Len(s) \in Nat \ {0} /\ Len(Tail(s)) = Len(s) - 1
      /\ DOMAIN s = 1 .. Len(s) /\ DOMAIN Tail(s) = 1 .. Len(s) - 1
      /\ \A i \in 1 .. Len(s) - 1 : Tail(s)[i] = s[i + 1]
      /\ Head(s) = s[1] /\ Head(s) \in S
  OBVIOUS
<1> DEFINE r == Tail(s)
<1> DEFINE n == Len(s)
<1>2. /\ DOMAIN s = 1 .. n /\ DOMAIN r = 1 .. n - 1 /\ n \in Nat \ {0}
      /\ \A i \in 1 .. n - 1 : r[i] = s[i + 1]
  BY <1>1
<1> HIDE DEF r, n
<1>3. 1 \in 1 .. n /\ \A i \in 1 .. n - 1 : i + 1 \in 1 .. n
  BY <1>2
<1>4. Range(r) \subseteq Range(s) /\ s[1] \in Range(s)
  BY <1>2, <1>3, Zenon DEF Range
<1> QED BY <1>1, <1>4 DEF r

\* A hand holds one job or none.
LEMMA InHand ==
  /\ <<>> \in Hands /\ Range(<<>>) = {}
  /\ \A j \in Jobs : <<j>> \in Hands /\ <<j>> # <<>> /\ Range(<<j>>) = {j}
  /\ \A h \in Hands : h # <<>> => Head(h) \in Jobs /\ Range(h) = {Head(h)}
<1>1. <<>> \in Hands /\ Range(<<>>) = {}
  BY DEF Hands, Range
<1>2. ASSUME NEW j \in Jobs
      PROVE  <<j>> \in Hands /\ <<j>> # <<>> /\ Range(<<j>>) = {j} /\ Head(<<j>>) = j
  BY DEF Hands, Range
<1>3. ASSUME NEW h \in Hands, h # <<>> PROVE Head(h) \in Jobs /\ Range(h) = {Head(h)}
  <2>1. PICK j \in Jobs : h = <<j>>
    BY <1>3, Zenon DEF Hands
  <2> QED BY <1>2, <2>1
<1> QED BY <1>1, <1>2, <1>3

\* One more, or one less, of a part of a finite set.
LEMMA OneMore ==
  ASSUME NEW S, IsFiniteSet(S), NEW A, A \subseteq S, NEW x \in S, x \notin A, NEW B, B = A \cup {x}
  PROVE  Cardinality(A) \in Nat /\ Cardinality(B) = Cardinality(A) + 1
<1>1. IsFiniteSet(A)
  BY FS_Subset
<1> QED BY <1>1, FS_CardinalityType, FS_AddElement

LEMMA OneLess ==
  ASSUME NEW S, IsFiniteSet(S), NEW A, A \subseteq S, NEW x \in A, NEW B, B = A \ {x}
  PROVE  Cardinality(A) \in Nat \ {0} /\ Cardinality(B) = Cardinality(A) - 1
<1>1. IsFiniteSet(A)
  BY FS_Subset
<1>2. Cardinality(A) # 0
  BY <1>1, FS_EmptySet
<1> QED BY <1>1, <1>2, FS_CardinalityType, FS_RemoveElement

\* The counted parts are finite.
LEMMA Numbers ==
  /\ Cardinality(Pushing) \in Nat /\ Cardinality(Popped) \in Nat /\ Cardinality(Dropping) \in Nat
  /\ Cardinality(Popping) \in Nat /\ Cardinality(Signalling) \in Nat /\ Cardinality(Serving) \in Nat
<1>1. /\ Pushing \subseteq Jobs /\ Dropping \subseteq Jobs /\ Signalling \subseteq Jobs
      /\ Popped \subseteq Threads /\ Popping \subseteq Threads /\ Serving \subseteq Threads
  BY DEF Pushing, Dropping, Signalling, Popped, Popping, Serving
<1>2. \A A \in SUBSET Jobs : Cardinality(A) \in Nat
  BY BlockingAssumption, FS_Subset, FS_CardinalityType
<1>3. \A A \in SUBSET Threads : Cardinality(A) \in Nat
  BY BlockingAssumption, FS_Subset, FS_CardinalityType
<1> QED BY <1>1, <1>2, <1>3

-----------------------------------------------------------------------------
(* Types, and what is in whose hand. *)

\* What popping and dropping a job do.
LEMMA Pops ==
  ASSUME Types, NEW x \in Jobs \cup Threads, Pop(x)
  PROVE  /\ jobs' \in Seq(Jobs) /\ hand' \in [Jobs \cup Threads -> Hands]
         /\ hand[x] = <<>> /\ Head(jobs) \in Jobs \cap Range(jobs)
         /\ hand'[x] = <<Head(jobs)>> /\ hand'[x] # <<>> /\ Range(hand'[x]) = {Head(jobs)}
         /\ \A y \in Jobs \cup Threads : y # x => hand'[y] = hand[y]
         /\ Len(jobs) \in Nat /\ Len(jobs') = Len(jobs) - 1 /\ Range(jobs') \subseteq Range(jobs)
<1>1. /\ jobs \in Seq(Jobs) /\ jobs # <<>> /\ jobs' = Tail(jobs) /\ hand[x] = <<>>
      /\ hand' = [hand EXCEPT ![x] = <<Head(jobs)>>] /\ hand \in [Jobs \cup Threads -> Hands]
  BY Zenon DEF Pop, Types
<1>2. /\ jobs' \in Seq(Jobs) /\ Head(jobs) \in Jobs \cap Range(jobs)
      /\ Len(jobs) \in Nat /\ Len(jobs') = Len(jobs) - 1 /\ Range(jobs') \subseteq Range(jobs)
  BY <1>1, Shortened
<1>3. /\ <<Head(jobs)>> \in Hands /\ <<Head(jobs)>> # <<>>
      /\ Range(<<Head(jobs)>>) = {Head(jobs)}
  BY <1>2, InHand
<1>4. /\ hand' \in [Jobs \cup Threads -> Hands] /\ hand'[x] = <<Head(jobs)>>
      /\ \A y \in Jobs \cup Threads : y # x => hand'[y] = hand[y]
  BY <1>1, <1>3, Zenon
<1> QED BY <1>1, <1>2, <1>3, <1>4, Zenon

LEMMA Drops ==
  ASSUME Types, NEW x \in Jobs \cup Threads, Drop(x)
  PROVE  /\ hand[x] # <<>> /\ Head(hand[x]) \in Jobs /\ Range(hand[x]) = {Head(hand[x])}
         /\ hand' \in [Jobs \cup Threads -> Hands] /\ hand'[x] = <<>>
         /\ \A y \in Jobs \cup Threads : y # x => hand'[y] = hand[y]
         /\ answer' = [answer EXCEPT ![Head(hand[x])] = "failed"]
         /\ answer' \in [Jobs -> {"none", "done", "failed"}]
         /\ room' = room + 1 /\ room' \in Nat
<1>1. /\ hand[x] # <<>> /\ hand' = [hand EXCEPT ![x] = <<>>] /\ hand[x] \in Hands
      /\ hand \in [Jobs \cup Threads -> Hands] /\ answer \in [Jobs -> {"none", "done", "failed"}]
      /\ answer' = [answer EXCEPT ![Head(hand[x])] = "failed"]
  BY Zenon DEF Drop, Types
<1>2. room' = room + 1 /\ room' \in Nat
  BY DEF Drop, Types
<1>3. <<>> \in Hands /\ Head(hand[x]) \in Jobs /\ Range(hand[x]) = {Head(hand[x])}
  BY <1>1, InHand, Zenon
<1>4. /\ hand' \in [Jobs \cup Threads -> Hands] /\ hand'[x] = <<>>
      /\ \A y \in Jobs \cup Threads : y # x => hand'[y] = hand[y]
      /\ answer' \in [Jobs -> {"none", "done", "failed"}]
  BY <1>1, <1>3, Zenon
<1> QED BY <1>1, <1>2, <1>3, <1>4, Zenon

LEMMA SpawnTypes ==
  ASSUME Types, NEW j \in Jobs, Spawn(j)
  PROVE  Types'
<1>1. CASE Ask(j)
  BY <1>1, Zenon DEF Ask, Types, CallerSteps, sems
<1>2. CASE Acquire(j)
  BY <1>2 DEF Acquire, Types, CallerSteps
<1>3. CASE Push(j)
  <2>1. jobs' \in Seq(Jobs)
    BY <1>3 DEF Push, Types
  <2> QED BY <1>3, <2>1, Zenon DEF Push, Types, CallerSteps, sems
<1>4. CASE Signal(j)
  BY <1>4 DEF Signal, Types, CallerSteps
<1>5. CASE Look(j)
  BY <1>5, Zenon DEF Look, Types, CallerSteps, sems
<1>6. CASE CallerDrains(j)
  <2>1. CASE Pop(j) /\ UNCHANGED <<room, answer, caller>>
    <3>1. jobs' \in Seq(Jobs) /\ hand' \in [Jobs \cup Threads -> Hands]
      BY <2>1, Pops, Zenon
    <3> QED BY <1>6, <2>1, <3>1, Zenon DEF CallerDrains, Types
  <2>2. CASE Drop(j) /\ UNCHANGED <<jobs, caller>>
    <3>1. /\ hand' \in [Jobs \cup Threads -> Hands] /\ room' \in Nat
          /\ answer' \in [Jobs -> {"none", "done", "failed"}]
      BY <2>2, Drops, Zenon
    <3> QED BY <1>6, <2>2, <3>1, Zenon DEF CallerDrains, Types
  <2>3. CASE /\ caller' = [caller EXCEPT ![j] = "over"]
             /\ UNCHANGED <<jobs, room, answer, hand>>
    BY <1>6, <2>3, Zenon DEF CallerDrains, Types, CallerSteps
  <2> QED BY <1>6, <2>1, <2>2, <2>3, Zenon DEF CallerDrains
<1> QED BY <1>1, <1>2, <1>3, <1>4, <1>5, <1>6, Zenon DEF Spawn

LEMMA ServeTypes ==
  ASSUME Types, HandsHeld, NEW t \in Threads, Serve(t)
  PROVE  Types'
<1>1. CASE Wake(t)
  BY <1>1 DEF Wake, Types, ThreadSteps
<1>2. CASE Take(t)
  <2>1. jobs' \in Seq(Jobs) /\ hand' \in [Jobs \cup Threads -> Hands]
    BY <1>2, Pops, Zenon DEF Take
  <2> QED BY <1>2, <2>1, Zenon DEF Take, Types, ThreadSteps, sems
<1>3. CASE Give(t)
  BY <1>3 DEF Give, Types, ThreadSteps
<1>4. CASE Run(t)
  <2>1. hand[t] \in Hands /\ hand[t] # <<>>
    BY <1>4, Zenon DEF Run, Types, HandsHeld
  <2>2. Head(hand[t]) \in Jobs /\ <<>> \in Hands
    BY <2>1, InHand, Zenon
  <2> QED BY <1>4, <2>2, Zenon DEF Run, Types, ThreadSteps, sems
<1>5. CASE FoundNone(t) \/ Stop(t) \/ LastOut(t)
  BY <1>5, Zenon DEF FoundNone, Stop, LastOut, Types, ThreadSteps, sems
<1>6. CASE Leave(t)
  BY <1>6 DEF Leave, Types, ThreadSteps, sems
<1>7. CASE ThreadDrains(t)
  <2>1. CASE Pop(t) /\ UNCHANGED <<room, answer, thread>>
    <3>1. jobs' \in Seq(Jobs) /\ hand' \in [Jobs \cup Threads -> Hands]
      BY <2>1, Pops, Zenon
    <3> QED BY <1>7, <2>1, <3>1, Zenon DEF ThreadDrains, Types
  <2>2. CASE Drop(t) /\ UNCHANGED <<jobs, thread>>
    <3>1. /\ hand' \in [Jobs \cup Threads -> Hands] /\ room' \in Nat
          /\ answer' \in [Jobs -> {"none", "done", "failed"}]
      BY <2>2, Drops, Zenon
    <3> QED BY <1>7, <2>2, <3>1, Zenon DEF ThreadDrains, Types
  <2>3. CASE /\ thread' = [thread EXCEPT ![t] = "gone"]
             /\ UNCHANGED <<jobs, room, answer, hand>>
    BY <1>7, <2>3, Zenon DEF ThreadDrains, Types, ThreadSteps
  <2> QED BY <1>7, <2>1, <2>2, <2>3, Zenon DEF ThreadDrains
<1> QED BY <1>1, <1>2, <1>3, <1>4, <1>5, <1>6, <1>7, Zenon DEF Serve

LEMMA CloseTypes ==
  ASSUME Types, Close
  PROVE  Types'
<1>1. CASE BeginClose
  <2>1. Range(jobs) \subseteq Jobs
    BY DEF Types, Range
  <2> QED BY <1>1, <2>1, Zenon DEF BeginClose, Types, sems
<1>2. CASE WakeAll
  <2>1. Cardinality(Threads) \in Nat
    BY BlockingAssumption, FS_CardinalityType
  <2> QED BY <1>2, <2>1 DEF WakeAll, Types
<1> QED BY <1>1, <1>2 DEF Close

LEMMA HandsKept ==
  ASSUME Types, HandsHeld, Next
  PROVE  HandsHeld'
<1>1. ASSUME NEW j \in Jobs, Spawn(j) PROVE HandsHeld'
  <2> j \notin Threads
    BY BlockingAssumption, Zenon
  <2>1. CASE Ask(j)
    BY <2>1, Zenon DEF Ask, Types, HandsHeld
  <2>2. CASE Acquire(j)
    BY <2>2, Zenon DEF Acquire, Types, HandsHeld
  <2>3. CASE Push(j)
    BY <2>3, Zenon DEF Push, Types, HandsHeld
  <2>4. CASE Signal(j)
    BY <2>4, Zenon DEF Signal, Types, HandsHeld
  <2>5. CASE Look(j)
    BY <2>5, Zenon DEF Look, Types, HandsHeld
  <2>6. CASE CallerDrains(j)
    <3>1. caller[j] = "drain" /\ UNCHANGED thread
      BY <2>6, Zenon DEF CallerDrains
    <3>2. CASE Pop(j) /\ UNCHANGED <<room, answer, caller>>
      BY <3>1, <3>2, Pops, Zenon DEF Types, HandsHeld
    <3>3. CASE Drop(j) /\ UNCHANGED <<jobs, caller>>
      BY <3>1, <3>3, Drops, Zenon DEF Types, HandsHeld
    <3>4. CASE /\ jobs = <<>> /\ hand[j] = <<>>
               /\ caller' = [caller EXCEPT ![j] = "over"] /\ UNCHANGED <<jobs, room, answer, hand>>
      BY <3>1, <3>4, Zenon DEF Types, HandsHeld
    <3> QED BY <2>6, <3>2, <3>3, <3>4, Zenon DEF CallerDrains
  <2> QED BY <1>1, <2>1, <2>2, <2>3, <2>4, <2>5, <2>6, Zenon DEF Spawn
<1>2. ASSUME NEW t \in Threads, Serve(t) PROVE HandsHeld'
  <2> t \notin Jobs
    BY BlockingAssumption, Zenon
  <2>1. CASE Wake(t)
    BY <2>1, Zenon DEF Wake, Types, HandsHeld
  <2>2. CASE Take(t)
    <3>1. UNCHANGED caller /\ thread' = [thread EXCEPT ![t] = "give"] /\ Pop(t)
      BY <2>2, Zenon DEF Take
    <3>2. /\ hand'[t] # <<>>
          /\ \A y \in Jobs \cup Threads : y # t => hand'[y] = hand[y]
      BY <3>1, Pops, Zenon
    <3>3. thread'[t] = "give" /\ \A u \in Threads : u # t => thread'[u] = thread[u]
      BY <3>1, Zenon DEF Types
    <3>4. caller' = caller /\ \A j \in Jobs : hand'[j] = hand[j]
      BY <3>1, <3>2, Zenon
    <3> QED BY <3>2, <3>3, <3>4, Zenon DEF HandsHeld
  <2>3. CASE Give(t)
    BY <2>3, Zenon DEF Give, Types, HandsHeld
  <2>4. CASE Run(t)
    <3>1. \A y \in Jobs \cup Threads : y # t => hand'[y] = hand[y]
      BY <2>4, Zenon DEF Run, Types
    <3>2. hand'[t] = <<>> /\ thread' = [thread EXCEPT ![t] = "wait"] /\ UNCHANGED caller
      BY <2>4, Zenon DEF Run, Types
    <3> QED BY <3>1, <3>2, Zenon DEF Types, HandsHeld
  <2>5. CASE FoundNone(t)
    BY <2>5, Zenon DEF FoundNone, Types, HandsHeld
  <2>6. CASE Stop(t)
    BY <2>6, Zenon DEF Stop, Types, HandsHeld
  <2>7. CASE Leave(t)
    BY <2>7, Zenon DEF Leave, Types, HandsHeld
  <2>8. CASE LastOut(t)
    BY <2>8, Zenon DEF LastOut, Types, HandsHeld
  <2>9. CASE ThreadDrains(t)
    <3>1. thread[t] = "drain" /\ UNCHANGED caller
      BY <2>9, Zenon DEF ThreadDrains
    <3>2. CASE Pop(t) /\ UNCHANGED <<room, answer, thread>>
      BY <3>1, <3>2, Pops, Zenon DEF Types, HandsHeld
    <3>3. CASE Drop(t) /\ UNCHANGED <<jobs, thread>>
      BY <3>1, <3>3, Drops, Zenon DEF Types, HandsHeld
    <3>4. CASE /\ jobs = <<>> /\ hand[t] = <<>>
               /\ thread' = [thread EXCEPT ![t] = "gone"] /\ UNCHANGED <<jobs, room, answer, hand>>
      BY <3>1, <3>4, Zenon DEF Types, HandsHeld
    <3> QED BY <2>9, <3>2, <3>3, <3>4, Zenon DEF ThreadDrains
  <2> QED BY <1>2, <2>1, <2>2, <2>3, <2>4, <2>5, <2>6, <2>7, <2>8, <2>9, Zenon DEF Serve
<1>3. CASE Close
  BY <1>3, Zenon DEF Close, BeginClose, WakeAll, HandsHeld
<1> QED BY <1>1, <1>2, <1>3, Zenon DEF Next

-----------------------------------------------------------------------------
(* The slots of the queue. *)

LEMMA Slots ==
  /\ RoomExact <=> room + Len(jobs) + Cardinality(Pushing) + Cardinality(Popped)
                     + Cardinality(Dropping) = Queue
  /\ RoomExact' <=> room' + Len(jobs') + Cardinality(Pushing') + Cardinality(Popped')
                      + Cardinality(Dropping') = Queue
BY DEF RoomExact, Pushing, Popped, Dropping

LEMMA SameSlots ==
  ASSUME RoomExact, room' = room, jobs' = jobs, Pushing' = Pushing, Popped' = Popped,
         Dropping' = Dropping
  PROVE  RoomExact'
BY Slots

LEMMA SpawnKeepsRoom ==
  ASSUME Types, HandsHeld, RoomExact, NEW j \in Jobs, Spawn(j)
  PROVE  RoomExact'
<1> j \notin Threads
  BY BlockingAssumption, Zenon
<1>0. /\ room \in Nat /\ Len(jobs) \in Nat
      /\ Pushing \subseteq Jobs /\ Dropping \subseteq Jobs /\ IsFiniteSet(Jobs)
  BY BlockingAssumption DEF Types, Pushing, Dropping
<1>1. CASE Ask(j)
  <2>1. Pushing' = Pushing /\ Popped' = Popped /\ Dropping' = Dropping
    BY <1>1, Zenon DEF Ask, Types, Pushing, Popped, Dropping
  <2> QED BY <1>1, <2>1, SameSlots, Zenon DEF Ask, sems
<1>2. CASE Acquire(j)
  <2>1. /\ j \notin Pushing /\ Pushing' = Pushing \cup {j}
        /\ Popped' = Popped /\ Dropping' = Dropping
    BY <1>2, Zenon DEF Acquire, Types, Pushing, Popped, Dropping
  <2>2. Cardinality(Pushing') = Cardinality(Pushing) + 1
    BY <1>0, <2>1, OneMore
  <2>3. room' = room - 1 /\ jobs' = jobs
    BY <1>2 DEF Acquire
  <2> QED BY <1>0, <2>1, <2>2, <2>3, Slots, Numbers
<1>3. CASE Push(j)
  <2>1. /\ j \in Pushing /\ Pushing' = Pushing \ {j}
        /\ Popped' = Popped /\ Dropping' = Dropping
    BY <1>3, Zenon DEF Push, Types, Pushing, Popped, Dropping
  <2>2. Cardinality(Pushing') = Cardinality(Pushing) - 1
    BY <1>0, <2>1, OneLess
  <2>3. room' = room /\ Len(jobs') = Len(jobs) + 1
    BY <1>3 DEF Push, Types, sems
  <2> QED BY <1>0, <2>1, <2>2, <2>3, Slots, Numbers
<1>4. CASE Signal(j)
  <2>1. Pushing' = Pushing /\ Popped' = Popped /\ Dropping' = Dropping
    BY <1>4, Zenon DEF Signal, Types, Pushing, Popped, Dropping
  <2> QED BY <1>4, <2>1, SameSlots, Zenon DEF Signal
<1>5. CASE Look(j)
  <2>1. Pushing' = Pushing /\ Popped' = Popped /\ Dropping' = Dropping
    BY <1>5, Zenon DEF Look, Types, HandsHeld, Pushing, Popped, Dropping
  <2> QED BY <1>5, <2>1, SameSlots, Zenon DEF Look, sems
<1>6. CASE CallerDrains(j)
  <2>1. caller[j] = "drain" /\ UNCHANGED thread
    BY <1>6, Zenon DEF CallerDrains
  <2>2. CASE Pop(j) /\ UNCHANGED <<room, answer, caller>>
    <3>1. /\ hand[j] = <<>> /\ hand'[j] # <<>>
          /\ \A y \in Jobs \cup Threads : y # j => hand'[y] = hand[y]
      BY <2>2, Pops, Zenon
    <3>2. /\ j \notin Dropping /\ Dropping' = Dropping \cup {j}
          /\ Popped' = Popped /\ Pushing' = Pushing
      BY <2>1, <2>2, <3>1, Zenon DEF Pushing, Popped, Dropping
    <3>3. Cardinality(Dropping') = Cardinality(Dropping) + 1
      BY <1>0, <3>2, OneMore
    <3>4. room' = room /\ Len(jobs') = Len(jobs) - 1
      BY <2>2, Pops
    <3> QED BY <1>0, <3>2, <3>3, <3>4, Slots, Numbers
  <2>3. CASE Drop(j) /\ UNCHANGED <<jobs, caller>>
    <3>1. /\ hand[j] # <<>> /\ hand'[j] = <<>>
          /\ \A y \in Jobs \cup Threads : y # j => hand'[y] = hand[y]
      BY <2>3, Drops, Zenon
    <3>2. /\ j \in Dropping /\ Dropping' = Dropping \ {j}
          /\ Popped' = Popped /\ Pushing' = Pushing
      BY <2>1, <2>3, <3>1, Zenon DEF Pushing, Popped, Dropping
    <3>3. Cardinality(Dropping') = Cardinality(Dropping) - 1
      BY <1>0, <3>2, OneLess
    <3>4. room' = room + 1 /\ Len(jobs') = Len(jobs)
      BY <2>3, Drops
    <3> QED BY <1>0, <3>2, <3>3, <3>4, Slots, Numbers
  <2>4. CASE /\ jobs = <<>> /\ hand[j] = <<>>
             /\ caller' = [caller EXCEPT ![j] = "over"] /\ UNCHANGED <<jobs, room, answer, hand>>
    <3>1. Pushing' = Pushing /\ Popped' = Popped /\ Dropping' = Dropping
      BY <2>1, <2>4, Zenon DEF Types, Pushing, Popped, Dropping
    <3> QED BY <2>4, <3>1, SameSlots, Zenon
  <2> QED BY <1>6, <2>2, <2>3, <2>4, Zenon DEF CallerDrains
<1> QED BY <1>1, <1>2, <1>3, <1>4, <1>5, <1>6, Zenon DEF Spawn

LEMMA ServeKeepsRoom ==
  ASSUME Types, HandsHeld, RoomExact, NEW t \in Threads, Serve(t)
  PROVE  RoomExact'
<1> t \notin Jobs
  BY BlockingAssumption, Zenon
<1>0. /\ room \in Nat /\ Len(jobs) \in Nat
      /\ Popped \subseteq Threads /\ IsFiniteSet(Threads)
  BY BlockingAssumption DEF Types, Popped
<1>1. CASE Wake(t)
  <2>1. Pushing' = Pushing /\ Popped' = Popped /\ Dropping' = Dropping
    BY <1>1, Zenon DEF Wake, Types, Pushing, Popped, Dropping
  <2> QED BY <1>1, <2>1, SameSlots, Zenon DEF Wake
<1>2. CASE Take(t)
  <2>1. /\ UNCHANGED <<room, caller>> /\ Pop(t)
        /\ thread'[t] = "give" /\ \A u \in Threads : u # t => thread'[u] = thread[u]
    BY <1>2, Zenon DEF Take, Types, sems
  <2>2. /\ hand[t] = <<>> /\ hand'[t] # <<>>
        /\ \A y \in Jobs \cup Threads : y # t => hand'[y] = hand[y]
    BY <2>1, Pops, Zenon
  <2>3. /\ t \notin Popped /\ Popped' = Popped \cup {t}
        /\ Dropping' = Dropping /\ Pushing' = Pushing
    BY <2>1, <2>2, Zenon DEF Pushing, Popped, Dropping
  <2>4. Cardinality(Popped') = Cardinality(Popped) + 1
    BY <1>0, <2>3, OneMore
  <2>5. room' = room /\ Len(jobs') = Len(jobs) - 1
    BY <2>1, Pops
  <2> QED BY <1>0, <2>3, <2>4, <2>5, Slots, Numbers
<1>3. CASE Give(t)
  <2>1. /\ t \in Popped /\ Popped' = Popped \ {t}
        /\ Dropping' = Dropping /\ Pushing' = Pushing
    BY <1>3, Zenon DEF Give, Types, HandsHeld, Pushing, Popped, Dropping
  <2>2. Cardinality(Popped') = Cardinality(Popped) - 1
    BY <1>0, <2>1, OneLess
  <2>3. room' = room + 1 /\ jobs' = jobs
    BY <1>3 DEF Give
  <2> QED BY <1>0, <2>1, <2>2, <2>3, Slots, Numbers
<1>4. CASE Run(t)
  <2>1. /\ UNCHANGED <<jobs, room, caller>> /\ thread[t] = "run" /\ thread'[t] = "wait"
        /\ \A u \in Threads : u # t => thread'[u] = thread[u]
        /\ \A y \in Jobs \cup Threads : y # t => hand'[y] = hand[y]
    BY <1>4, Zenon DEF Run, Types, sems
  <2>2. Pushing' = Pushing /\ Popped' = Popped /\ Dropping' = Dropping
    BY <2>1, Zenon DEF Pushing, Popped, Dropping
  <2> QED BY <2>1, <2>2, SameSlots, Zenon
<1>5. CASE FoundNone(t)
  <2>1. Pushing' = Pushing /\ Popped' = Popped /\ Dropping' = Dropping
    BY <1>5, Zenon DEF FoundNone, Types, Pushing, Popped, Dropping
  <2> QED BY <1>5, <2>1, SameSlots, Zenon DEF FoundNone, sems
<1>6. CASE Stop(t)
  <2>1. Pushing' = Pushing /\ Popped' = Popped /\ Dropping' = Dropping
    BY <1>6, Zenon DEF Stop, Types, Pushing, Popped, Dropping
  <2> QED BY <1>6, <2>1, SameSlots, Zenon DEF Stop, sems
<1>7. CASE Leave(t)
  <2>1. Pushing' = Pushing /\ Popped' = Popped /\ Dropping' = Dropping
    BY <1>7, Zenon DEF Leave, Types, Pushing, Popped, Dropping
  <2> QED BY <1>7, <2>1, SameSlots, Zenon DEF Leave, sems
<1>8. CASE LastOut(t)
  <2>1. Pushing' = Pushing /\ Popped' = Popped /\ Dropping' = Dropping
    BY <1>8, Zenon DEF LastOut, Types, HandsHeld, Pushing, Popped, Dropping
  <2> QED BY <1>8, <2>1, SameSlots, Zenon DEF LastOut, sems
<1>9. CASE ThreadDrains(t)
  <2>1. thread[t] = "drain" /\ UNCHANGED caller
    BY <1>9, Zenon DEF ThreadDrains
  <2>2. CASE Pop(t) /\ UNCHANGED <<room, answer, thread>>
    <3>1. /\ hand[t] = <<>> /\ hand'[t] # <<>>
          /\ \A y \in Jobs \cup Threads : y # t => hand'[y] = hand[y]
      BY <2>2, Pops, Zenon
    <3>2. /\ t \notin Popped /\ Popped' = Popped \cup {t}
          /\ Dropping' = Dropping /\ Pushing' = Pushing
      BY <2>1, <2>2, <3>1, Zenon DEF Pushing, Popped, Dropping
    <3>3. Cardinality(Popped') = Cardinality(Popped) + 1
      BY <1>0, <3>2, OneMore
    <3>4. room' = room /\ Len(jobs') = Len(jobs) - 1
      BY <2>2, Pops
    <3> QED BY <1>0, <3>2, <3>3, <3>4, Slots, Numbers
  <2>3. CASE Drop(t) /\ UNCHANGED <<jobs, thread>>
    <3>1. /\ hand[t] # <<>> /\ hand'[t] = <<>>
          /\ \A y \in Jobs \cup Threads : y # t => hand'[y] = hand[y]
      BY <2>3, Drops, Zenon
    <3>2. /\ t \in Popped /\ Popped' = Popped \ {t}
          /\ Dropping' = Dropping /\ Pushing' = Pushing
      BY <2>1, <2>3, <3>1, Zenon DEF Pushing, Popped, Dropping
    <3>3. Cardinality(Popped') = Cardinality(Popped) - 1
      BY <1>0, <3>2, OneLess
    <3>4. room' = room + 1 /\ Len(jobs') = Len(jobs)
      BY <2>3, Drops
    <3> QED BY <1>0, <3>2, <3>3, <3>4, Slots, Numbers
  <2>4. CASE /\ jobs = <<>> /\ hand[t] = <<>>
             /\ thread' = [thread EXCEPT ![t] = "gone"] /\ UNCHANGED <<jobs, room, answer, hand>>
    <3>1. Pushing' = Pushing /\ Popped' = Popped /\ Dropping' = Dropping
      BY <2>1, <2>4, Zenon DEF Types, Pushing, Popped, Dropping
    <3> QED BY <2>4, <3>1, SameSlots, Zenon
  <2> QED BY <1>9, <2>2, <2>3, <2>4, Zenon DEF ThreadDrains
<1> QED BY <1>1, <1>2, <1>3, <1>4, <1>5, <1>6, <1>7, <1>8, <1>9, Zenon DEF Serve

LEMMA CloseKeepsRoom ==
  ASSUME RoomExact, Close
  PROVE  RoomExact'
<1>1. Pushing' = Pushing /\ Popped' = Popped /\ Dropping' = Dropping
  BY Zenon DEF Close, BeginClose, WakeAll, Pushing, Popped, Dropping
<1> QED BY <1>1, SameSlots, Zenon DEF Close, BeginClose, WakeAll, sems

-----------------------------------------------------------------------------
(* The permits of the queued jobs, and the threads that serve. *)

\* While all threads are in their loop, nobody drains.
LEMMA NobodyDrains ==
  ASSUME Counted, Drains, Stays, closer # "closed" \/ Range(jobs) \cap early # {}
  PROVE  /\ \A t \in Threads : thread[t] # "drain"
         /\ \A j \in Jobs : caller[j] # "drain"
<1>1. InLoop = Threads /\ Threads # {}
  BY BlockingAssumption, Zenon DEF Stays
<1>2. Serving # {} /\ Serving \subseteq Threads
  BY <1>1, Zenon DEF InLoop, Serving
<1>3. Cardinality(Serving) # 0
  BY <1>2, BlockingAssumption, FS_Subset, FS_EmptySet
<1> QED BY <1>3, Zenon DEF Counted, Drains

LEMMA SpawnKeepsPermits ==
  ASSUME Types, Permits, Counted, Drains, Stays, NEW j \in Jobs, Spawn(j)
  PROVE  Permits'
<1>0. closer' = closer
  BY Zenon DEF Spawn, Ask, Acquire, Push, Signal, Look, CallerDrains
<1> SUFFICES ASSUME closer # "closed"
             PROVE  Len(jobs') = ready' + Cardinality(Popping') + Cardinality(Signalling')
  BY <1>0 DEF Permits
<1>1. /\ Len(jobs) = ready + Cardinality(Popping) + Cardinality(Signalling)
      /\ ready \in Nat /\ Len(jobs) \in Nat /\ caller[j] # "drain"
      /\ Signalling \subseteq Jobs /\ IsFiniteSet(Jobs)
  BY NobodyDrains, BlockingAssumption DEF Permits, Types, Signalling
<1>2. Popping' = Popping
  BY Zenon DEF Spawn, Ask, Acquire, Push, Signal, Look, CallerDrains, Popping
<1>3. CASE Ask(j) \/ Acquire(j) \/ Look(j)
  <2>1. Signalling' = Signalling /\ ready' = ready /\ jobs' = jobs
    BY <1>3, Zenon DEF Ask, Acquire, Look, Types, Signalling, sems
  <2> QED BY <1>1, <1>2, <2>1
<1>4. CASE Push(j)
  <2>1. j \notin Signalling /\ Signalling' = Signalling \cup {j}
    BY <1>4, Zenon DEF Push, Types, Signalling
  <2>2. Cardinality(Signalling') = Cardinality(Signalling) + 1
    BY <1>1, <2>1, OneMore
  <2>3. ready' = ready /\ Len(jobs') = Len(jobs) + 1
    BY <1>4 DEF Push, Types, sems
  <2> QED BY <1>1, <1>2, <2>2, <2>3, Numbers
<1>5. CASE Signal(j)
  <2>1. j \in Signalling /\ Signalling' = Signalling \ {j}
    BY <1>5, Zenon DEF Signal, Types, Signalling
  <2>2. Cardinality(Signalling') = Cardinality(Signalling) - 1
    BY <1>1, <2>1, OneLess
  <2>3. ready' = ready + 1 /\ jobs' = jobs
    BY <1>5 DEF Signal
  <2> QED BY <1>1, <1>2, <2>2, <2>3, Numbers
<1>6. CASE CallerDrains(j)
  BY <1>1, <1>6, Zenon DEF CallerDrains
<1> QED BY <1>3, <1>4, <1>5, <1>6, Zenon DEF Spawn

\* Until the permits of close are added, a thread that has a permit finds a job.
LEMMA PoppingFinds ==
  ASSUME Types, Permits, closer # "closed", NEW t \in Threads, thread[t] = "pop"
  PROVE  jobs # <<>>
<1>1. Popping # {} /\ Popping \subseteq Threads
  BY Zenon DEF Popping
<1>2. Cardinality(Popping) # 0
  BY <1>1, BlockingAssumption, FS_Subset, FS_EmptySet
<1>3. Len(jobs) # 0
  BY <1>2, Numbers DEF Permits, Types
<1> QED BY <1>3

LEMMA ServeKeepsPermits ==
  ASSUME Types, Permits, Counted, Drains, Stays, NEW t \in Threads, Serve(t)
  PROVE  Permits'
<1>0. closer' = closer
  BY Zenon DEF Serve, Wake, Take, Give, Run, FoundNone, Stop, Leave, LastOut, ThreadDrains
<1> SUFFICES ASSUME closer # "closed"
             PROVE  Len(jobs') = ready' + Cardinality(Popping') + Cardinality(Signalling')
  BY <1>0 DEF Permits
<1>1. /\ Len(jobs) = ready + Cardinality(Popping) + Cardinality(Signalling)
      /\ ready \in Nat /\ Len(jobs) \in Nat /\ thread[t] # "drain"
      /\ Popping \subseteq Threads /\ IsFiniteSet(Threads)
  BY NobodyDrains, BlockingAssumption DEF Permits, Types, Popping
<1>2. Signalling' = Signalling
  BY Zenon DEF Serve, Wake, Take, Give, Run, FoundNone, Stop, Leave, LastOut, ThreadDrains, Signalling
<1>3. CASE Wake(t)
  <2>1. t \notin Popping /\ Popping' = Popping \cup {t}
    BY <1>3, Zenon DEF Wake, Types, Popping
  <2>2. Cardinality(Popping') = Cardinality(Popping) + 1
    BY <1>1, <2>1, OneMore
  <2>3. ready' = ready - 1 /\ jobs' = jobs
    BY <1>3 DEF Wake
  <2> QED BY <1>1, <1>2, <2>2, <2>3, Numbers
<1>4. CASE Take(t)
  <2>1. t \in Popping /\ Popping' = Popping \ {t}
    BY <1>4, Zenon DEF Take, Types, Popping
  <2>2. Cardinality(Popping') = Cardinality(Popping) - 1
    BY <1>1, <2>1, OneLess
  <2>3. Pop(t) /\ ready' = ready
    BY <1>4, Zenon DEF Take, sems
  <2>4. Len(jobs') = Len(jobs) - 1
    BY <2>3, Pops, Zenon
  <2> QED BY <1>1, <1>2, <2>2, <2>3, <2>4, Numbers
<1>5. CASE Give(t) \/ Run(t) \/ Stop(t) \/ Leave(t) \/ LastOut(t)
  <2>1. Popping' = Popping /\ ready' = ready /\ jobs' = jobs
    BY <1>5, Zenon DEF Give, Run, Stop, Leave, LastOut, Types, Popping, sems
  <2> QED BY <1>1, <1>2, <2>1
<1>6. CASE FoundNone(t)
  BY <1>6, PoppingFinds, Zenon DEF FoundNone
<1>7. CASE ThreadDrains(t)
  BY <1>1, <1>7, Zenon DEF ThreadDrains
<1> QED BY <1>3, <1>4, <1>5, <1>6, <1>7, Zenon DEF Serve

LEMMA CloseKeepsPermits ==
  ASSUME Permits, Closing, Close
  PROVE  Permits'
<1>1. CASE BeginClose
  <2>1. Popping' = Popping /\ Signalling' = Signalling /\ ready' = ready /\ jobs' = jobs
    BY <1>1, Zenon DEF BeginClose, Popping, Signalling, sems
  <2>2. closer # "closed"
    BY <1>1 DEF BeginClose
  <2> QED BY <2>1, <2>2, Zenon DEF Permits
<1>2. CASE WakeAll
  BY <1>2 DEF WakeAll, Permits
<1> QED BY <1>1, <1>2, Zenon DEF Close

LEMMA CountKept ==
  ASSUME Types, Counted, Next
  PROVE  Counted'
<1>1. ASSUME live' = live, Serving' = Serving PROVE Counted'
  BY <1>1, Zenon DEF Counted
<1>2. ASSUME NEW j \in Jobs, Spawn(j) PROVE Counted'
  BY <1>1, <1>2, Zenon DEF Spawn, Ask, Acquire, Push, Signal, Look, CallerDrains, Serving
<1>3. ASSUME NEW t \in Threads, Serve(t) PROVE Counted'
  <2>1. CASE Leave(t)
    <3>1. t \in Serving /\ Serving' = Serving \ {t} /\ Serving \subseteq Threads
      BY <2>1, Zenon DEF Leave, Types, Serving
    <3>2. Cardinality(Serving') = Cardinality(Serving) - 1
      BY <3>1, OneLess, BlockingAssumption
    <3> QED BY <2>1, <3>2 DEF Leave, Counted
  <2>2. CASE Wake(t) \/ Take(t) \/ Give(t) \/ Run(t)
    BY <1>1, <2>2, Zenon DEF Wake, Take, Give, Run, Types, Serving
  <2>3. CASE FoundNone(t) \/ Stop(t) \/ LastOut(t)
    BY <1>1, <2>3, Zenon DEF FoundNone, Stop, LastOut, Types, Serving
  <2>4. CASE ThreadDrains(t)
    BY <1>1, <2>4, Zenon DEF ThreadDrains, Types, Serving
  <2> QED BY <1>3, <2>1, <2>2, <2>3, <2>4, Zenon DEF Serve
<1>4. CASE Close
  BY <1>1, <1>4, Zenon DEF Close, BeginClose, WakeAll, Serving
<1> QED BY <1>2, <1>3, <1>4, Zenon DEF Next

\* The count is what the threads left of it.
LEMMA LiveIsServed ==
  ASSUME Counted
  PROVE  live = 0 <=> Serving = {}
<1>1. Serving \subseteq Threads
  BY Zenon DEF Serving
<1>2. IsFiniteSet(Serving)
  BY <1>1, BlockingAssumption, FS_Subset
<1> QED BY <1>2, FS_EmptySet DEF Counted

LEMMA DrainsKept ==
  ASSUME Types, Counted, Drains, Next
  PROVE  Drains'
<1>1. ASSUME NEW j \in Jobs, Spawn(j) PROVE Drains'
  <2>1. live' = live /\ thread' = thread
    BY <1>1, Zenon DEF Spawn, Ask, Acquire, Push, Signal, Look, CallerDrains
  <2>2. CASE Ask(j) \/ Acquire(j) \/ Push(j) \/ Signal(j)
    BY <2>1, <2>2, Zenon DEF Ask, Acquire, Push, Signal, Types, Drains
  <2>3. CASE Look(j)
    BY <2>1, <2>3, Zenon DEF Look, Types, Drains
  <2>4. CASE CallerDrains(j)
    BY <2>1, <2>4, Zenon DEF CallerDrains, Drop, Types, Drains
  <2> QED BY <1>1, <2>2, <2>3, <2>4, Zenon DEF Spawn
<1>2. ASSUME NEW t \in Threads, Serve(t) PROVE Drains'
  <2>1. caller' = caller
    BY <1>2, Zenon DEF Serve, Wake, Take, Give, Run, FoundNone, Stop, Leave, LastOut, ThreadDrains
  <2>2. CASE Wake(t) \/ Take(t) \/ Give(t) \/ Run(t)
    BY <2>1, <2>2, Zenon DEF Wake, Take, Give, Run, Types, Drains
  <2>3. CASE FoundNone(t) \/ Stop(t) \/ LastOut(t)
    BY <2>1, <2>3, Zenon DEF FoundNone, Stop, LastOut, Types, Drains
  <2>4. CASE Leave(t)
    <3>1. t \in Serving
      BY <2>4, Zenon DEF Leave, Serving
    <3>2. live # 0
      BY <3>1, LiveIsServed, Zenon
    <3> QED BY <2>1, <2>4, <3>2, Zenon DEF Leave, Types, Drains
  <2>5. CASE ThreadDrains(t)
    BY <2>1, <2>5, Zenon DEF ThreadDrains, Types, Drains
  <2> QED BY <1>2, <2>2, <2>3, <2>4, <2>5, Zenon DEF Serve
<1>3. CASE Close
  BY <1>3, Zenon DEF Close, BeginClose, WakeAll, Drains
<1> QED BY <1>1, <1>2, <1>3, Zenon DEF Next

-----------------------------------------------------------------------------
(* The jobs that were queued when the pool closed. *)

\* The queue holds nothing after a step that it did not hold before, save the
\* job that was pushed.
LEMMA QueueAfter ==
  ASSUME Types
  PROVE  /\ \A j \in Jobs : Spawn(j) => \/ Push(j) /\ Range(jobs') = Range(jobs) \cup {j}
                                        \/ Range(jobs') \subseteq Range(jobs)
         /\ \A t \in Threads : Serve(t) => Range(jobs') \subseteq Range(jobs)
<1>1. ASSUME NEW j \in Jobs, Spawn(j)
      PROVE  \/ Push(j) /\ Range(jobs') = Range(jobs) \cup {j}
             \/ Range(jobs') \subseteq Range(jobs)
  <2>1. CASE Push(j)
    <3>1. jobs' = Append(jobs, j) /\ jobs \in Seq(Jobs)
      BY <2>1, Zenon DEF Push, Types
    <3> QED BY <2>1, <3>1, Appended
  <2>2. CASE ~Push(j)
    <3>1. jobs' = jobs \/ Pop(j)
      BY <1>1, <2>2, Zenon DEF Spawn, Ask, Acquire, Signal, Look, CallerDrains
    <3> QED BY <3>1, Pops, Zenon
  <2> QED BY <2>1, <2>2, Zenon
<1>2. ASSUME NEW t \in Threads, Serve(t) PROVE Range(jobs') \subseteq Range(jobs)
  <2>1. jobs' = jobs \/ Pop(t)
    BY <1>2, Zenon DEF Serve, Wake, Take, Give, Run, FoundNone, Stop, Leave, LastOut, ThreadDrains
  <2> QED BY <2>1, Pops, Zenon
<1> QED BY <1>1, <1>2, Zenon

LEMMA StaysKept ==
  ASSUME Types, Permits, Stays, PastPush, Next
  PROVE  Stays'
<1>1. ASSUME NEW j \in Jobs, Spawn(j) PROVE Stays'
  <2>1. UNCHANGED <<closer, early, thread>>
    BY <1>1, Zenon DEF Spawn, Ask, Acquire, Push, Signal, Look, CallerDrains
  <2>2. Push(j) => j \notin early
    BY Zenon DEF Push, PastPush
  <2>3. Range(jobs') \cap early \subseteq Range(jobs) \cap early
    BY <1>1, <2>2, QueueAfter, Zenon
  <2> QED BY <2>1, <2>3, Zenon DEF Stays, InLoop
<1>2. ASSUME NEW t \in Threads, Serve(t) PROVE Stays'
  <2>1. UNCHANGED <<closer, early>>
    BY <1>2, Zenon DEF Serve, Wake, Take, Give, Run, FoundNone, Stop, Leave, LastOut, ThreadDrains
  <2>2. Range(jobs') \subseteq Range(jobs)
    BY <1>2, QueueAfter, Zenon
  <2>3. CASE Wake(t) \/ Take(t) \/ Give(t) \/ Run(t)
    <3>1. /\ \A u \in Threads : u # t => thread'[u] = thread[u]
          /\ thread'[t] \in {"wait", "pop", "give", "run"}
      <4>1. CASE Wake(t) \/ Take(t)
        BY <4>1, Zenon DEF Wake, Take, Types
      <4>2. CASE Give(t) \/ Run(t)
        BY <4>2, Zenon DEF Give, Run, Types
      <4> QED BY <2>3, <4>1, <4>2, Zenon
    <3>2. InLoop = Threads => InLoop' = Threads
      BY <3>1, Zenon DEF InLoop
    <3> QED BY <2>1, <2>2, <3>2, Zenon DEF Stays
  <2>4. CASE FoundNone(t)
    <3>1. thread[t] = "pop" /\ jobs = <<>> /\ jobs' = jobs
      BY <2>4, Zenon DEF FoundNone
    <3>2. closer = "closed" /\ Range(jobs) = {}
      BY <3>1, PoppingFinds, InHand, Zenon
    <3> QED BY <2>1, <3>1, <3>2, Zenon DEF Stays
  <2>5. CASE Stop(t) \/ Leave(t) \/ LastOut(t) \/ ThreadDrains(t)
    <3>1. t \notin InLoop
      BY <2>5, Zenon DEF Stop, Leave, LastOut, ThreadDrains, InLoop
    <3> QED BY <2>1, <2>2, <3>1, Zenon DEF Stays
  <2> QED BY <1>2, <2>3, <2>4, <2>5, Zenon DEF Serve
<1>3. CASE Close
  BY <1>3, Zenon DEF Close, BeginClose, WakeAll, Stays, InLoop
<1> QED BY <1>1, <1>2, <1>3, Zenon DEF Next

LEMMA ClosingKept ==
  ASSUME Types, HandsHeld, Counted, Drains, Stays, Closing, Next
  PROVE  Closing'
<1>1. ASSUME UNCHANGED <<closing, closer, early>>, closer = "open" => UNCHANGED answer
      PROVE  Closing'
  BY <1>1, Zenon DEF Closing
<1>2. ASSUME NEW j \in Jobs, Spawn(j) PROVE Closing'
  <2>1. UNCHANGED <<closing, closer, early>>
    BY <1>2, Zenon DEF Spawn, Ask, Acquire, Push, Signal, Look, CallerDrains
  <2>2. closer = "open" => ~CallerDrains(j) /\ ~closing
    BY NobodyDrains, Zenon DEF CallerDrains, Closing
  <2>3. ~CallerDrains(j) /\ ~closing => UNCHANGED answer
    BY <1>2, Zenon DEF Spawn, Ask, Acquire, Push, Signal, Look
  <2> QED BY <1>1, <2>1, <2>2, <2>3, Zenon
<1>3. ASSUME NEW t \in Threads, Serve(t) PROVE Closing'
  <2>1. UNCHANGED <<closing, closer, early>>
    BY <1>3, Zenon DEF Serve, Wake, Take, Give, Run, FoundNone, Stop, Leave, LastOut, ThreadDrains
  <2>2. CASE Run(t)
    <3>1. answer' = [answer EXCEPT ![Head(hand[t])] = "done"]
      BY <2>2, Zenon DEF Run
    <3>2. \A j \in Jobs : answer[j] # "failed" => answer'[j] # "failed"
      BY <3>1, Zenon DEF Types
    <3> QED BY <2>1, <3>2, Zenon DEF Closing
  <2>3. CASE ~Run(t)
    <3>1. closer = "open" => ~ThreadDrains(t)
      BY NobodyDrains, Zenon DEF ThreadDrains
    <3>2. ~ThreadDrains(t) => UNCHANGED answer
      BY <1>3, <2>3, Zenon DEF Serve, Wake, Take, Give, FoundNone, Stop, Leave, LastOut
    <3> QED BY <1>1, <2>1, <3>1, <3>2, Zenon
  <2> QED BY <2>2, <2>3, Zenon
<1>4. CASE Close
  BY <1>4, Zenon DEF Close, BeginClose, WakeAll, Closing
<1> QED BY <1>2, <1>3, <1>4, Zenon DEF Next

LEMMA PastPushKept ==
  ASSUME Types, PastPush, Next
  PROVE  PastPush'
<1> DEFINE Past == {"ready", "look", "drain", "over"}
<1>1. ASSUME NEW j \in Jobs, Spawn(j) PROVE PastPush'
  <2>1. early' = early
    BY <1>1, Zenon DEF Spawn, Ask, Acquire, Push, Signal, Look, CallerDrains
  <2>2. \A k \in Jobs : k # j => caller'[k] = caller[k]
    BY <1>1, Zenon DEF Spawn, Ask, Acquire, Push, Signal, Look, CallerDrains, Drop, Types
  <2>3. caller[j] \in Past \/ Push(j) => caller'[j] \in Past
    BY <1>1, Zenon DEF Spawn, Ask, Acquire, Push, Signal, Look, CallerDrains, Drop, Types
  <2> QED BY <1>1, <2>1, <2>2, <2>3, QueueAfter, Zenon DEF PastPush
<1>2. ASSUME NEW t \in Threads, Serve(t) PROVE PastPush'
  <2>1. early' = early /\ caller' = caller
    BY <1>2, Zenon DEF Serve, Wake, Take, Give, Run, FoundNone, Stop, Leave, LastOut, ThreadDrains
  <2> QED BY <1>2, <2>1, QueueAfter, Zenon DEF PastPush
<1>3. CASE Close
  BY <1>3, Zenon DEF Close, BeginClose, WakeAll, PastPush
<1> QED BY <1>1, <1>2, <1>3, Zenon DEF Next

\* What a drainer pops was not queued when the pool closed: while such a job is
\* queued, no thread has left.
LEMMA PopsLate ==
  ASSUME Types, NEW x \in Jobs \cup Threads, Pop(x), Range(jobs) \cap early = {}
  PROVE  Range(hand'[x]) \cap early = {}
<1>1. Head(jobs) \in Range(jobs) /\ Range(hand'[x]) = {Head(jobs)}
  BY Pops, Zenon
<1> QED BY <1>1, Zenon

LEMMA DrainsLateKept ==
  ASSUME Types, HandsHeld, Counted, Drains, Stays, DrainsLate, Next
  PROVE  DrainsLate'
<1>0. Range(<<>>) = {}
  BY InHand, Zenon
<1>1. ASSUME NEW j \in Jobs, Spawn(j) PROVE DrainsLate'
  <2>1. /\ UNCHANGED <<thread, early>> /\ j \notin Threads
        /\ \A k \in Jobs : k # j => caller'[k] = caller[k]
    BY <1>1, BlockingAssumption, Zenon
       DEF Spawn, Ask, Acquire, Push, Signal, Look, CallerDrains, Drop, Types
  <2>2. /\ \A y \in Jobs \cup Threads : y # j => hand'[y] = hand[y]
        /\ caller'[j] = "drain" => Range(hand'[j]) \cap early = {}
    <3>1. CASE ~CallerDrains(j)
      <4>1. hand' = hand /\ caller[j] # "drain"
        BY <1>1, <3>1, Zenon DEF Spawn, Ask, Acquire, Push, Signal, Look
      <4> QED BY <1>0, <4>1, Zenon DEF HandsHeld
    <3>2. CASE CallerDrains(j)
      <4>1. caller[j] = "drain"
        BY <3>2, Zenon DEF CallerDrains
      <4>2. CASE Pop(j)
        <5>1. \A y \in Jobs \cup Threads : y # j => hand'[y] = hand[y]
          BY <4>2, Pops, Zenon
        <5>2. Range(jobs) \cap early = {}
          BY <4>1, NobodyDrains, Zenon
        <5>3. Range(hand'[j]) \cap early = {}
          BY <4>2, <5>2, PopsLate, Zenon
        <5> QED BY <5>1, <5>3, Zenon
      <4>3. CASE Drop(j)
        <5>1. hand'[j] = <<>> /\ \A y \in Jobs \cup Threads : y # j => hand'[y] = hand[y]
          BY <4>3, Drops, Zenon
        <5> QED BY <1>0, <5>1, Zenon
      <4>4. CASE hand' = hand
        BY <4>1, <4>4, Zenon DEF DrainsLate
      <4> QED BY <3>2, <4>2, <4>3, <4>4, Zenon DEF CallerDrains
    <3> QED BY <3>1, <3>2, Zenon
  <2>3. \A t \in Threads : hand'[t] = hand[t]
    BY <2>1, <2>2, Zenon
  <2> QED BY <2>1, <2>2, <2>3, Zenon DEF DrainsLate
<1>2. ASSUME NEW t \in Threads, Serve(t) PROVE DrainsLate'
  <2>1. /\ UNCHANGED <<caller, early>> /\ t \notin Jobs
        /\ \A u \in Threads : u # t => thread'[u] = thread[u]
    BY <1>2, BlockingAssumption, Zenon
       DEF Serve, Wake, Take, Give, Run, FoundNone, Stop, Leave, LastOut, ThreadDrains, Types
  <2>2. /\ \A y \in Jobs \cup Threads : y # t => hand'[y] = hand[y]
        /\ thread'[t] = "drain" => Range(hand'[t]) \cap early = {}
    <3>1. CASE Wake(t) \/ Give(t) \/ FoundNone(t) \/ Stop(t) \/ Leave(t)
      BY <3>1, Zenon DEF Wake, Give, FoundNone, Stop, Leave, Types
    <3>2. CASE LastOut(t)
      <4>1. hand' = hand /\ thread[t] = "last"
        BY <3>2, Zenon DEF LastOut
      <4> QED BY <1>0, <4>1, Zenon DEF HandsHeld
    <3>3. CASE Take(t)
      <4>1. Pop(t) /\ thread'[t] = "give"
        BY <3>3, Zenon DEF Take, Types
      <4> QED BY <4>1, Pops, Zenon
    <3>4. CASE Run(t)
      BY <3>4, Zenon DEF Run, Types
    <3>5. CASE ThreadDrains(t)
      <4>1. thread[t] = "drain"
        BY <3>5, Zenon DEF ThreadDrains
      <4>2. CASE Pop(t)
        <5>1. \A y \in Jobs \cup Threads : y # t => hand'[y] = hand[y]
          BY <4>2, Pops, Zenon
        <5>2. Range(jobs) \cap early = {}
          BY <4>1, NobodyDrains, Zenon
        <5>3. Range(hand'[t]) \cap early = {}
          BY <4>2, <5>2, PopsLate, Zenon
        <5> QED BY <5>1, <5>3, Zenon
      <4>3. CASE Drop(t)
        <5>1. hand'[t] = <<>> /\ \A y \in Jobs \cup Threads : y # t => hand'[y] = hand[y]
          BY <4>3, Drops, Zenon
        <5> QED BY <1>0, <5>1, Zenon
      <4>4. CASE hand' = hand
        BY <4>1, <4>4, Zenon DEF DrainsLate
      <4> QED BY <3>5, <4>2, <4>3, <4>4, Zenon DEF ThreadDrains
    <3> QED BY <1>2, <3>1, <3>2, <3>3, <3>4, <3>5, Zenon DEF Serve
  <2>3. \A j \in Jobs : hand'[j] = hand[j]
    BY <2>1, <2>2, Zenon
  <2> QED BY <2>1, <2>2, <2>3, Zenon DEF DrainsLate
<1>3. CASE BeginClose
  <2>1. /\ \A t \in Threads : thread[t] # "drain"
        /\ \A j \in Jobs : caller[j] # "drain"
    BY <1>3, NobodyDrains DEF BeginClose
  <2> QED BY <1>3, <2>1, Zenon DEF BeginClose, DrainsLate
<1>4. CASE WakeAll
  BY <1>4, Zenon DEF WakeAll, DrainsLate
<1> QED BY <1>1, <1>2, <1>3, <1>4, Zenon DEF Next, Close

LEMMA QueuedFinishKept ==
  ASSUME Types, HandsHeld, Closing, PastPush, DrainsLate, QueuedFinish, Next
  PROVE  QueuedFinish'
<1>1. ASSUME early' = early,
             \A j \in early : answer[j] # "failed" => answer'[j] # "failed"
      PROVE  QueuedFinish'
  BY <1>1, Zenon DEF QueuedFinish
<1>2. ASSUME NEW x \in Jobs \cup Threads, Drop(x), Range(hand[x]) \cap early = {}
      PROVE  \A j \in early : answer[j] # "failed" => answer'[j] # "failed"
  <2>1. /\ Range(hand[x]) = {Head(hand[x])}
        /\ answer' = [answer EXCEPT ![Head(hand[x])] = "failed"]
    BY <1>2, Drops, Zenon
  <2>2. Head(hand[x]) \notin early
    BY <1>2, <2>1, Zenon
  <2> QED BY <2>1, <2>2, Zenon DEF Types
<1>3. ASSUME NEW j \in Jobs, Spawn(j) PROVE QueuedFinish'
  <2>1. early' = early
    BY <1>3, Zenon DEF Spawn, Ask, Acquire, Push, Signal, Look, CallerDrains
  <2>2. CASE Ask(j)
    <3>1. j \notin early
      BY <2>2, Zenon DEF Ask, PastPush
    <3>2. \A k \in early : answer'[k] = answer[k]
      BY <2>2, <3>1, Zenon DEF Ask, Types
    <3> QED BY <1>1, <2>1, <3>2, Zenon
  <2>3. CASE CallerDrains(j)
    <3>1. Range(hand[j]) \cap early = {} /\ (Drop(j) \/ answer' = answer)
      BY <2>3, Zenon DEF CallerDrains, DrainsLate
    <3> QED BY <1>1, <1>2, <2>1, <3>1, Zenon
  <2>4. CASE ~Ask(j) /\ ~CallerDrains(j)
    <3>1. answer' = answer
      BY <1>3, <2>4, Zenon DEF Spawn, Acquire, Push, Signal, Look
    <3> QED BY <1>1, <2>1, <3>1, Zenon
  <2> QED BY <2>2, <2>3, <2>4, Zenon
<1>4. ASSUME NEW t \in Threads, Serve(t) PROVE QueuedFinish'
  <2>1. early' = early
    BY <1>4, Zenon DEF Serve, Wake, Take, Give, Run, FoundNone, Stop, Leave, LastOut, ThreadDrains
  <2>2. CASE Run(t)
    <3>1. answer' = [answer EXCEPT ![Head(hand[t])] = "done"]
      BY <2>2, Zenon DEF Run
    <3>2. \A j \in early : answer[j] # "failed" => answer'[j] # "failed"
      BY <3>1, Zenon DEF Types
    <3> QED BY <1>1, <2>1, <3>2, Zenon
  <2>3. CASE ThreadDrains(t)
    <3>1. Range(hand[t]) \cap early = {} /\ (Drop(t) \/ answer' = answer)
      BY <2>3, Zenon DEF ThreadDrains, DrainsLate
    <3> QED BY <1>1, <1>2, <2>1, <3>1, Zenon
  <2>4. CASE ~Run(t) /\ ~ThreadDrains(t)
    <3>1. answer' = answer
      BY <1>4, <2>4, Zenon DEF Serve, Wake, Take, Give, FoundNone, Stop, Leave, LastOut
    <3> QED BY <1>1, <2>1, <3>1, Zenon
  <2> QED BY <2>2, <2>3, <2>4, Zenon
<1>5. CASE BeginClose
  <2>1. early' = Range(jobs) /\ answer' = answer /\ closer = "open"
    BY <1>5, Zenon DEF BeginClose
  <2>2. Range(jobs) \subseteq Jobs
    BY DEF Types, Range
  <2> QED BY <2>1, <2>2, Zenon DEF Closing, QueuedFinish
<1>6. CASE WakeAll
  BY <1>6, Zenon DEF WakeAll, QueuedFinish
<1> QED BY <1>3, <1>4, <1>5, <1>6, Zenon DEF Next, Close

-----------------------------------------------------------------------------
(* The last thread and the last submitter. *)

LEMMA NoneStrandedKept ==
  ASSUME Types, Counted, NoneStranded, Next
  PROVE  NoneStranded'
<1> SUFFICES ASSUME \A t \in Threads : thread'[t] = "gone", jobs' # <<>>
             PROVE  \E j \in Jobs : caller'[j] \in {"ready", "look", "drain"}
  BY Zenon DEF NoneStranded
<1>1. ASSUME NEW j \in Jobs, Spawn(j)
      PROVE  \E k \in Jobs : caller'[k] \in {"ready", "look", "drain"}
  <2>1. thread' = thread
    BY <1>1, Zenon DEF Spawn, Ask, Acquire, Push, Signal, Look, CallerDrains
  <2>2. live = 0
    <3>1. Serving = {}
      BY <2>1, Zenon DEF Serving
    <3> QED BY <3>1, LiveIsServed, Zenon
  <2>3. CASE Ask(j) \/ Acquire(j)
    <3>1. /\ caller[j] \in {"new", "room"} /\ jobs' = jobs
          /\ \A k \in Jobs : k # j => caller'[k] = caller[k]
      BY <2>3, Zenon DEF Ask, Acquire, Types
    <3>2. PICK k \in Jobs : caller[k] \in {"ready", "look", "drain"}
      BY <2>1, <3>1, Zenon DEF NoneStranded
    <3> QED BY <3>1, <3>2, Zenon
  <2>4. CASE Push(j) \/ Signal(j) \/ Look(j)
    <3>1. caller'[j] \in {"ready", "look", "drain"}
      BY <2>2, <2>4, Zenon DEF Push, Signal, Look, Types
    <3> QED BY <3>1, Zenon
  <2>5. CASE CallerDrains(j)
    <3>1. caller'[j] = "drain"
      BY <2>5, Zenon DEF CallerDrains
    <3> QED BY <3>1, Zenon
  <2> QED BY <1>1, <2>3, <2>4, <2>5, Zenon DEF Spawn
<1>2. ASSUME NEW t \in Threads, Serve(t), \E u \in Threads : thread[u] # "gone"
      PROVE  FALSE
  <2>1. CASE LastOut(t)
    <3>1. live # 0 /\ thread[t] = "last" /\ \A u \in Threads : u # t => thread'[u] = thread[u]
      BY <2>1, Zenon DEF LastOut, Types
    <3>2. PICK u \in Threads : u \in Serving
      BY <3>1, LiveIsServed, Zenon DEF Serving
    <3>3. u # t /\ thread[u] # "gone"
      BY <3>1, <3>2, Zenon DEF Serving
    <3> QED BY <3>1, <3>3, Zenon
  <2>2. CASE ThreadDrains(t)
    <3>1. thread'[t] = "gone" /\ thread[t] = "drain"
      BY <2>2, Zenon DEF ThreadDrains
    <3> QED BY <2>2, <3>1, Zenon DEF ThreadDrains
  <2>3. CASE ~LastOut(t) /\ ~ThreadDrains(t)
    <3>1. thread'[t] # "gone"
      BY <1>2, <2>3, Zenon DEF Serve, Wake, Take, Give, Run, FoundNone, Stop, Leave, Types
    <3> QED BY <3>1, Zenon
  <2> QED BY <2>1, <2>2, <2>3, Zenon
<1>3. ASSUME NEW t \in Threads, Serve(t) PROVE \E u \in Threads : thread[u] # "gone"
  BY <1>3, Zenon DEF Serve, Wake, Take, Give, Run, FoundNone, Stop, Leave, LastOut, ThreadDrains
<1>4. CASE Close
  BY <1>4, Zenon DEF Close, BeginClose, WakeAll, NoneStranded
<1> QED BY <1>1, <1>2, <1>3, <1>4, Zenon DEF Next

-----------------------------------------------------------------------------
(* The theorems. *)

LEMMA Start ==
  ASSUME Init
  PROVE  IInv
<1>1. /\ jobs = <<>> /\ room = Queue /\ ready = 0 /\ live = Cardinality(Threads)
      /\ closing = FALSE /\ closer = "open" /\ early = {}
      /\ caller = [j \in Jobs |-> "new"] /\ thread = [t \in Threads |-> "wait"]
      /\ hand = [x \in Jobs \cup Threads |-> <<>>] /\ answer = [j \in Jobs |-> "none"]
  BY Zenon DEF Init
<1>2. Types
  <2>1. Cardinality(Threads) \in Int /\ Queue \in Nat /\ 0 \in Nat /\ <<>> \in Seq(Jobs)
    BY BlockingAssumption, FS_CardinalityType
  <2>2. <<>> \in Hands
    BY InHand, Zenon
  <2>3. /\ caller \in [Jobs -> CallerSteps] /\ thread \in [Threads -> ThreadSteps]
        /\ hand \in [Jobs \cup Threads -> Hands]
        /\ answer \in [Jobs -> {"none", "done", "failed"}]
    BY <1>1, <2>2, Zenon DEF CallerSteps, ThreadSteps
  <2>4. /\ jobs \in Seq(Jobs) /\ room \in Nat /\ ready \in Nat /\ live \in Int /\ closing \in BOOLEAN
        /\ closer \in {"open", "add", "closed"} /\ early \subseteq Jobs
    BY <1>1, <2>1, Zenon
  <2> QED BY <2>3, <2>4, Zenon DEF Types
<1>3. /\ Pushing = {} /\ Popped = {} /\ Dropping = {} /\ Popping = {} /\ Signalling = {}
      /\ InLoop = Threads /\ Serving = Threads
  BY <1>1, Zenon DEF Pushing, Popped, Dropping, Popping, Signalling, InLoop, Serving
<1>4. Cardinality({}) = 0 /\ Len(jobs) = 0 /\ Range(jobs) = {}
  BY <1>1, FS_EmptySet, InHand
<1>5. RoomExact
  BY <1>1, <1>3, <1>4, Slots, BlockingAssumption
<1>6. Permits /\ Counted /\ Stays
  BY <1>1, <1>3, <1>4 DEF Permits, Counted, Stays
<1>7. HandsHeld /\ Drains /\ Closing /\ PastPush /\ DrainsLate
  BY <1>1, <1>4, Zenon DEF HandsHeld, Drains, Closing, PastPush, DrainsLate
<1>8. QueuedFinish /\ NoneStranded
  BY <1>1, Zenon DEF QueuedFinish, NoneStranded
<1> QED BY <1>2, <1>5, <1>6, <1>7, <1>8, Zenon DEF IInv

LEMMA Step ==
  ASSUME IInv, Next
  PROVE  IInv'
<1>1. /\ Types /\ HandsHeld /\ RoomExact /\ Permits /\ Counted /\ Drains
      /\ Stays /\ Closing /\ PastPush /\ DrainsLate /\ QueuedFinish /\ NoneStranded
  BY Zenon DEF IInv
<1>2. Types' /\ RoomExact' /\ Permits'
  <2>1. ASSUME NEW j \in Jobs, Spawn(j) PROVE Types' /\ RoomExact' /\ Permits'
    BY <1>1, <2>1, SpawnTypes, SpawnKeepsRoom, SpawnKeepsPermits, Zenon
  <2>2. ASSUME NEW t \in Threads, Serve(t) PROVE Types' /\ RoomExact' /\ Permits'
    BY <1>1, <2>2, ServeTypes, ServeKeepsRoom, ServeKeepsPermits, Zenon
  <2>3. CASE Close
    BY <1>1, <2>3, CloseTypes, CloseKeepsRoom, CloseKeepsPermits, Zenon
  <2> QED BY <2>1, <2>2, <2>3, Zenon DEF Next
<1>3. HandsHeld' /\ Counted' /\ Drains' /\ Stays' /\ Closing'
  BY <1>1, HandsKept, CountKept, DrainsKept, StaysKept, ClosingKept, Zenon
<1>4. PastPush' /\ DrainsLate' /\ QueuedFinish' /\ NoneStranded'
  BY <1>1, PastPushKept, DrainsLateKept, QueuedFinishKept, NoneStrandedKept, Zenon
<1> QED BY <1>2, <1>3, <1>4, Zenon DEF IInv

\* The inductive invariant holds of every pool: the slots of the queue and the
\* permits of its jobs are accounted for, live counts the threads that serve, and
\* no thread leaves while a job is queued that was there when the pool closed.
THEOREM PoolInvariant == Spec => []IInv
<1>1. Init => IInv
  BY Start
<1>2. IInv /\ [Next]_vars => IInv'
  <2>1. ASSUME IInv, UNCHANGED vars PROVE IInv'
    <3>1. UNCHANGED <<jobs, room, ready, closing, live, caller, thread, hand, answer, closer, early>>
      BY <2>1, Zenon DEF vars, sems
    <3>2. Types' /\ HandsHeld' /\ RoomExact'
      BY <2>1, <3>1, Zenon DEF IInv, Types, HandsHeld, RoomExact
    <3>3. Permits' /\ Counted' /\ Drains' /\ Stays'
      BY <2>1, <3>1, Zenon
         DEF IInv, Permits, Counted, Drains, Stays, InLoop, Serving, Popping, Signalling
    <3>4. Closing' /\ PastPush' /\ DrainsLate' /\ QueuedFinish' /\ NoneStranded'
      BY <2>1, <3>1, Zenon DEF IInv, Closing, PastPush, DrainsLate, QueuedFinish, NoneStranded
    <3> QED BY <3>2, <3>3, <3>4, Zenon DEF IInv
  <2> QED BY <2>1, Step, Zenon
<1> QED BY <1>1, <1>2, PTL DEF Spec

\* Every variable keeps its type; the queue never holds more jobs than its length,
\* the slots never more permits than that, and live never passes the threads.
THEOREM PoolTypes == Spec => []TypeOK
<1>1. IInv => TypeOK
  <2> SUFFICES ASSUME IInv PROVE TypeOK
    OBVIOUS
  <2>1. Types /\ RoomExact /\ Counted
    BY Zenon DEF IInv
  <2>2. room \in 0 .. Queue /\ Len(jobs) <= Queue
    BY <2>1, Slots, Numbers, BlockingAssumption DEF Types
  <2>3. live \in 0 .. Cardinality(Threads)
    <3>1. Serving \subseteq Threads
      BY Zenon DEF Serving
    <3>2. Cardinality(Serving) <= Cardinality(Threads) /\ Cardinality(Threads) \in Nat
      BY <3>1, BlockingAssumption, FS_Subset, FS_CardinalityType
    <3> QED BY <2>1, <3>2, Numbers DEF Counted
  <2> QED BY <2>1, <2>2, <2>3 DEF Types, TypeOK
<1> QED BY <1>1, PoolInvariant, PTL

\* A slot of the queue is free, filled, or held by one that pushes or has popped:
\* so spawn, which pushes only with a slot, always finds a place (the queue's push
\* is taken to succeed).
THEOREM PoolHasRoom == Spec => [](RoomExact /\ \A j \in Jobs : caller[j] = "push" => Len(jobs) < Queue)
<1>1. IInv => RoomExact /\ \A j \in Jobs : caller[j] = "push" => Len(jobs) < Queue
  <2> SUFFICES ASSUME IInv, NEW j \in Jobs, caller[j] = "push" PROVE Len(jobs) < Queue
    BY DEF IInv
  <2>1. Types /\ RoomExact
    BY Zenon DEF IInv
  <2>2. Pushing \subseteq Jobs /\ Pushing # {}
    BY Zenon DEF Pushing
  <2>3. Cardinality(Pushing) # 0
    BY <2>2, BlockingAssumption, FS_Subset, FS_EmptySet
  <2> QED BY <2>1, <2>3, Slots, Numbers, BlockingAssumption DEF Types
<1> QED BY <1>1, PoolInvariant, PTL

\* Closing a pool lets its threads finish the jobs that were queued: none of them
\* is answered with a failure.
THEOREM PoolFinishesQueued == Spec => []QueuedFinish
<1>1. IInv => QueuedFinish
  BY Zenon DEF IInv
<1> QED BY <1>1, PoolInvariant, PTL

\* No job waits in a queue that every thread has left, without a caller that will
\* still look whether it has to fail it.
THEOREM PoolStrandsNone == Spec => []NoneStranded
<1>1. IInv => NoneStranded
  BY Zenon DEF IInv
<1> QED BY <1>1, PoolInvariant, PTL
=============================================================================
