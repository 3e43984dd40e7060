-------------------------- MODULE HeadPublishProofs --------------------------
(***************************************************************************)
(* What head_set.rs's documentation claims of its functions, for every set  *)
(* of priorities: composition is exact and associative, one spelling per    *)
(* function is kept, and no composition of entries is the identity.  On     *)
(* them, HeadsAreTips and AppliedOnce for every DAG, every number of        *)
(* concurrent transactions and every assignment of parts, for documents and *)
(* for collections.                                                         *)
(***************************************************************************)
EXTENDS HeadPublish, TLAPS

-----------------------------------------------------------------------------
(* The functions on a name's state. *)

(* Func::apply answers a state. *)
LEMMA ApplyType ==
    ASSUME NEW f \in Func, NEW s \in State
    PROVE  Apply(f, s) \in State
BY Zenon DEF Apply, Resolve, Func, Image, Keep, State, Live, Absent, Ahead

(* Func::then answers a function in canonical spelling. *)
LEMMA ThenType ==
    ASSUME NEW f \in Func, NEW g \in Func
    PROVE  Then(f, g) \in Func /\ Canonical(Then(f, g)) = Then(f, g)
<1>1. \A i \in Image : i # Keep => i \in State
  BY DEF Image
<1>2. \A i \in Image : i # Keep => Apply(g, i) \in State
  BY <1>1, ApplyType
<1>3. Absent \in Image /\ Ahead \in Image /\ Keep \in Image /\ State \subseteq Image
  BY DEF Image, State
<1>4. Absent # Keep /\ Ahead # Keep
  BY DEF Absent, Ahead, Keep
<1> QED BY <1>1, <1>2, <1>3, <1>4 DEF Then, Canonical, Func

(* Func::then is exact: applying the composition is applying f, then g, so   *)
(* folding operands changes no read.                                         *)
THEOREM ThenIsComposition ==
    ASSUME NEW f \in Func, NEW g \in Func, NEW s \in State
    PROVE  Apply(Then(f, g), s) = Apply(g, Apply(f, s))
<1>1. Absent # Ahead /\ Absent # Keep /\ Ahead # Keep
  BY DEF Absent, Ahead, Keep
<1>2. \A p \in Priorities : Live(p) # Absent /\ Live(p) # Ahead /\ Live(p) # Keep
  BY DEF Live, Absent, Ahead, Keep
<1>3. \A i \in Image : i # Keep => i \in State
  BY Zenon DEF Image
<1>4. CASE s = Absent
  BY <1>1, <1>2, <1>3, <1>4, ApplyType, Zenon DEF Then, Canonical, Apply, Resolve, Func
<1>5. CASE s = Ahead
  BY <1>1, <1>2, <1>3, <1>5, ApplyType, Zenon DEF Then, Canonical, Apply, Resolve, Func
<1>6. CASE s # Absent /\ s # Ahead
  BY <1>1, <1>2, <1>3, <1>6, ApplyType, Zenon DEF Then, Canonical, Apply, Resolve, Func
<1> QED BY <1>4, <1>5, <1>6

(* What a writer's entries for a name compose to: a live state is sent to a  *)
(* fixed one, or an absent one becomes live.                                 *)
Composed == {f \in Func : f.live # Keep \/ IsLive(f.absent)}

(* One entry is such a function. *)
LEMMA EntryComposed == Entry \subseteq Composed
<1>1. {Absent, Ahead, Keep} \subseteq Image /\ \A p \in Priorities : Live(p) \in Image
  BY DEF Image, State
<1>2. Absent # Keep /\ \A p \in Priorities : IsLive(Live(p))
  BY DEF Absent, Keep, Live, IsLive
<1>3. SUPERSEDE \in Composed /\ SUPERSEDE_AHEAD \in Composed
  BY <1>1, <1>2 DEF SUPERSEDE, SUPERSEDE_AHEAD, Composed, Func
<1>4. \A p \in Priorities : AddAt(p) \in Composed
  BY <1>1, <1>2, Zenon DEF AddAt, Composed, Func
<1> QED BY <1>3, <1>4 DEF Entry

(* Write::then, and fold of two operands that hold the name, stay in it. *)
LEMMA ThenComposed ==
    ASSUME NEW f \in Composed, NEW g \in Composed
    PROVE  Then(f, g) \in Composed
<1>1. f \in Func /\ g \in Func /\ Then(f, g) \in Func
  BY ThenType DEF Composed
<1>2. \A i \in Image : i # Keep => Apply(g, i) \in State
  BY <1>1, ApplyType DEF Image
<1>3. Keep \notin State
  BY Zenon DEF State, Keep, Absent, Ahead, Live
<1>4. CASE f.live # Keep \/ g.live # Keep
  <2>1. Then(f, g).live # Keep
    BY <1>1, <1>2, <1>3, <1>4 DEF Then, Canonical, Func
  <2> QED BY <1>1, <2>1 DEF Composed
<1>5. CASE f.live = Keep /\ g.live = Keep
  <2>1. IsLive(f.absent) /\ f.absent # Keep /\ f.absent # Absent /\ f.absent # Ahead
    BY <1>5 DEF Composed, IsLive, Keep, Absent, Ahead
  <2>2. Apply(g, f.absent) = f.absent
    BY <2>1, <1>5, Zenon DEF Apply, Resolve
  <2>3. Then(f, g).absent = f.absent
    BY <2>1, <2>2 DEF Then, Canonical
  <2> QED BY <1>1, <2>1, <2>3 DEF Composed
<1> QED BY <1>4, <1>5

(* head_set.rs: "no composition of these entries is the identity", so a      *)
(* write, and a fold, hold every name they were given an entry for.          *)
THEOREM NeverIdentity == IDENTITY \notin Composed
BY Zenon DEF IDENTITY, Composed, IsLive, Keep

(* The images of a composition, one by one. *)
LEMMA ThenImages ==
    ASSUME NEW f \in Func, NEW g \in Func
    PROVE  /\ Then(f, g).live = IF f.live = Keep THEN g.live ELSE Apply(g, f.live)
           /\ LET i == IF f.absent = Keep THEN g.absent ELSE Apply(g, f.absent)
              IN  Then(f, g).absent = IF i = Absent THEN Keep ELSE i
           /\ LET i == IF f.ahead = Keep THEN g.ahead ELSE Apply(g, f.ahead)
              IN  Then(f, g).ahead = IF i = Ahead THEN Keep ELSE i
BY Zenon DEF Then, Canonical

(* Func::then is associative: any grouping of a run folds to one operand.    *)
THEOREM ThenAssociative ==
    ASSUME NEW f \in Func, NEW g \in Func, NEW h \in Func
    PROVE  Then(Then(f, g), h) = Then(f, Then(g, h))
<1> DEFINE fg == Then(f, g)
           gh == Then(g, h)
<1>1. fg \in Func /\ gh \in Func /\ Keep \notin State /\ Absent # Ahead
  BY ThenType, Zenon DEF State, Keep, Absent, Ahead, Live
<1>2. \A i \in Image : i # Keep => /\ Apply(gh, i) = Apply(h, Apply(g, i))
                                  /\ Apply(g, i) \in State
  BY ThenIsComposition, ApplyType DEF Image
<1>4. /\ Apply(h, Absent) = IF h.absent = Keep THEN Absent ELSE h.absent
      /\ Apply(h, Ahead) = IF h.ahead = Keep THEN Ahead ELSE h.ahead
  BY <1>1 DEF Apply, Resolve
<1>5. f.absent \in Image /\ f.ahead \in Image /\ f.live \in Image
  BY DEF Func
<1>6. Then(fg, h).live = Then(f, gh).live
  <2>1. Then(fg, h).live = IF fg.live = Keep THEN h.live ELSE Apply(h, fg.live)
    BY <1>1, ThenImages
  <2>2. Then(f, gh).live = IF f.live = Keep THEN gh.live ELSE Apply(gh, f.live)
    BY <1>1, ThenImages
  <2>3. fg.live = IF f.live = Keep THEN g.live ELSE Apply(g, f.live)
    BY ThenImages
  <2>4. gh.live = IF g.live = Keep THEN h.live ELSE Apply(h, g.live)
    BY ThenImages
  <2> HIDE DEF fg, gh
  <2> QED BY <2>1, <2>2, <2>3, <2>4, <1>1, <1>2, <1>5
<1>7. Then(fg, h).absent = Then(f, gh).absent
  <2> DEFINE canon(i) == IF i = Absent THEN Keep ELSE i
  <2>1. Then(fg, h).absent = canon(IF fg.absent = Keep THEN h.absent ELSE Apply(h, fg.absent))
    BY <1>1, ThenImages, Zenon
  <2>2. Then(f, gh).absent = canon(IF f.absent = Keep THEN gh.absent ELSE Apply(gh, f.absent))
    BY <1>1, ThenImages, Zenon
  <2>3. fg.absent = canon(IF f.absent = Keep THEN g.absent ELSE Apply(g, f.absent))
    BY ThenImages, Zenon
  <2>4. gh.absent = canon(IF g.absent = Keep THEN h.absent ELSE Apply(h, g.absent))
    BY ThenImages, Zenon
  <2> HIDE DEF fg, gh
  <2> QED BY <2>1, <2>2, <2>3, <2>4, <1>1, <1>2, <1>4, <1>5
<1>8. Then(fg, h).ahead = Then(f, gh).ahead
  <2> DEFINE canon(i) == IF i = Ahead THEN Keep ELSE i
  <2>1. Then(fg, h).ahead = canon(IF fg.ahead = Keep THEN h.ahead ELSE Apply(h, fg.ahead))
    BY <1>1, ThenImages, Zenon
  <2>2. Then(f, gh).ahead = canon(IF f.ahead = Keep THEN gh.ahead ELSE Apply(gh, f.ahead))
    BY <1>1, ThenImages, Zenon
  <2>3. fg.ahead = canon(IF f.ahead = Keep THEN g.ahead ELSE Apply(g, f.ahead))
    BY ThenImages, Zenon
  <2>4. gh.ahead = canon(IF g.ahead = Keep THEN h.ahead ELSE Apply(h, g.ahead))
    BY ThenImages
  <2> HIDE DEF fg, gh
  <2> QED BY <2>1, <2>2, <2>3, <2>4, <1>1, <1>2, <1>4, <1>5, Zenon
<1>9. Then(fg, h) \in Func /\ Then(f, gh) \in Func
  BY <1>1, ThenType, Zenon
<1> QED BY <1>6, <1>7, <1>8, <1>9 DEF Func

-----------------------------------------------------------------------------
(* Publication. *)

SeenPublished(w) == {b \in Blocks : seen[w][b] = "published"}

Kid(w, n) == \E c \in done[w] : n \in parents[c]

(* What a transaction's operand does to each name, as far as the name can be *)
(* in that state when the transaction commits.                               *)
Effect(w, n) ==
    LET f == write[w][n]
    IN  /\ n \in done[w] /\ Kid(w, n) =>
               Apply(f, Absent) = Absent /\ Apply(f, Ahead) = Absent
        /\ n \in done[w] /\ ~Kid(w, n) =>
               Apply(f, Absent) = Live(1) /\ Apply(f, Ahead) = Absent
        /\ n \notin done[w] /\ Kid(w, n) /\ n \in SeenPublished(w) =>
               Apply(f, Absent) = Absent /\ Apply(f, Live(1)) = Absent
        /\ n \notin done[w] /\ Kid(w, n) /\ n \notin SeenPublished(w) =>
               Apply(f, Absent) = Ahead /\ Apply(f, Ahead) = Ahead
        /\ n \notin done[w] /\ ~Kid(w, n) => f = IDENTITY

(* A snapshot is a committed state, and commits only add to it. *)
SnapshotInv(w) ==
    /\ seenHeads[w] = [n \in Blocks |-> Tip(SeenPublished(w), n)]
    /\ SeenPublished(w) \subseteq Published
    /\ \A b \in Blocks : seen[w][b] # "none" => entry[b] # "none"
    /\ open[w] => Published \ SeenPublished(w) \subseteq touched[w]

(* What a transaction will be validated on covers what it decided on. *)
ValidatedInv(w) ==
    /\ done[w] \cap SeenPublished(w) = {}
    /\ \A b \in done[w] :
          \/ b \in read[w]
          \/ b \in Local /\ entry[b] = "none" /\ seen[w][b] = "none"
    /\ \A b \in done[w] \cap Local :
          entry[b] = "none" /\ \A v \in Writers : b \in done[v] => v = w
    /\ \A n \in Blocks \ (done[w] \cup SeenPublished(w)) :
          Kid(w, n) => n \in IF Collection THEN read[w] ELSE held[w]
    /\ \A b \in ops[w] :
          /\ seen[w][b] = "none"
          /\ b \in Remote \cap read[w] \/ b \in Local \cap done[w]
    /\ \A b \in done[w] \cap Ops : b \in ops[w] \/ (b \in read[w] /\ seen[w][b] = "applied")

(* Only local blocks choose their parents. *)
ParentsInv == \A b \in Remote : parents[b] = RemoteParents[b]

(* The part of the invariant about one transaction. *)
TxnInv(w) ==
    /\ SnapshotInv(w)
    /\ ValidatedInv(w)
    /\ \A n \in Blocks : Effect(w, n)
    /\ ~open[w] => done[w] = {} /\ ops[w] = {}

IInv ==
    /\ TypeOK
    /\ ParentsInv
    /\ HeadsAreTips
    /\ AppliedOnce
    /\ \A w \in Writers : TxnInv(w)

(* What the invariant says of one transaction, part by part. *)
LEMMA Parts ==
    ASSUME IInv, NEW w \in Writers
    PROVE  /\ TypeOK
           /\ SnapshotInv(w)
           /\ ValidatedInv(w)
           /\ \A n \in Blocks : Effect(w, n)
           /\ ~open[w] => done[w] = {} /\ ops[w] = {}
BY Zenon DEF IInv, TxnInv

-----------------------------------------------------------------------------
(* The states a head set's names take, apart. *)
LEMMA States ==
    /\ {Absent, Ahead, Live(1)} \subseteq State
    /\ Absent # Ahead /\ Absent # Live(1) /\ Ahead # Live(1)
    /\ IsLive(Live(1)) /\ ~IsLive(Absent) /\ ~IsLive(Ahead)
BY PublishAssumption, Zenon DEF State, Absent, Ahead, Live, IsLive

(* The table of head_set.rs: what each entry does to each state. *)
LEMMA Table ==
    /\ {IDENTITY, SUPERSEDE, SUPERSEDE_AHEAD, AddAt(1)} \subseteq Func
    /\ Apply(AddAt(1), Absent) = Live(1)
    /\ Apply(AddAt(1), Ahead) = Absent
    /\ Apply(SUPERSEDE, Absent) = Absent
    /\ Apply(SUPERSEDE, Ahead) = Ahead
    /\ Apply(SUPERSEDE, Live(1)) = Absent
    /\ Apply(SUPERSEDE_AHEAD, Absent) = Ahead
    /\ Apply(SUPERSEDE_AHEAD, Ahead) = Ahead
    /\ \A s \in State : Apply(IDENTITY, s) = s
<1>1. {Absent, Ahead, Keep, Live(1)} \subseteq Image
  BY States DEF Image
<1>2. Absent # Keep /\ Ahead # Keep /\ Live(1) # Keep
  BY DEF Absent, Ahead, Keep, Live
<1>3. {IDENTITY, SUPERSEDE, SUPERSEDE_AHEAD, AddAt(1)} \subseteq Func
  BY <1>1 DEF IDENTITY, SUPERSEDE, SUPERSEDE_AHEAD, AddAt, Func
<1> QED BY <1>2, <1>3, States DEF Apply, Resolve, IDENTITY, SUPERSEDE, SUPERSEDE_AHEAD, AddAt

(* The names that are live are the published ones without a published child. *)
LEMMA TipLive ==
    ASSUME NEW P, NEW n
    PROVE  /\ Tip(P, n) \in State
           /\ IsLive(Tip(P, n)) => n \in P
BY States, Zenon DEF Tip

(* Merging a transaction's operand onto the tips of P, a set of publications *)
(* made since its snapshot and consistent with what it validates, gives the  *)
(* tips of P and its own publications.                                       *)
LEMMA MergeTip ==
    ASSUME NEW w \in Writers, NEW n \in Blocks, NEW P,
           Effect(w, n),
           P \cap done[w] = {},
           SeenPublished(w) \subseteq P,
           n \notin done[w] \cup SeenPublished(w) /\ Kid(w, n) => n \notin P
    PROVE  Apply(write[w][n], Tip(P, n)) = Tip(P \cup done[w], n)
<1>1. (\E c \in P \cup done[w] : n \in parents[c])
          <=> (\E c \in P : n \in parents[c]) \/ Kid(w, n)
  BY Zenon DEF Kid
<1>2. CASE n \in done[w]
  BY <1>1, <1>2, States, Zenon DEF Effect, Tip
<1>3. CASE n \notin done[w] /\ Kid(w, n)
  BY <1>1, <1>3, States, Zenon DEF Effect, Tip
<1>4. CASE n \notin done[w] /\ ~Kid(w, n)
  BY <1>1, <1>4, States, Table, TipLive, Zenon DEF Effect, Tip
<1> QED BY <1>2, <1>3, <1>4, Zenon

(* What a transaction reads of the set: the tips of what it saw and did. *)
LEMMA View ==
    ASSUME IInv, NEW w \in Writers, NEW n \in Blocks
    PROVE  HeadOf(w, n) = Tip(SeenPublished(w) \cup done[w], n)
<1>e. \A m \in Blocks : Effect(w, m)
  BY Parts
<1>s. SnapshotInv(w)
  BY Parts
<1>v. ValidatedInv(w)
  BY Parts, Zenon
<1>1. Apply(write[w][n], Tip(SeenPublished(w), n)) = Tip(SeenPublished(w) \cup done[w], n)
  BY <1>e, <1>v, MergeTip DEF ValidatedInv
<1>2. seenHeads[w][n] = Tip(SeenPublished(w), n)
  BY <1>s, Zenon DEF SnapshotInv
<1> QED BY <1>1, <1>2, Zenon DEF HeadOf

-----------------------------------------------------------------------------
(* A step that leaves transaction v alone. *)
Untouched(v) ==
    /\ open'[v] = open[v]
    /\ seen'[v] = seen[v]
    /\ seenHeads'[v] = seenHeads[v]
    /\ write'[v] = write[v]
    /\ done'[v] = done[v]
    /\ ops'[v] = ops[v]
    /\ read'[v] = read[v]
    /\ held'[v] = held[v]

(* A step of another transaction, or of the store, keeps v's part: entries   *)
(* only advance, what v names keeps its parents, and v's own blocks stay its *)
(* own.                                                                      *)
LEMMA OthersKept ==
    ASSUME TypeOK, NEW v \in Writers, TxnInv(v), Untouched(v),
           \A c \in done[v] \cup SeenPublished(v) : parents'[c] = parents[c],
           \A b \in Blocks : entry[b] # "none" => entry'[b] # "none",
           Published \subseteq Published',
           open[v] => Published' \ SeenPublished(v) \subseteq touched'[v],
           \A b \in done[v] \cap Local :
              entry'[b] = "none" /\ \A u \in Writers : b \in done'[u] => u = v
    PROVE  TxnInv(v)'
<1>1. SeenPublished(v)' = SeenPublished(v)
  BY Zenon DEF Untouched, SeenPublished
<1>2. \A n \in Blocks : Kid(v, n)' <=> Kid(v, n)
  BY Zenon DEF Untouched, Kid
<1>3. \A n \in Blocks : Tip(SeenPublished(v), n)' = Tip(SeenPublished(v), n)
  BY <1>1, Zenon DEF Tip
<1>4. SnapshotInv(v)'
  BY <1>1, <1>3, Zenon DEF TxnInv, SnapshotInv, Untouched
<1>5. ValidatedInv(v)'
  <2>1. ValidatedInv(v) /\ done[v] \subseteq Blocks
    BY Zenon DEF TxnInv, TypeOK
  <2>2. /\ done'[v] = done[v] /\ seen'[v] = seen[v] /\ ops'[v] = ops[v]
        /\ read'[v] = read[v] /\ held'[v] = held[v]
    BY Zenon DEF Untouched
  <2>3. \A b \in done'[v] : \/ b \in read'[v]
                            \/ b \in Local /\ entry'[b] = "none" /\ seen'[v][b] = "none"
    BY <2>1, <2>2, Zenon DEF ValidatedInv
  <2>4. \A n \in Blocks \ (done'[v] \cup SeenPublished(v)') :
            Kid(v, n)' => n \in IF Collection THEN read'[v] ELSE held'[v]
    BY <1>1, <1>2, <2>1, <2>2, Zenon DEF ValidatedInv
  <2>5. done'[v] \cap SeenPublished(v)' = {}
    BY <1>1, <2>1, <2>2, Zenon DEF ValidatedInv
  <2>6. /\ \A b \in ops'[v] : /\ seen'[v][b] = "none"
                              /\ b \in Remote \cap read'[v] \/ b \in Local \cap done'[v]
        /\ \A b \in done'[v] \cap Ops :
              b \in ops'[v] \/ (b \in read'[v] /\ seen'[v][b] = "applied")
    BY <2>1, <2>2, Zenon DEF ValidatedInv
  <2> QED BY <2>2, <2>3, <2>4, <2>5, <2>6, Zenon DEF ValidatedInv
<1>6. \A n \in Blocks : Effect(v, n)'
  <2> SUFFICES ASSUME NEW n \in Blocks PROVE Effect(v, n)'
    BY Zenon
  <2>1. write'[v] = write[v] /\ done'[v] = done[v] /\ (Kid(v, n)' <=> Kid(v, n))
    BY <1>2, Zenon DEF Untouched
  <2>2. Effect(v, n)
    BY Zenon DEF TxnInv
  <2> QED BY <1>1, <2>1, <2>2, Zenon DEF Effect
<1> QED BY <1>4, <1>5, <1>6, Zenon DEF TxnInv, Untouched

(* A step inside another transaction keeps v's part. *)
LEMMA QuietKept ==
    ASSUME IInv, NEW v \in Writers, Untouched(v), UNCHANGED store,
           touched'[v] = touched[v],
           \A u \in Writers : done'[u] \cap Local \subseteq done[u]
    PROVE  TxnInv(v)'
<1>1. entry' = entry /\ parents' = parents /\ Published' = Published
  BY Zenon DEF store, Published
<1>2. TypeOK /\ TxnInv(v)
  BY Zenon DEF IInv
<1>3. open[v] => Published' \ SeenPublished(v) \subseteq touched'[v]
  BY <1>1, <1>2, Zenon DEF TxnInv, SnapshotInv
<1>4. \A b \in done[v] \cap Local :
          entry'[b] = "none" /\ \A u \in Writers : b \in done'[u] => u = v
  BY <1>1, <1>2, Zenon DEF TxnInv, ValidatedInv
<1> QED BY <1>1, <1>2, <1>3, <1>4, OthersKept, Zenon

(* An empty store, no transaction open. *)
LEMMA InitIInv == Init => IInv
<1> SUFFICES ASSUME Init PROVE IInv
  BY Zenon
<1>1. TypeOK
  BY States, Table, PublishAssumption, Zenon DEF Init, TypeOK, NoEntry, NoHeads, NoWrite, Blocks
<1>2. Published = {} /\ \A w \in Writers : SeenPublished(w) = {} /\ done[w] = {} /\ ops[w] = {}
  BY Zenon DEF Init, Published, SeenPublished, NoEntry
<1>3. \A n \in Blocks : Tip({}, n) = Absent
  BY Zenon DEF Tip
<1>4. HeadsAreTips
  BY <1>2, <1>3, Zenon DEF Init, HeadsAreTips, NoHeads
<1>9. ParentsInv
  BY Zenon DEF Init, ParentsInv, Blocks
<1>5. AppliedOnce
  BY PublishAssumption DEF Init, AppliedOnce, NoEntry
<1>6. \A w \in Writers : SnapshotInv(w)
  BY <1>2, <1>3, Zenon DEF Init, SnapshotInv, NoHeads, NoEntry
<1>7. \A w \in Writers : ValidatedInv(w)
  BY <1>2, Zenon DEF ValidatedInv, Kid
<1>8. \A w \in Writers, n \in Blocks : Effect(w, n)
  BY <1>2, Zenon DEF Init, Effect, Kid, NoWrite
<1> QED BY <1>1, <1>2, <1>4, <1>5, <1>6, <1>7, <1>8, <1>9 DEF IInv, TxnInv

(* Begin takes a snapshot of the committed state. *)
LEMMA BeginIInv ==
    ASSUME IInv, NEW w \in Writers, Begin(w)
    PROVE  IInv'
<1> USE DEF store, work
<1>e. \A n \in Blocks : Effect(w, n)
  BY Parts, Zenon
<1>s. SnapshotInv(w)
  BY Parts, Zenon
<1>1. TypeOK'
  BY Zenon DEF IInv, TypeOK, Begin
<1>2. ParentsInv' /\ HeadsAreTips' /\ AppliedOnce' /\ Published' = Published
  BY Zenon DEF IInv, Begin, ParentsInv, HeadsAreTips, AppliedOnce, Tip, Published
<1>3. \A v \in Writers : v # w => TxnInv(v)'
  <2> SUFFICES ASSUME NEW v \in Writers, v # w PROVE TxnInv(v)'
    BY Zenon
  <2>1. Untouched(v)
    BY Zenon DEF IInv, TypeOK, Begin, Untouched
  <2> QED BY <2>1, QuietKept DEF Begin
<1>4. TxnInv(w)'
  <2>1. done'[w] = {} /\ ops'[w] = {} /\ open'[w] /\ seen'[w] = entry /\ seenHeads'[w] = heads
    BY Parts, Zenon DEF TypeOK, Begin
  <2>2. SeenPublished(w)' = Published
    BY <2>1, Zenon DEF SeenPublished, Published
  <2>3. \A n \in Blocks : Tip(SeenPublished(w), n)' = Tip(Published, n)
    BY <2>2, Zenon DEF Begin, Tip
  <2>4. SnapshotInv(w)'
    BY <1>s, <1>2, <2>1, <2>2, <2>3, Zenon DEF SnapshotInv, IInv, HeadsAreTips, Begin
  <2>5. ValidatedInv(w)'
    BY <2>1, Zenon DEF ValidatedInv, Kid
  <2>6. \A n \in Blocks : Effect(w, n)'
    BY <1>e, <2>1, Zenon DEF Effect, Kid, Begin
  <2> QED BY <2>1, <2>4, <2>5, <2>6, Zenon DEF TxnInv
<1> QED BY <1>1, <1>2, <1>3, <1>4 DEF IInv

(* What a transaction reads of an entry says whether it saw or made the      *)
(* publication; what it holds ahead is what it neither saw nor made.         *)
LEMMA EntryView ==
    ASSUME IInv, NEW w \in Writers
    PROVE  /\ \A b \in Blocks :
                 EntryOf(w, b) = "published" <=> b \in SeenPublished(w) \cup done[w]
           /\ \A b \in Blocks : IsLive(HeadOf(w, b)) => b \in SeenPublished(w) \cup done[w]
           /\ \A b \in Blocks :
                 Missing(w, b) = parents[b] \ (SeenPublished(w) \cup done[w])
<1>v. ValidatedInv(w)
  BY Parts, Zenon
<1>1. \A b \in Blocks :
          EntryOf(w, b) = "published" <=> b \in SeenPublished(w) \cup done[w]
  BY <1>v DEF ValidatedInv, EntryOf, SeenPublished
<1>2. \A b \in Blocks : IsLive(HeadOf(w, b)) => b \in SeenPublished(w) \cup done[w]
  BY View, TipLive, Zenon
<1>3. \A b \in Blocks : parents[b] \subseteq Blocks
  BY Zenon DEF IInv, TypeOK
<1> QED BY <1>1, <1>2, <1>3, Zenon DEF Missing

(* A step inside a transaction that adds b, whose parents are S, supersedes  *)
(* the ones it saw or made published and holds the others, A, ahead.         *)
Adds(w, b, S, A) ==
    /\ S \subseteq Blocks /\ A \subseteq S
    /\ b \notin S /\ b \notin done[w] \cup SeenPublished(w)
    /\ S \ A \subseteq done[w] \cup SeenPublished(w)
    /\ A \cap (done[w] \cup SeenPublished(w)) = {}
    /\ write'[w] = Entries(w, b, S, A)
    /\ done'[w] = done[w] \cup {b}
    /\ seen'[w] = seen[w]
    /\ parents'[b] = S
    /\ \A c \in done[w] : parents'[c] = parents[c]

(* Such a step keeps Effect. *)
LEMMA EntriesEffect ==
    ASSUME IInv, NEW w \in Writers, NEW b \in Blocks, NEW S, NEW A, Adds(w, b, S, A)
    PROVE  /\ \A n \in Blocks : Effect(w, n)'
           /\ \A n \in Blocks : Kid(w, n)' <=> Kid(w, n) \/ n \in S
           /\ SeenPublished(w)' = SeenPublished(w)
           /\ write'[w] \in [Blocks -> Func]
<1>1. /\ SeenPublished(w)' = SeenPublished(w)
      /\ done'[w] = done[w] \cup {b}
      /\ S \subseteq Blocks /\ A \subseteq S
      /\ b \notin S /\ b \notin done[w] \cup SeenPublished(w)
      /\ S \ A \subseteq done[w] \cup SeenPublished(w)
      /\ A \cap (done[w] \cup SeenPublished(w)) = {}
  BY Zenon DEF Adds, SeenPublished
<1>2. \A n \in Blocks : Kid(w, n)' <=> Kid(w, n) \/ n \in S
  BY Zenon DEF Adds, Kid
<1>3. \A n \in Blocks : write[w][n] \in Func /\ Effect(w, n)
  BY Parts DEF TypeOK
<1>4. /\ write'[w] = Entries(w, b, S, A)
      /\ \A n \in Blocks : write'[w][n] =
          IF n = b THEN Then(write[w][n], AddAt(1))
          ELSE IF n \in A THEN Then(write[w][n], SUPERSEDE_AHEAD)
          ELSE IF n \in S THEN Then(write[w][n], SUPERSEDE)
          ELSE write[w][n]
  BY Zenon DEF Adds, Entries
<1>5. write'[w] \in [Blocks -> Func]
  <2>1. AddAt(1) \in Func /\ SUPERSEDE_AHEAD \in Func /\ SUPERSEDE \in Func
    BY Table, Zenon
  <2>2. \A n \in Blocks, g \in Func : Then(write[w][n], g) \in Func
    BY <1>3, ThenType, Zenon
  <2>3. \A n \in Blocks : write'[w][n] \in Func
    BY <1>3, <1>4, <2>1, <2>2, Zenon
  <2>4. write'[w] = [n \in Blocks |-> write'[w][n]]
    BY <1>4, Zenon DEF Entries
  <2> QED BY <2>3, <2>4, Zenon
<1>6. ASSUME NEW n \in Blocks, NEW g \in Func
      PROVE  /\ Apply(Then(write[w][n], g), Absent) = Apply(g, Apply(write[w][n], Absent))
             /\ Apply(Then(write[w][n], g), Ahead) = Apply(g, Apply(write[w][n], Ahead))
             /\ Apply(Then(write[w][n], g), Live(1)) = Apply(g, Apply(write[w][n], Live(1)))
  BY <1>3, States, ThenIsComposition, Zenon
<1>7. ASSUME NEW n \in Blocks PROVE Effect(w, n)'
  <2>1. Effect(w, n) /\ (Kid(w, n)' <=> Kid(w, n) \/ n \in S)
    BY <1>2, <1>3, Zenon
  <2>2. CASE n = b
    <3>1. /\ Apply(write'[w][n], Absent) = Apply(AddAt(1), Apply(write[w][n], Absent))
          /\ Apply(write'[w][n], Ahead) = Apply(AddAt(1), Apply(write[w][n], Ahead))
      <4>1. write'[w][n] = Then(write[w][n], AddAt(1)) /\ AddAt(1) \in Func
        BY <1>4, <2>2, Table, Zenon
      <4> QED BY <1>6, <4>1, Zenon
    <3>2. n \in done'[w] /\ n \notin done[w] /\ n \notin SeenPublished(w) /\ n \notin S
      BY <1>1, <2>2, Zenon
    <3>3. CASE Kid(w, n)
      <4>1. Apply(write[w][n], Absent) = Ahead /\ Apply(write[w][n], Ahead) = Ahead
        BY <2>1, <3>2, <3>3, Zenon DEF Effect
      <4>2. Apply(write'[w][n], Absent) = Absent /\ Apply(write'[w][n], Ahead) = Absent
        BY <3>1, <4>1, Table, Zenon
      <4> QED BY <2>1, <3>2, <3>3, <4>2, Zenon DEF Effect
    <3>4. CASE ~Kid(w, n)
      <4>1. Apply(write[w][n], Absent) = Absent /\ Apply(write[w][n], Ahead) = Ahead
        BY <2>1, <3>2, <3>4, Table, States, Zenon DEF Effect
      <4>2. Apply(write'[w][n], Absent) = Live(1) /\ Apply(write'[w][n], Ahead) = Absent
        BY <3>1, <4>1, Table, Zenon
      <4> QED BY <2>1, <3>2, <3>4, <4>2, Zenon DEF Effect
    <3> QED BY <3>3, <3>4, Zenon
  <2>3. CASE n \in A
    <3>1. /\ Apply(write'[w][n], Absent) = Apply(SUPERSEDE_AHEAD, Apply(write[w][n], Absent))
          /\ Apply(write'[w][n], Ahead) = Apply(SUPERSEDE_AHEAD, Apply(write[w][n], Ahead))
      <4>1. write'[w][n] = Then(write[w][n], SUPERSEDE_AHEAD) /\ SUPERSEDE_AHEAD \in Func
        BY <1>1, <1>4, <2>3, Table, Zenon
      <4> QED BY <1>6, <4>1, Zenon
    <3>2. n \notin done'[w] /\ n \notin done[w] /\ n \notin SeenPublished(w) /\ Kid(w, n)'
      BY <1>1, <2>1, <2>3, Zenon
    <3>3. /\ Apply(write[w][n], Absent) \in {Absent, Ahead}
          /\ Apply(write[w][n], Ahead) = Ahead
      BY <2>1, <3>2, Table, States, Zenon DEF Effect
    <3>4. Apply(write'[w][n], Absent) = Ahead /\ Apply(write'[w][n], Ahead) = Ahead
      BY <3>1, <3>3, Table, Zenon
    <3> QED BY <1>1, <3>2, <3>4, Zenon DEF Effect
  <2>4. CASE n \in S \ A
    <3>1. /\ Apply(write'[w][n], Absent) = Apply(SUPERSEDE, Apply(write[w][n], Absent))
          /\ Apply(write'[w][n], Ahead) = Apply(SUPERSEDE, Apply(write[w][n], Ahead))
          /\ Apply(write'[w][n], Live(1)) = Apply(SUPERSEDE, Apply(write[w][n], Live(1)))
      <4>1. write'[w][n] = Then(write[w][n], SUPERSEDE) /\ SUPERSEDE \in Func
        BY <1>1, <1>4, <2>4, Table, Zenon
      <4> QED BY <1>6, <4>1, Zenon
    <3>2. n # b /\ n \in done[w] \cup SeenPublished(w) /\ Kid(w, n)'
      BY <1>1, <2>1, <2>4, Zenon
    <3>3. CASE n \in done[w]
      <4>1. /\ Apply(write[w][n], Absent) \in {Absent, Live(1)}
            /\ Apply(write[w][n], Ahead) = Absent
        BY <2>1, <3>3, Zenon DEF Effect
      <4>2. Apply(write'[w][n], Absent) = Absent /\ Apply(write'[w][n], Ahead) = Absent
        BY <3>1, <4>1, Table, Zenon
      <4> QED BY <1>1, <3>2, <3>3, <4>2, Zenon DEF Effect
    <3>4. CASE n \notin done[w]
      <4>1. /\ Apply(write[w][n], Absent) = Absent
            /\ Apply(write[w][n], Live(1)) \in {Absent, Live(1)}
        BY <2>1, <3>2, <3>4, Table, States, Zenon DEF Effect
      <4>2. Apply(write'[w][n], Absent) = Absent /\ Apply(write'[w][n], Live(1)) = Absent
        BY <3>1, <4>1, Table, Zenon
      <4> QED BY <1>1, <3>2, <3>4, <4>2, Zenon DEF Effect
    <3> QED BY <3>3, <3>4, Zenon
  <2>5. CASE n # b /\ n \notin S
    <3>1. write'[w][n] = write[w][n]
      BY <1>1, <1>4, <2>5, Zenon
    <3> QED BY <1>1, <2>1, <2>5, <3>1, Zenon DEF Effect
  <2> QED BY <2>2, <2>3, <2>4, <2>5, Zenon
<1> QED BY <1>1, <1>2, <1>5, <1>7, Zenon

(* apply_field_op_once alone: an operation, and its entry to validate. *)
LEMMA ApplyAloneIInv ==
    ASSUME IInv, NEW w \in Writers, NEW b \in Blocks, ApplyAlone(w, b)
    PROVE  IInv'
<1> USE DEF store, snapshot
<1>e. \A n \in Blocks : Effect(w, n)
  BY Parts, Zenon
<1>s. SnapshotInv(w)
  BY Parts, Zenon
<1>v. ValidatedInv(w)
  BY Parts, Zenon
<1>1. TypeOK'
  BY Zenon DEF IInv, TypeOK, ApplyAlone, ApplyOnce
<1>2. ParentsInv' /\ HeadsAreTips' /\ AppliedOnce' /\ Published' = Published
  BY Zenon DEF IInv, ApplyAlone, ParentsInv, HeadsAreTips, AppliedOnce, Tip, Published
<1>3. \A v \in Writers : v # w => TxnInv(v)'
  <2> SUFFICES ASSUME NEW v \in Writers, v # w PROVE TxnInv(v)'
    BY Zenon
  <2>1. Untouched(v)
    BY Zenon DEF IInv, TypeOK, ApplyAlone, Untouched
  <2> QED BY <2>1, QuietKept DEF ApplyAlone
<1>4. TxnInv(w)'
  <2>1. /\ done'[w] = done[w] /\ write'[w] = write[w] /\ held'[w] = held[w]
        /\ read'[w] = read[w] \cup {b} /\ ops'[w] = ops[w] \cup {b}
        /\ b \notin done[w] /\ seen[w][b] = "none" /\ open[w]
    BY Zenon DEF IInv, TypeOK, ApplyAlone, ApplyOnce, EntryOf
  <2>2. SeenPublished(w)' = SeenPublished(w) /\ \A n \in Blocks : Kid(w, n)' <=> Kid(w, n)
    BY <2>1, Zenon DEF ApplyAlone, SeenPublished, Kid
  <2>3. SnapshotInv(w)'
    <3>1. \A n \in Blocks : Tip(SeenPublished(w), n)' = Tip(SeenPublished(w), n)
      BY <2>2, Zenon DEF ApplyAlone, Tip
    <3>2. SeenPublished(w)' = SeenPublished(w) /\ Published' = Published
      BY <1>2, <2>2, Zenon
    <3> QED BY <1>s, <3>1, <3>2, Zenon DEF SnapshotInv, ApplyAlone
  <2>4. ValidatedInv(w)'
    BY <1>v, <2>1, <2>2, Zenon DEF ValidatedInv, ApplyAlone
  <2>5. \A n \in Blocks : Effect(w, n)'
    BY <1>e, <2>1, <2>2, Zenon DEF Effect
  <2> QED BY <2>1, <2>3, <2>4, <2>5, Zenon DEF TxnInv, ApplyAlone
<1> QED BY <1>1, <1>2, <1>3, <1>4, Zenon DEF IInv

(* document::publish and publish_collection_block. *)
LEMMA PublishIInv ==
    ASSUME IInv, NEW w \in Writers, NEW b \in Blocks, Publish(w, b)
    PROVE  IInv'
<1> USE DEF store, snapshot
<1> DEFINE S == parents[b]
           A == Missing(w, b)
<1>s. SnapshotInv(w)
  BY Parts
<1>t. TypeOK
  BY Parts, Zenon
<1>v. ValidatedInv(w)
  BY Parts
<1>1. /\ S \subseteq Blocks /\ A = S \ (SeenPublished(w) \cup done[w])
      /\ b \notin done[w] \cup SeenPublished(w) /\ b \notin S
  BY EntryView, PublishAssumption, Zenon DEF IInv, TypeOK, ParentsInv, Publish
<1>2. /\ write'[w] = Entries(w, b, S, A) /\ done'[w] = done[w] \cup {b}
      /\ held'[w] = held[w] \cup HoldReads(w, b)
      /\ read'[w] = read[w] \cup {b} \cup GuardReads(w, b)
      /\ ops'[w] = ops[w] \cup ApplyOnce(w, b)
      /\ open[w]
  BY DEF IInv, TypeOK, Publish
<1>3. /\ \A n \in Blocks : Effect(w, n)'
      /\ \A n \in Blocks : Kid(w, n)' <=> Kid(w, n) \/ n \in S
      /\ SeenPublished(w)' = SeenPublished(w)
      /\ write'[w] \in [Blocks -> Func]
  <2>1. A \in SUBSET S /\ S \in SUBSET Blocks
    BY <1>1, Zenon
  <2>2. /\ seen'[w] = seen[w] /\ parents'[b] = S
        /\ \A c \in done[w] : parents'[c] = parents[c]
    BY Zenon DEF Publish
  <2>3. /\ S \ A \subseteq done[w] \cup SeenPublished(w)
        /\ A \cap (done[w] \cup SeenPublished(w)) = {}
    BY <1>1, Zenon
  <2>4. b \notin S /\ b \notin done[w] \cup SeenPublished(w)
    BY <1>1, Zenon
  <2>5. write'[w] = Entries(w, b, S, A) /\ done'[w] = done[w] \cup {b}
    BY <1>2, Zenon
  <2>6. Adds(w, b, S, A)
    BY <2>1, <2>2, <2>3, <2>4, <2>5, Zenon DEF Adds
  <2> HIDE DEF S, A
  <2> QED BY <2>6, EntriesEffect, Zenon
<1>4. TypeOK'
  <2>1. write' \in [Writers -> [Blocks -> Func]]
    BY <1>3, Zenon DEF IInv, TypeOK, Publish
  <2>2. HoldReads(w, b) \subseteq Blocks /\ GuardReads(w, b) \subseteq Blocks
        /\ ApplyOnce(w, b) \subseteq Ops
    BY <1>1, Zenon DEF HoldReads, GuardReads, ApplyOnce
  <2>3. /\ done' \in [Writers -> SUBSET Blocks] /\ ops' \in [Writers -> SUBSET Ops]
        /\ read' \in [Writers -> SUBSET Blocks] /\ held' \in [Writers -> SUBSET Blocks]
    BY <1>t, <2>2, Zenon DEF TypeOK, Publish
  <2>4. UNCHANGED <<entry, heads, merged, parents, open, seen, seenHeads, touched>>
    BY DEF Publish
  <2> QED BY <1>t, <2>1, <2>3, <2>4, Zenon DEF TypeOK
<1>5. ParentsInv' /\ HeadsAreTips' /\ AppliedOnce' /\ Published' = Published
  BY Zenon DEF IInv, Publish, ParentsInv, HeadsAreTips, AppliedOnce, Tip, Published
<1>6. b \in Remote /\ b \notin Local
  BY PublishAssumption, Zenon DEF Publish
<1>7. \A v \in Writers : v # w => TxnInv(v)'
  <2> SUFFICES ASSUME NEW v \in Writers, v # w PROVE TxnInv(v)'
    OBVIOUS
  <2>1. Untouched(v)
    BY Zenon DEF IInv, TypeOK, Publish, Untouched
  <2>2. \A u \in Writers : done'[u] \cap Local \subseteq done[u]
    BY <1>6 DEF IInv, TypeOK, Publish
  <2> QED BY <2>1, <2>2, QuietKept, Zenon DEF Publish
<1>8. SnapshotInv(w)'
  <2>1. SeenPublished(w)' = SeenPublished(w) /\ Published' = Published
    BY <1>3, <1>5, Zenon
  <2>2. \A n \in Blocks : Tip(SeenPublished(w), n)' = Tip(SeenPublished(w), n)
    BY <2>1, Zenon DEF Publish, Tip
  <2> QED BY <1>s, <2>1, <2>2, Zenon DEF SnapshotInv, Publish
<1>9. ValidatedInv(w)'
  <2>1. done'[w] \cap SeenPublished(w)' = {}
    <3>1. done[w] \cap SeenPublished(w) = {}
      BY <1>v, Zenon DEF ValidatedInv
    <3>2. b \notin SeenPublished(w) /\ SeenPublished(w)' = SeenPublished(w)
      BY <1>1, <1>3, Zenon
    <3> QED BY <1>2, <3>1, <3>2, Zenon
  <2>2. \A c \in done'[w] : \/ c \in read'[w]
                            \/ c \in Local /\ entry'[c] = "none" /\ seen'[w][c] = "none"
    BY <1>v, <1>2, Zenon DEF ValidatedInv, Publish
  <2>3. \A c \in done'[w] \cap Local :
            entry'[c] = "none" /\ \A v \in Writers : c \in done'[v] => v = w
    BY <1>t, <1>v, <1>2, <1>6, Zenon DEF TypeOK, ValidatedInv, Publish
  <2>4. ASSUME NEW n \in Blocks \ (done'[w] \cup SeenPublished(w)'), Kid(w, n)'
        PROVE  n \in IF Collection THEN read'[w] ELSE held'[w]
    <3>1. CASE n \in S
      <4>1. n \in A
        BY <1>1, <1>2, <1>3, <2>4, <3>1, Zenon
      <4>2. ~IsLive(HeadOf(w, n))
        BY <4>1, Zenon DEF Missing
      <4> QED BY <1>2, <3>1, <4>1, <4>2, Zenon DEF HoldReads, GuardReads
    <3>2. CASE n \notin S
      BY <1>v, <1>2, <1>3, <2>4, <3>2, Zenon DEF ValidatedInv
    <3> QED BY <3>1, <3>2
  <2>5. \A c \in ops'[w] : /\ seen'[w][c] = "none"
                           /\ c \in Remote \cap read'[w] \/ c \in Local \cap done'[w]
    BY <1>v, <1>1, <1>2, <1>6, Zenon DEF ValidatedInv, Publish, ApplyOnce, EntryOf
  <2>6. \A c \in done'[w] \cap Ops :
            c \in ops'[w] \/ (c \in read'[w] /\ seen'[w][c] = "applied")
    <3>1. b \in Ops => b \in ops'[w] \/ seen[w][b] = "applied"
      <4>1. b \notin done[w] /\ seen[w][b] # "published"
        BY <1>1, Zenon DEF SeenPublished
      <4>2. seen[w][b] \in {"none", "applied", "published"}
        BY <1>t DEF TypeOK
      <4>3. ops'[w] = ops[w] \cup ApplyOnce(w, b)
        BY <1>2
      <4> QED BY <4>1, <4>2, <4>3, Zenon DEF ApplyOnce, EntryOf
    <3> QED BY <1>v, <1>2, <3>1, Zenon DEF ValidatedInv, Publish
  <2> QED BY <2>1, <2>2, <2>3, <2>4, <2>5, <2>6, Zenon DEF ValidatedInv
<1>10. TxnInv(w)'
  BY <1>2, <1>3, <1>8, <1>9, Zenon DEF TxnInv, Publish
<1> QED BY <1>4, <1>5, <1>7, <1>10 DEF IInv

(* A local write appends to the heads its transaction reads. *)
LEMMA LocalWriteIInv ==
    ASSUME IInv, NEW w \in Writers, NEW b \in Blocks, LocalWrite(w, b)
    PROVE  IInv'
<1> USE DEF snapshot
<1> DEFINE S == {n \in Blocks : IsLive(HeadOf(w, n))}
<1>s. SnapshotInv(w)
  BY Parts
<1>t. TypeOK
  BY Parts
<1>v. ValidatedInv(w)
  BY Parts
<1>1. /\ b \in Local /\ b \notin Remote /\ entry[b] = "none" /\ b \notin Published
      /\ \A v \in Writers : b \notin done[v] /\ seen[v][b] = "none" /\ b \notin SeenPublished(v)
      /\ b \notin ops[w]
  <2>1. b \in Local /\ b \notin Remote /\ entry[b] = "none" /\ \A v \in Writers : b \notin done[v]
    BY PublishAssumption, Zenon DEF LocalWrite
  <2>2. ASSUME NEW v \in Writers PROVE seen[v][b] = "none" /\ b \notin SeenPublished(v)
    <3>1. SnapshotInv(v)
      BY Parts, Zenon
    <3> QED BY <2>1, <3>1, Zenon DEF SnapshotInv, SeenPublished
  <2>3. b \notin ops[w]
    BY <1>v, <2>1, Zenon DEF ValidatedInv
  <2> QED BY <2>1, <2>2, <2>3, Zenon DEF Published
<1>2. S \subseteq done[w] \cup SeenPublished(w) /\ b \notin S
  BY <1>1, EntryView, Zenon
<1>3. /\ write'[w] = Entries(w, b, S, {}) /\ done'[w] = done[w] \cup {b}
      /\ ops'[w] = ops[w] \cup ApplyOnce(w, b) /\ ApplyOnce(w, b) = {b} \cap Ops
      /\ read[w] \subseteq read'[w] /\ open[w]
  <2>1. /\ write'[w] = Entries(w, b, S, {}) /\ done'[w] = done[w] \cup {b}
        /\ ops'[w] = ops[w] \cup ApplyOnce(w, b)
        /\ read[w] \subseteq read'[w] /\ open[w]
    BY <1>t, Zenon DEF TypeOK, LocalWrite
  <2>2. EntryOf(w, b) = "none"
    BY <1>1, Zenon DEF EntryOf
  <2> QED BY <2>1, <2>2, Zenon DEF ApplyOnce
<1>4. parents'[b] = S /\ \A c \in Blocks : c # b => parents'[c] = parents[c]
  BY Zenon DEF IInv, TypeOK, LocalWrite
<1>5. /\ \A n \in Blocks : Effect(w, n)'
      /\ \A n \in Blocks : Kid(w, n)' <=> Kid(w, n) \/ n \in S
      /\ SeenPublished(w)' = SeenPublished(w)
      /\ write'[w] \in [Blocks -> Func]
  <2>1. {} \in SUBSET S /\ S \in SUBSET Blocks /\ S \ {} \subseteq done[w] \cup SeenPublished(w)
        /\ {} \cap (done[w] \cup SeenPublished(w)) = {}
    BY <1>2, Zenon
  <2>2. seen'[w] = seen[w] /\ \A c \in done[w] : parents'[c] = parents[c]
    <3>1. seen'[w] = seen[w]
      BY Zenon DEF LocalWrite
    <3>2. b \notin done[w] /\ done[w] \subseteq Blocks
      BY <1>1, <1>t, Zenon DEF TypeOK
    <3> QED BY <1>4, <3>1, <3>2, Zenon
  <2>3. b \notin done[w] \cup SeenPublished(w)
    BY <1>1, Zenon
  <2> HIDE DEF S
  <2>4. Adds(w, b, S, {})
    BY <1>2, <1>3, <1>4, <2>1, <2>2, <2>3, Zenon DEF Adds
  <2> QED BY <2>4, EntriesEffect, Zenon
<1>6. TypeOK'
  <2>1. write' \in [Writers -> [Blocks -> Func]] /\ parents' \in [Blocks -> SUBSET Blocks]
    BY <1>5, Zenon DEF IInv, TypeOK, LocalWrite
  <2>2. ApplyOnce(w, b) \subseteq Ops
    BY Zenon DEF ApplyOnce
  <2>3. /\ done' \in [Writers -> SUBSET Blocks] /\ ops' \in [Writers -> SUBSET Ops]
        /\ read' \in [Writers -> SUBSET Blocks]
    <3>1. /\ done \in [Writers -> SUBSET Blocks] /\ ops \in [Writers -> SUBSET Ops]
          /\ read \in [Writers -> SUBSET Blocks]
      BY <1>t, Zenon DEF TypeOK
    <3>2. /\ done' = [done EXCEPT ![w] = @ \cup {b}]
          /\ ops' = [ops EXCEPT ![w] = @ \cup ApplyOnce(w, b)]
          /\ read' = [read EXCEPT ![w] = @ \cup (IF Collection THEN {b} ELSE {})]
      BY Zenon DEF LocalWrite
    <3> QED BY <2>2, <3>1, <3>2, Zenon
  <2>4. /\ UNCHANGED <<entry, heads, merged, held, touched>>
        /\ UNCHANGED <<open, seen, seenHeads>>
    BY Zenon DEF LocalWrite
  <2> QED BY <1>t, <2>1, <2>3, <2>4 DEF TypeOK
<1>7. Published' = Published /\ \A n \in Blocks : Tip(Published, n)' = Tip(Published, n)
  <2>1. Published' = Published
    BY Zenon DEF LocalWrite, Published
  <2>2. \A c \in Published : parents'[c] = parents[c]
    BY <1>1, <1>4 DEF Published
  <2> QED BY <2>1, <2>2, Zenon DEF Tip
<1>8. ParentsInv' /\ HeadsAreTips' /\ AppliedOnce'
  BY <1>1, <1>4, <1>7, Zenon DEF IInv, LocalWrite, ParentsInv, HeadsAreTips, AppliedOnce, Blocks
<1>9. \A v \in Writers : v # w => TxnInv(v)'
  <2> SUFFICES ASSUME NEW v \in Writers, v # w PROVE TxnInv(v)'
    OBVIOUS
  <2>1. Untouched(v)
    BY DEF IInv, TypeOK, LocalWrite, Untouched
  <2>2. TypeOK /\ TxnInv(v)
    BY DEF IInv
  <2>3. \A c \in done[v] \cup SeenPublished(v) : parents'[c] = parents[c]
    BY <1>1, <1>4, <2>2, Zenon DEF TypeOK, SeenPublished
  <2>4. entry' = entry /\ touched' = touched
    BY Zenon DEF LocalWrite
  <2>5. open[v] => Published' \ SeenPublished(v) \subseteq touched'[v]
    BY <1>7, <2>2, <2>4, Zenon DEF TxnInv, SnapshotInv
  <2>6. \A c \in done[v] \cap Local :
            entry'[c] = "none" /\ \A u \in Writers : c \in done'[u] => u = v
    BY <1>1, <2>2, <2>4 DEF TxnInv, TypeOK, ValidatedInv, LocalWrite
  <2> QED BY <1>7, <2>1, <2>2, <2>3, <2>4, <2>5, <2>6, OthersKept, Zenon
<1>10. SnapshotInv(w)'
  <2>1. \A n \in Blocks : Tip(SeenPublished(w), n)' = Tip(SeenPublished(w), n)
    <3>1. \A c \in SeenPublished(w) : parents'[c] = parents[c]
      BY <1>1, <1>4, Zenon DEF SeenPublished
    <3>2. SeenPublished(w)' = SeenPublished(w)
      BY <1>5, Zenon
    <3>3. ASSUME NEW n
          PROVE  (\E c \in SeenPublished(w)' : n \in parents'[c])
                     <=> (\E c \in SeenPublished(w) : n \in parents[c])
      BY <3>1, <3>2, Zenon
    <3> QED BY <3>2, <3>3, Zenon DEF Tip
  <2> QED BY <1>s, <1>5, <1>7, <2>1, Zenon DEF SnapshotInv, LocalWrite
<1>11. ValidatedInv(w)'
  <2>1. done'[w] \cap SeenPublished(w)' = {}
    <3>1. done[w] \cap SeenPublished(w) = {}
      BY <1>v DEF ValidatedInv
    <3>2. b \notin SeenPublished(w) /\ SeenPublished(w)' = SeenPublished(w)
      BY <1>1, <1>5, Zenon
    <3> QED BY <1>3, <3>1, <3>2, Zenon
  <2>2. \A c \in done'[w] : \/ c \in read'[w]
                            \/ c \in Local /\ entry'[c] = "none" /\ seen'[w][c] = "none"
    <3>1. entry' = entry /\ seen' = seen
      BY Zenon DEF LocalWrite
    <3>2. /\ done'[w] = done[w] \cup {b} /\ read[w] \subseteq read'[w]
          /\ b \in Local /\ entry[b] = "none" /\ seen[w][b] = "none"
      BY <1>1, <1>3, Zenon
    <3> QED BY <1>v, <3>1, <3>2, Zenon DEF ValidatedInv
  <2>3. \A c \in done'[w] \cap Local :
            entry'[c] = "none" /\ \A v \in Writers : c \in done'[v] => v = w
    <3>1. entry' = entry /\ \A v \in Writers : v # w => done'[v] = done[v]
      BY <1>t DEF TypeOK, LocalWrite
    <3>2. done'[w] = done[w] \cup {b} /\ entry[b] = "none" /\ \A v \in Writers : b \notin done[v]
      BY <1>1, <1>3, Zenon
    <3>3. \A c \in done[w] \cap Local :
              entry[c] = "none" /\ \A v \in Writers : c \in done[v] => v = w
      BY <1>v, Zenon DEF ValidatedInv
    <3> QED BY <3>1, <3>2, <3>3, Zenon
  <2>4. \A n \in Blocks \ (done'[w] \cup SeenPublished(w)') :
            Kid(w, n)' => n \in IF Collection THEN read'[w] ELSE held'[w]
    <3> SUFFICES ASSUME NEW n \in Blocks \ (done'[w] \cup SeenPublished(w)'), Kid(w, n)'
                 PROVE  n \in IF Collection THEN read'[w] ELSE held'[w]
      OBVIOUS
    <3>1. n \notin done[w] \cup SeenPublished(w)
      BY <1>3, <1>5, Zenon
    <3>2. Kid(w, n)
      BY <1>2, <1>5, <3>1, Zenon
    <3>3. read[w] \subseteq read'[w] /\ held' = held
      BY <1>3, Zenon DEF LocalWrite
    <3> QED BY <1>v, <3>1, <3>2, <3>3, Zenon DEF ValidatedInv
  <2>5. \A c \in ops'[w] : /\ seen'[w][c] = "none"
                           /\ c \in Remote \cap read'[w] \/ c \in Local \cap done'[w]
    BY <1>v, <1>1, <1>3, Zenon DEF ValidatedInv, LocalWrite
  <2>6. \A c \in done'[w] \cap Ops :
            c \in ops'[w] \/ (c \in read'[w] /\ seen'[w][c] = "applied")
    BY <1>v, <1>3, Zenon DEF ValidatedInv, LocalWrite
  <2> QED BY <2>1, <2>2, <2>3, <2>4, <2>5, <2>6, Zenon DEF ValidatedInv
<1>12. TxnInv(w)'
  BY <1>3, <1>5, <1>10, <1>11, Zenon DEF TxnInv, LocalWrite
<1> QED BY <1>6, <1>8, <1>9, <1>12, Zenon DEF IInv

(* A closed transaction has nothing to keep. *)
LEMMA ClosedTxn ==
    ASSUME TypeOK, NEW w \in Writers, Close(w)
    PROVE  TxnInv(w)'
<1>1. /\ ~open'[w] /\ seen'[w] = NoEntry /\ seenHeads'[w] = NoHeads /\ write'[w] = NoWrite
      /\ done'[w] = {} /\ ops'[w] = {} /\ read'[w] = {} /\ held'[w] = {}
  BY Zenon DEF TypeOK, Close
<1>2. SeenPublished(w)' = {} /\ \A n \in Blocks : ~Kid(w, n)'
  BY <1>1, Zenon DEF SeenPublished, Kid, NoEntry
<1>3. \A n \in Blocks : Tip(SeenPublished(w), n)' = Absent
  BY <1>2 DEF Tip
<1>4. SnapshotInv(w)'
  BY <1>1, <1>2, <1>3, Zenon DEF SnapshotInv, NoEntry, NoHeads
<1>5. ValidatedInv(w)'
  BY <1>1, <1>2, Zenon DEF ValidatedInv
<1>6. \A n \in Blocks : Effect(w, n)'
  BY <1>1, <1>2, Zenon DEF Effect, NoWrite
<1> QED BY <1>1, <1>4, <1>5, <1>6, Zenon DEF TxnInv

(* Closing keeps the types of what it resets. *)
LEMMA CloseType ==
    ASSUME TypeOK, NEW w \in Writers, Close(w)
    PROVE  /\ open' \in [Writers -> BOOLEAN]
           /\ seen' \in [Writers -> [Blocks -> {"none", "applied", "published"}]]
           /\ seenHeads' \in [Writers -> [Blocks -> State]]
           /\ write' \in [Writers -> [Blocks -> Func]]
           /\ done' \in [Writers -> SUBSET Blocks]
           /\ ops' \in [Writers -> SUBSET Ops]
           /\ read' \in [Writers -> SUBSET Blocks]
           /\ held' \in [Writers -> SUBSET Blocks]
<1>1. NoEntry \in [Blocks -> {"none", "applied", "published"}]
  BY Zenon DEF NoEntry
<1>2. NoHeads \in [Blocks -> State] /\ NoWrite \in [Blocks -> Func]
  BY States, Table, Zenon DEF NoHeads, NoWrite
<1> QED BY <1>1, <1>2 DEF TypeOK, Close

(* A conflict or an error keeps nothing of the transaction. *)
LEMMA DiscardIInv ==
    ASSUME IInv, NEW w \in Writers, Discard(w)
    PROVE  IInv'
<1> USE DEF store
<1>1. TypeOK'
  BY CloseType, Zenon DEF IInv, TypeOK, Discard
<1>2. ParentsInv' /\ HeadsAreTips' /\ AppliedOnce'
  BY Zenon DEF IInv, Discard, ParentsInv, HeadsAreTips, AppliedOnce, Tip, Published
<1>3. \A v \in Writers : v # w => TxnInv(v)'
  <2> SUFFICES ASSUME NEW v \in Writers, v # w PROVE TxnInv(v)'
    OBVIOUS
  <2>1. Untouched(v) /\ touched'[v] = touched[v]
    BY Zenon DEF IInv, TypeOK, Discard, Close, Untouched
  <2>2. \A u \in Writers : done'[u] \cap Local \subseteq done[u]
    BY Zenon DEF IInv, TypeOK, Discard, Close
  <2> QED BY <2>1, <2>2, QuietKept, Zenon DEF Discard
<1>4. TxnInv(w)'
  BY ClosedTxn, Zenon DEF IInv, Discard
<1> QED BY <1>1, <1>2, <1>3, <1>4, Zenon DEF IInv

(* The engine's commit: what it validates makes the operand exact. *)
LEMMA CommitIInv ==
    ASSUME IInv, NEW w \in Writers, Commit(w)
    PROVE  IInv'
<1>e. \A n \in Blocks : Effect(w, n)
  BY Parts
<1>s. SnapshotInv(w)
  BY Parts
<1>t. TypeOK
  BY Parts, Zenon
<1>v. ValidatedInv(w)
  BY Parts, Zenon
<1>1. open[w] /\ EntriesStand(w) /\ HoldsStand(w) /\ Close(w) /\ parents' = parents
  BY Zenon DEF Commit
<1>2. done[w] \cap Published = {}
  <2> SUFFICES ASSUME NEW b \in done[w] PROVE entry[b] # "published"
    BY Zenon DEF Published
  <2>1. b \in Blocks /\ seen[w][b] # "published"
    BY <1>t, <1>v DEF TypeOK, ValidatedInv, SeenPublished
  <2>2. entry[b] = seen[w][b] \/ entry[b] = "none"
    BY <1>v, <1>1, Zenon DEF ValidatedInv, EntriesStand
  <2> QED BY <2>1, <2>2, Zenon
<1>3. \A b \in ops[w] : entry[b] = "none"
  BY <1>v, <1>1, Zenon DEF ValidatedInv, EntriesStand
<1>4. \A b \in Blocks : entry'[b] =
          IF b \in done[w] THEN "published"
          ELSE IF b \in ops[w] THEN "applied" ELSE entry[b]
  BY Zenon DEF Commit, EntryOf
<1>5. Published' = Published \cup done[w]
  BY <1>3, <1>4, Zenon DEF Published, IInv, TypeOK
<1>6. TypeOK'
  <2>1. entry' \in [Blocks -> {"none", "applied", "published"}]
    BY <1>4, Zenon DEF Commit, IInv, TypeOK
  <2>2. heads' \in [Blocks -> State]
    <3>1. \A n \in Blocks : write[w][n] \in Func /\ heads[n] \in State
      BY <1>t, Zenon DEF TypeOK
    <3>2. heads' = [n \in Blocks |-> Apply(write[w][n], heads[n])]
      BY Zenon DEF Commit
    <3> QED BY <3>1, <3>2, ApplyType, Zenon
  <2>3. merged' \in [Blocks -> Nat] /\ touched' \in [Writers -> SUBSET Blocks]
    <3>1. NamesOf(w) \subseteq Blocks
      BY Zenon DEF NamesOf
    <3>2. merged' \in [Blocks -> Nat]
      <4>1. merged' = [c \in Blocks |-> IF c \in ops[w] THEN merged[c] + 1 ELSE merged[c]]
        BY Zenon DEF Commit
      <4>2. \A c \in Blocks : merged[c] \in Nat
        BY <1>t, Zenon DEF TypeOK
      <4> QED BY <4>1, <4>2
    <3>3. touched' \in [Writers -> SUBSET Blocks]
      BY <1>t, <3>1 DEF Commit, TypeOK
    <3> QED BY <3>2, <3>3
  <2> QED BY <1>1, <2>1, <2>2, <2>3, CloseType, Zenon DEF IInv, TypeOK
<1>7. HeadsAreTips'
  <2> SUFFICES ASSUME NEW n \in Blocks PROVE heads'[n] = Tip(Published, n)'
    BY Zenon DEF HeadsAreTips, Commit
  <2>1. n \notin done[w] \cup SeenPublished(w) /\ Kid(w, n) => n \notin Published
    <3> SUFFICES ASSUME n \notin done[w] \cup SeenPublished(w), Kid(w, n)
                 PROVE  n \notin Published
      BY Zenon
    <3>1. CASE Collection
      BY <1>v, <1>1, <3>1, Zenon DEF ValidatedInv, EntriesStand, SeenPublished, Published
    <3>2. CASE ~Collection
      <4>1. n \in held[w]
        BY <1>v, <3>2, Zenon DEF ValidatedInv
      <4>2. n \notin touched[w]
        BY <1>1, <4>1, Zenon DEF HoldsStand
      <4> QED BY <1>s, <1>1, <4>2, Zenon DEF SnapshotInv
    <3> QED BY <3>1, <3>2, PublishAssumption, Zenon
  <2>2. heads[n] = Tip(Published, n)
    BY DEF IInv, HeadsAreTips
  <2>3. Apply(write[w][n], Tip(Published, n)) = Tip(Published \cup done[w], n)
    BY <1>e, <1>s, <1>2, <2>1, MergeTip, Zenon DEF SnapshotInv
  <2>4. heads'[n] = Apply(write[w][n], heads[n])
    BY Zenon DEF Commit
  <2>5. Tip(Published, n)' = Tip(Published \cup done[w], n)
    BY <1>1, <1>5, Zenon DEF Tip
  <2> QED BY <2>2, <2>3, <2>4, <2>5, Zenon
<1>8. AppliedOnce'
  <2> SUFFICES ASSUME NEW b \in Ops
               PROVE  merged'[b] = IF entry'[b] = "none" THEN 0 ELSE 1
    BY Zenon DEF AppliedOnce
  <2>1. b \in Blocks /\ merged[b] = (IF entry[b] = "none" THEN 0 ELSE 1)
    BY PublishAssumption, Zenon DEF IInv, AppliedOnce
  <2>2. merged'[b] = IF b \in ops[w] THEN merged[b] + 1 ELSE merged[b]
    BY <2>1, Zenon DEF Commit
  <2>3. CASE b \in ops[w]
    BY <1>3, <1>4, <2>1, <2>2, <2>3
  <2>4. CASE b \notin ops[w] /\ b \in done[w]
    <3>1. entry[b] = "applied"
      BY <1>v, <1>1, <2>4, Zenon DEF ValidatedInv, EntriesStand
    <3> QED BY <1>4, <2>1, <2>2, <2>4, <3>1, Zenon
  <2>5. CASE b \notin ops[w] /\ b \notin done[w]
    BY <1>4, <2>1, <2>2, <2>5, Zenon
  <2> QED BY <2>3, <2>4, <2>5, Zenon
<1>9. ParentsInv'
  BY <1>1 DEF IInv, ParentsInv
<1>10. \A v \in Writers : v # w => TxnInv(v)'
  <2> SUFFICES ASSUME NEW v \in Writers, v # w PROVE TxnInv(v)'
    OBVIOUS
  <2>1. Untouched(v)
    BY <1>1 DEF IInv, TypeOK, Close, Untouched
  <2>2. TypeOK /\ TxnInv(v)
    BY Zenon DEF IInv
  <2>3. \A b \in Blocks : entry[b] # "none" => entry'[b] # "none"
    BY <1>4, Zenon
  <2>4. done[w] \subseteq NamesOf(w)
    <3> SUFFICES ASSUME NEW b \in done[w] PROVE b \in Blocks /\ write[w][b] # IDENTITY
      BY Zenon DEF NamesOf
    <3>1. b \in Blocks
      BY Zenon DEF IInv, TypeOK
    <3>2. Apply(write[w][b], Ahead) = Absent
      BY <1>e, <3>1, Zenon DEF Effect
    <3> QED BY <3>1, <3>2, Table, States, Zenon
  <2>5. open[v] => Published' \ SeenPublished(v) \subseteq touched'[v]
    BY <1>5, <2>2, <2>4, Zenon DEF Commit, TxnInv, SnapshotInv
  <2>6. \A b \in done[v] \cap Local :
            entry'[b] = "none" /\ \A u \in Writers : b \in done'[u] => u = v
    <3> SUFFICES ASSUME NEW b \in done[v] \cap Local
                 PROVE  entry'[b] = "none" /\ \A u \in Writers : b \in done'[u] => u = v
      BY Zenon
    <3>1. entry[b] = "none" /\ \A u \in Writers : b \in done[u] => u = v
      BY <2>2, Zenon DEF TxnInv, ValidatedInv
    <3>2. b \notin done[w] /\ b \notin ops[w] /\ b \in Blocks
      BY <1>t, <1>v, <3>1, PublishAssumption, Zenon DEF TypeOK, ValidatedInv, Blocks
    <3>3. \A u \in Writers : done'[u] \subseteq done[u]
      BY <1>1, Zenon DEF IInv, TypeOK, Close
    <3> QED BY <1>4, <3>1, <3>2, <3>3, Zenon
  <2> QED BY <1>1, <1>5, <2>1, <2>2, <2>3, <2>5, <2>6, OthersKept, Zenon
<1>11. TxnInv(w)'
  BY <1>1, ClosedTxn DEF IInv
<1> QED BY <1>6, <1>7, <1>8, <1>9, <1>10, <1>11, Zenon DEF IInv

(* The inductive invariant of publication. *)
THEOREM PublishInvariant == Spec => []IInv
<1>1. IInv /\ [Next]_vars => IInv'
  <2> SUFFICES ASSUME IInv, [Next]_vars PROVE IInv'
    BY Zenon
  <2>1. ASSUME Next PROVE IInv'
    <3> PICK w \in Writers :
            \/ Begin(w) \/ Commit(w) \/ Discard(w)
            \/ \E b \in Blocks : ApplyAlone(w, b) \/ Publish(w, b) \/ LocalWrite(w, b)
      BY <2>1 DEF Next
    <3> QED BY BeginIInv, CommitIInv, DiscardIInv, ApplyAloneIInv, PublishIInv, LocalWriteIInv, Zenon
  <2>2. CASE UNCHANGED vars
    <3> USE <2>2 DEF vars, store, snapshot, work
    <3>1. TypeOK' /\ ParentsInv' /\ HeadsAreTips' /\ AppliedOnce'
      BY Zenon DEF IInv, TypeOK, ParentsInv, HeadsAreTips, AppliedOnce, Published, Tip
    <3>2. ASSUME NEW v \in Writers PROVE TxnInv(v)'
      <4>1. Untouched(v)
        BY Zenon DEF Untouched
      <4> QED BY <4>1, QuietKept, Zenon
    <3> QED BY <3>1, <3>2, Zenon DEF IInv, TxnInv
  <2> QED BY <2>1, <2>2
<1> QED BY <1>1, InitIInv, PTL DEF Spec

(* The types of the publication state, for every instance. *)
THEOREM PublishTypes == Spec => []TypeOK
BY PublishInvariant, PTL DEF IInv

(* block/heads.rs: the live heads of a DAG are its published tips, and a     *)
(* name is ahead exactly while it is named and not published, whatever the   *)
(* interleaving of the transactions that publish.                            *)
THEOREM PublishedTips == Spec => []HeadsAreTips
BY PublishInvariant, PTL DEF IInv

(* field_ops.rs: the applied key makes every operation apply exactly once.   *)
THEOREM OperationsApplyOnce == Spec => []AppliedOnce
BY PublishInvariant, PTL DEF IInv
=============================================================================
