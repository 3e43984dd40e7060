----------------------------- MODULE HeadPublish -----------------------------
(***************************************************************************)
(* Publication of the blocks of one DAG into its head set, by concurrent    *)
(* optimistic transactions: crates/db/src/block/heads.rs (a branchable      *)
(* collection's blocks), heads/document.rs (one field of one document), the *)
(* merges that call them (merge_handler) and the local writes that append   *)
(* to the DAG (block/builder/write.rs).                                     *)
(*                                                                         *)
(* A transaction reads from its snapshot and its own writes; what it        *)
(* validates at commit is `read' (the publication entries it decided on)    *)
(* and `held' (the parts of the set it read for the parents it holds        *)
(* ahead).  Every other read and every merge is blind.  Priorities do not   *)
(* steer publication, so every head is at priority 1.                       *)
(***************************************************************************)
EXTENDS HeadFunc, FiniteSets

CONSTANTS
    Writers,      \* concurrent transactions
    Remote,       \* blocks that arrive by replication
    Local,        \* blocks local writes make
    Ops,          \* the blocks of an operation-based field (a counter's)
    RemoteParents,\* the heads field of each replicated block
    Part,         \* head_set::part: the part a name hashes to
    Collection,   \* a collection's set, rather than a document's
    MaxPage       \* bound: blocks published in one transaction

Blocks == Remote \cup Local

ASSUME PublishAssumption ==
    /\ 1 \in Priorities
    /\ Remote \cap Local = {}
    /\ Ops \subseteq Blocks
    /\ RemoteParents \in [Remote -> SUBSET Blocks]
    /\ \A b \in Remote : b \notin RemoteParents[b]
    /\ Part \in [Blocks -> Nat]
    /\ Collection \in BOOLEAN
    /\ Collection => Ops = {}

VARIABLES
    entry,      \* each block's priority index entry (or publication guard)
    heads,      \* the folded head set
    merged,     \* how often each block's operation was merged into the document
    parents,    \* the heads field of every block
    open, seen, seenHeads,      \* per transaction: begun, and its snapshot
    write, done, ops,           \* its set operand, publications and operations
    read, held, touched         \* what it validates; names merged since it began

store == <<entry, heads, merged, parents>>
snapshot == <<open, seen, seenHeads>>
work == <<write, done, ops, read, held>>
vars == <<store, snapshot, work, touched>>

NoEntry == [b \in Blocks |-> "none"]
NoHeads == [b \in Blocks |-> Absent]
NoWrite == [n \in Blocks |-> IDENTITY]

Init ==
    /\ entry = NoEntry
    /\ heads = NoHeads
    /\ merged = [b \in Blocks |-> 0]
    /\ parents = [b \in Blocks |-> IF b \in Remote THEN RemoteParents[b] ELSE {}]
    /\ open = [w \in Writers |-> FALSE]
    /\ seen = [w \in Writers |-> NoEntry]
    /\ seenHeads = [w \in Writers |-> NoHeads]
    /\ write = [w \in Writers |-> NoWrite]
    /\ done = [w \in Writers |-> {}]
    /\ ops = [w \in Writers |-> {}]
    /\ read = [w \in Writers |-> {}]
    /\ held = [w \in Writers |-> {}]
    /\ touched = [w \in Writers |-> {}]

(* What a transaction reads of an entry and of the set: its own writes first. *)
EntryOf(w, b) ==
    IF b \in done[w] THEN "published"
    ELSE IF b \in ops[w] THEN "applied"
    ELSE seen[w][b]

HeadOf(w, n) == Apply(write[w][n], seenHeads[w][n])

Begin(w) ==
    /\ ~open[w]
    /\ open' = [open EXCEPT ![w] = TRUE]
    /\ seen' = [seen EXCEPT ![w] = entry]
    /\ seenHeads' = [seenHeads EXCEPT ![w] = heads]
    /\ UNCHANGED <<store, work, touched>>

(* A peer's block that extends one of ours arrives after ours was published. *)
Arrived(b) == \A p \in parents[b] \cap Local : entry[p] = "published"

(* As if every field were operation-based. *)
(* As if only a published entry said the operation was applied. *)
ApplyUnlessPublished(w, b) == IF b \in Ops /\ EntryOf(w, b) # "published" THEN {b} ELSE {}

(* apply_field_op_once: the operation is merged when the entry is vacant, and *)
(* the entry then says so.                                                    *)
ApplyOnce(w, b) == IF b \in Ops /\ EntryOf(w, b) = "none" THEN {b} ELSE {}

(* A field block merged on its own, ahead of the composite that links it. *)
ApplyAlone(w, b) ==
    /\ open[w]
    /\ b \in Remote \cap Ops
    /\ ~Collection
    /\ Arrived(b)
    /\ EntryOf(w, b) = "none"
    /\ ops' = [ops EXCEPT ![w] = @ \cup ApplyOnce(w, b)]
    /\ read' = [read EXCEPT ![w] = @ \cup {b}]
    /\ UNCHANGED <<store, snapshot, write, done, held, touched>>

(* The parents a publication holds ahead: neither live nor published. *)
Missing(w, b) ==
    {p \in parents[b] : ~IsLive(HeadOf(w, p)) /\ EntryOf(w, p) # "published"}

Entries(w, b, superseded, ahead) ==
    [n \in Blocks |->
        IF n = b THEN Then(write[w][n], AddAt(1))
        ELSE IF n \in ahead THEN Then(write[w][n], SUPERSEDE_AHEAD)
        ELSE IF n \in superseded THEN Then(write[w][n], SUPERSEDE)
        ELSE write[w][n]]

(* document::publish reads the parts of the parents it holds ahead; a          *)
(* collection's publication reads the guard of every parent that is not live.  *)
HoldReads(w, b) == IF Collection THEN {} ELSE Missing(w, b)

(* As if only the block's own guard were read. *)
GuardReads(w, b) ==
    IF Collection THEN {p \in parents[b] : ~IsLive(HeadOf(w, p))} ELSE {}

(* A replicated block's merge publishes it.  A block whose entry already says  *)
(* published is left alone, which changes nothing here.                        *)
Publish(w, b) ==
    /\ open[w]
    /\ b \in Remote
    /\ Arrived(b)
    /\ Cardinality(done[w]) < MaxPage
    /\ EntryOf(w, b) # "published"
    /\ ops' = [ops EXCEPT ![w] = @ \cup ApplyOnce(w, b)]
    /\ write' = [write EXCEPT ![w] = Entries(w, b, parents[b], Missing(w, b))]
    /\ done' = [done EXCEPT ![w] = @ \cup {b}]
    /\ held' = [held EXCEPT ![w] = @ \cup HoldReads(w, b)]
    /\ read' = [read EXCEPT ![w] = @ \cup {b} \cup GuardReads(w, b)]
    /\ UNCHANGED <<store, snapshot, touched>>

(* A local write: its block's parents are the heads the transaction reads.     *)
LocalWrite(w, b) ==
    /\ open[w]
    /\ b \in Local
    /\ entry[b] = "none"
    /\ \A v \in Writers : b \notin done[v]
    /\ Cardinality(done[w]) < MaxPage
    /\ LET old == {n \in Blocks : IsLive(HeadOf(w, n))}
       IN  /\ parents' = [parents EXCEPT ![b] = old]
           /\ write' = [write EXCEPT ![w] = Entries(w, b, old, {})]
    /\ ops' = [ops EXCEPT ![w] = @ \cup ApplyOnce(w, b)]
    /\ done' = [done EXCEPT ![w] = @ \cup {b}]
    /\ read' = [read EXCEPT ![w] = @ \cup (IF Collection THEN {b} ELSE {})]
    /\ UNCHANGED <<entry, heads, merged, snapshot, held, touched>>

(* The engine's validation.  A read of parts that found no set at all decided  *)
(* on its absence, which any merge ends.                                       *)
EntriesStand(w) == \A b \in read[w] : entry[b] = seen[w][b]

(* As if the parts of the parents held ahead were read without validation. *)
HoldsUnvalidated(w) == TRUE

HoldsStand(w) ==
    /\ \A n \in held[w], m \in touched[w] : Part[n] # Part[m]
    /\ (held[w] # {} /\ \A b \in Blocks : seen[w][b] # "published") => touched[w] = {}

(* Write::operand: the names the operand holds. *)
NamesOf(w) == {n \in Blocks : write[w][n] # IDENTITY}

Close(w) ==
    /\ open' = [open EXCEPT ![w] = FALSE]
    /\ seen' = [seen EXCEPT ![w] = NoEntry]
    /\ seenHeads' = [seenHeads EXCEPT ![w] = NoHeads]
    /\ write' = [write EXCEPT ![w] = NoWrite]
    /\ done' = [done EXCEPT ![w] = {}]
    /\ ops' = [ops EXCEPT ![w] = {}]
    /\ read' = [read EXCEPT ![w] = {}]
    /\ held' = [held EXCEPT ![w] = {}]

Commit(w) ==
    /\ open[w]
    /\ EntriesStand(w)
    /\ HoldsStand(w)
    /\ entry' = [b \in Blocks |-> IF b \in done[w] \cup ops[w] THEN EntryOf(w, b) ELSE entry[b]]
    /\ heads' = [n \in Blocks |-> Apply(write[w][n], heads[n])]
    /\ merged' = [b \in Blocks |-> IF b \in ops[w] THEN merged[b] + 1 ELSE merged[b]]
    /\ touched' = [v \in Writers |->
                   IF open[v] /\ v # w THEN touched[v] \cup NamesOf(w)
                   ELSE {}]
    /\ Close(w)
    /\ UNCHANGED parents

(* A conflict at commit, or an error before it: nothing is kept. *)
Discard(w) ==
    /\ open[w]
    /\ Close(w)
    /\ touched' = [touched EXCEPT ![w] = {}]
    /\ UNCHANGED store

Next ==
    \E w \in Writers :
        \/ Begin(w)
        \/ \E b \in Blocks : ApplyAlone(w, b) \/ Publish(w, b) \/ LocalWrite(w, b)
        \/ Commit(w)
        \/ Discard(w)

Spec == Init /\ [][Next]_vars

-----------------------------------------------------------------------------
(* Entries and heads are states of theirs; only operation-based fields have   *)
(* operations to apply.                                                       *)
TypeOK ==
    /\ entry \in [Blocks -> {"none", "applied", "published"}]
    /\ heads \in [Blocks -> State]
    /\ merged \in [Blocks -> Nat]
    /\ parents \in [Blocks -> SUBSET Blocks]
    /\ open \in [Writers -> BOOLEAN]
    /\ seen \in [Writers -> [Blocks -> {"none", "applied", "published"}]]
    /\ seenHeads \in [Writers -> [Blocks -> State]]
    /\ write \in [Writers -> [Blocks -> Func]]
    /\ done \in [Writers -> SUBSET Blocks]
    /\ ops \in [Writers -> SUBSET Ops]
    /\ read \in [Writers -> SUBSET Blocks]
    /\ held \in [Writers -> SUBSET Blocks]
    /\ touched \in [Writers -> SUBSET Blocks]

(* What a set of published blocks makes of a name. *)
Tip(P, n) ==
    IF \E c \in P : n \in parents[c]
    THEN IF n \in P THEN Absent ELSE Ahead
    ELSE IF n \in P THEN Live(1) ELSE Absent

Published == {b \in Blocks : entry[b] = "published"}

(* In whatever order blocks arrive, commit, conflict and replay, the live      *)
(* heads are exactly the published blocks no published block names as a        *)
(* parent, and the names held ahead exactly the unpublished ones that are      *)
(* named: no head is lost, none comes back, no name stays ahead.               *)
HeadsAreTips == heads = [n \in Blocks |-> Tip(Published, n)]

(* An operation is merged into the document exactly once, whether its block    *)
(* came alone, under its composite, twice, or in two transactions at once.     *)
AppliedOnce ==
    \A b \in Ops : merged[b] = IF entry[b] = "none" THEN 0 ELSE 1
=============================================================================
