------------------------------ MODULE JsonField ------------------------------
(***************************************************************************)
(* A JSON field of one document on several replicas: local writes          *)
(* (prepare_tagged_writes in crates/db/src/write/autocommit/helpers.rs,    *)
(* local_write in crates/crdt/src/field/tagged.rs), merges                 *)
(* (crates/db/src/merge/merge_handler/field_tagged.rs) and reads of an     *)
(* older version (replay in crates/defra-core/src/json_crdt.rs).           *)
(*                                                                         *)
(* A transaction reads a snapshot of the state and the heads, neither of   *)
(* them validated, and its operand lands blindly on what is stored when it *)
(* commits.  Only the published entry of a block it merges is validated.   *)
(* A merge brings the ancestors the replica lacks with the block, in one   *)
(* transaction.  The document and its first value are on every replica.    *)
(***************************************************************************)
EXTENDS JsonFrontier

CONSTANTS
  Replicas,
  Readers,    \* the replicas that read older versions
  First,      \* the value the document was created with
  Writes,     \* the writes applications make
  MaxBlocks,
  MaxOpen,    \* transactions open on a replica at once
  MaxRounds,  \* of the loop that anchors a write
  Nil

VARIABLES
  blocks,     \* every block written: [parents, pri, ops], and its ancestors, `past'
  entries,    \* a replica's stored frontier
  published,  \* the blocks a replica has published
  open,       \* its open transactions
  answer      \* the read of an older version in progress

vars == <<blocks, entries, published, open, answer>>

\* A set of blocks and all their ancestors.
Past(B) == B \cup UNION {blocks[b].past : b \in B}

\* The tips of a set of blocks.
Tips(B) == {b \in B : \A c \in B : b \notin blocks[c].parents}

\* Block numbers by priority, then identifier.
Ordered(B) ==
  SetToSortSeq(B, LAMBDA a, b : \/ blocks[a].pri < blocks[b].pri
                                \/ blocks[a].pri = blocks[b].pri /\ a < b)

-----------------------------------------------------------------------------
\* No block further down could have made an operation that is left.
Enough(lowest, pri) == lowest > pri

RECURSIVE Walk(_, _, _, _)

\* tagged_past's loop, over blocks waiting and tags unresolved.
Walk(waiting, seen, unresolved, past) ==
  IF waiting = {} THEN past
  ELSE LET next == Last(Ordered(waiting)) IN
       IF \/ unresolved = {}
          \/ Enough(Min({e.pri : e \in unresolved}), blocks[next].pri)
       THEN past
       ELSE LET parents == blocks[next].parents
            IN Walk((waiting \ {next}) \cup (parents \ seen), seen \cup parents,
                    {e \in unresolved : e.block # next}, past \cup {next})

\* tagged_past
TaggedPast(parents, state) == Walk(parents, parents, state, {})

\* The operand merge_field_tagged makes of block b, from what it read.
Effect(state, heads, b) ==
  LET block == blocks[b]
      past == IF block.parents = heads THEN Nat ELSE TaggedPast(block.parents, state)
  IN Delta(state, block.ops, b, block.pri, past)

\* json_crdt::past_ids of a replay that has merged the blocks before b.
PastIds(b, lowest) ==
  {a \in blocks[b].past :
     /\ blocks[a].pri >= lowest
     /\ \A c \in blocks[b].past :
          a \in blocks[c].past => blocks[c].pri >= lowest}

\* One block of json_crdt::replay: it reads only the entries its edits reach.
Replayed(acc, b) ==
  LET block == blocks[b]
      touched == {e \in acc.entries : \E p \in DOMAIN block.ops :
                    e.path \in Below[p] \cup Above[p]}
      past == IF block.parents = acc.tips THEN Nat
              ELSE IF touched = {} THEN {}
              ELSE PastIds(b, Min({e.pri : e \in touched}))
  IN [entries |-> Compose(acc.entries, Delta(acc.entries, block.ops, b, block.pri, past)),
      tips |-> (acc.tips \ block.parents) \cup {b}]

\* json_crdt::replay
Replay(B) == FoldLeft(Replayed, [entries |-> {}, tips |-> {}], Ordered(B)).entries

-----------------------------------------------------------------------------
\* A create's block, and its frontier on every replica.
Init ==
  LET ops == Diff(<<>>, First) IN
  /\ blocks = <<[parents |-> {}, past |-> {}, pri |-> 1, ops |-> ops]>>
  /\ entries = [r \in Replicas |-> Delta({}, ops, 1, 1, Nat).entries]
  /\ published = [r \in Replicas |-> {1}]
  /\ open = [r \in Replicas |-> {}]
  /\ answer = Nil

\* One above the field's heads.
NextPriority(heads) == 1 + Max({blocks[h].pri : h \in heads})

\* As if a write's block carried its edits as it reads them.
WriteDataAsRead(state, write) ==
  LET current == Materialize(state)
  IN IF write.paths THEN PathOps(current, write.edits) ELSE Diff(current, write.value)

\* JsonField::write_data
WriteData(state, write) ==
  LET current == Materialize(state)
      ops == IF write.paths THEN PathOps(current, write.edits) ELSE Diff(current, write.value)
  IN Anchored(state, ApplyOps(current, ops), ops, MaxRounds)

\* What the application reads its write as.
ReadsAs(state, write) ==
  LET current == Materialize(state)
  IN IF write.paths THEN ApplyOps(current, PathOps(current, write.edits)) ELSE write.value

\* A local write prepares its block and operand; they commit together.
BeginWrite(r, write) ==
  LET state == entries[r]
      heads == Tips(published[r])
      b == Len(blocks) + 1
      pri == NextPriority(heads)
      ops == WriteData(state, write)
      operand == Delta(state, ops, b, pri, Nat)
  IN /\ Len(blocks) < MaxBlocks /\ Cardinality(open[r]) < MaxOpen
     /\ blocks' = Append(blocks, [parents |-> heads, past |-> Past(heads), pri |-> pri, ops |-> ops])
     /\ open' = [open EXCEPT ![r] = @ \cup
                   {[blocks |-> {b}, operand |-> operand,
                     reads |-> ReadsAs(state, write),
                     value |-> Materialize(Compose(state, operand))]}]
     /\ UNCHANGED <<entries, published>>

\* A merge of block b, and of the ancestors the replica lacks, in order.
BeginMerge(r, b) ==
  LET new == Past({b}) \ published[r]
      Step(acc, c) ==
        LET operand == Effect(acc.state, Tips(acc.published), c)
        IN [state |-> Compose(acc.state, operand),
            published |-> acc.published \cup {c},
            operand |-> Then(acc.operand, operand)]
      made == FoldLeft(Step, [state |-> entries[r], published |-> published[r],
                              operand |-> [removes |-> {}, entries |-> {}]],
                       Ordered(new))
  IN /\ b \in UNION {published[s] : s \in Replicas \ {r}} \ published[r]
     /\ Cardinality(open[r]) < MaxOpen
     /\ open' = [open EXCEPT ![r] = @ \cup
                   {[blocks |-> new, operand |-> made.operand, reads |-> Nil, value |-> Nil]}]
     /\ UNCHANGED <<blocks, entries, published>>

\* As if the entry of a merged block were not validated.
CommitUnvalidated(r, t) ==
  /\ open' = [open EXCEPT ![r] = @ \ {t}]
  /\ entries' = [entries EXCEPT ![r] = Compose(@, t.operand)]
  /\ published' = [published EXCEPT ![r] = @ \cup t.blocks]
  /\ UNCHANGED blocks

\* A commit lands the operand, or conflicts with a merge of the same block.
Commit(r, t) ==
  /\ open' = [open EXCEPT ![r] = @ \ {t}]
  /\ \/ /\ t.blocks \cap published[r] = {}
        /\ entries' = [entries EXCEPT ![r] = Compose(@, t.operand)]
        /\ published' = [published EXCEPT ![r] = @ \cup t.blocks]
     \/ /\ t.blocks \cap published[r] # {}
        /\ UNCHANGED <<entries, published>>
  /\ UNCHANGED blocks

\* A read of the document as of block b.
ReadVersion(r, b) ==
  /\ answer' = [at |-> b, entries |-> Replay(Past({b}))]
  /\ UNCHANGED <<blocks, entries, published, open>>

Answered == answer # Nil /\ answer' = Nil /\ UNCHANGED <<blocks, entries, published, open>>

Next ==
  \/ /\ answer = Nil
     /\ \E r \in Replicas :
          \/ /\ \/ \E write \in Writes : BeginWrite(r, write)
                \/ \E b \in DOMAIN blocks : BeginMerge(r, b)
                \/ \E t \in open[r] : Commit(r, t)
             /\ UNCHANGED answer
          \/ r \in Readers /\ \E b \in published[r] : ReadVersion(r, b)
  \/ Answered

Spec == Init /\ [][Next]_vars

-----------------------------------------------------------------------------
\* Frontiers hold edits of published blocks, priorities rise along parents.
TypeOK ==
  /\ \A b \in DOMAIN blocks :
       /\ blocks[b].parents \subseteq 1..(b - 1)
       /\ \A a \in blocks[b].parents : blocks[a].pri < blocks[b].pri
       /\ DOMAIN blocks[b].ops \subseteq Paths
  /\ \A r \in Replicas : \A e \in entries[r] :
       e.block \in published[r] /\ e.path \in Paths

\* What the frontier of a set of blocks should hold: the edits that no block
\* which has them in its past edited at or above their path.
Frontier(B) ==
  {<<p, b>> \in Paths \X B :
     /\ p \in DOMAIN blocks[b].ops
     /\ ~\E c \in B : /\ b \in blocks[c].past
                      /\ \E q \in DOMAIN blocks[c].ops : p \in Below[q]}

Names(E) == {<<e.path, e.block>> : e \in E}

\* However merges, writes and their stale reads interleave, a replica's stored
\* frontier is the one its published blocks determine, so replicas with the
\* same blocks hold the same value (merge_field_tagged, local_delta).
FrontierExact == \A r \in Replicas : Names(entries[r]) = Frontier(published[r])

\* The conflicts a replica reports are the edits that lost to one they are
\* concurrent with in the DAG, although an entry only records what was above
\* it when it landed (Frontier::conflicts, Entry::seen).
ConflictsExact ==
  LET Apart(e, w, p) == /\ e.block \notin blocks[w.block].past
                        /\ w.block \notin blocks[e.block].past
  IN \A r \in Replicas : Conflicts(entries[r]) = LostTo(entries[r], Apart)

\* A prepared write lands as the application reads it: the loop that anchors
\* it ends, within as many rounds as there are paths (write_data).
LandsAsRead == \A r \in Replicas : \A t \in open[r] : t.value = t.reads

\* A read of an older version, replayed from its blocks, finds the frontier
\* that version had (json_crdt::replay).
ReplayExact ==
  answer # Nil => Names(answer.entries) = Frontier(Past({answer.at}))
=============================================================================
