------------------------------ MODULE TextField ------------------------------
(***************************************************************************)
(* A text field of one document on several replicas: local writes          *)
(* (apply_field_ops in crates/db/src/write/autocommit/helpers.rs, with     *)
(* crates/crdt/src/field/text.rs) and merges                               *)
(* (crates/db/src/merge/merge_handler/field_causal.rs).                    *)
(*                                                                         *)
(* Writes and merges read the stored text validated: one that another      *)
(* writer overtakes aborts and runs again, so each is one step.  A block   *)
(* is merged when its parents are, and may come again after that.  The     *)
(* document and its first text are on every replica.                       *)
(***************************************************************************)
EXTENDS Fugue

CONSTANTS
  Replicas,
  FirstLen,   \* the characters the document was created with; 0: without the field
  Edits,      \* what applications write: sequences of operations, or Null
  MaxBlocks,
  MaxText,    \* a text this long grows no more
  Null        \* the field's null value

VARIABLES
  blocks,     \* every block written: [parents, past, pri, nil, ops, len]
  published,  \* the blocks a replica has published
  value,      \* the value it stores
  checked,    \* the blocks whose recorded length it compared, or that it wrote
  refused,    \* the blocks a merge failed on
  walk        \* the last merge's critical block and the tips it walked from

vars == <<blocks, published, value, checked, refused, walk>>

NoWalk == [critical |-> None, by |-> None, tips |-> {}]

Past(B) == B \cup UNION {blocks[b].past : b \in B}

Heads(r) == {b \in published[r] : \A c \in published[r] : b \notin blocks[c].parents}

TextOf(v) == IF v = Null THEN <<>> ELSE v

\* Every head among the blocks B writes null.
NilHeads(H, B) ==
  \A b \in B : H[b].nil \/ \E c \in B : b \in H[c].parents

TextValue(H, B, text) == IF NilHeads(H, B) THEN Null ELSE text

-----------------------------------------------------------------------------
\* One block is left to visit, and others were visited.
Stops(frontier, after) == Cardinality(frontier) = 1 /\ after # {}

\* The walk visits a root.
EndsAt(H, b) == H[b].parents = {}

RECURSIVE Descend(_, _, _, _, _)

\* critical_block's loop: the critical block and the blocks visited.
Descend(H, frontier, seen, after, cid) ==
  LET less(a, b) == \/ H[a].pri < H[b].pri
                    \/ H[a].pri = H[b].pri /\ Cid[a] < Cid[b]
      next == CHOOSE b \in frontier : \A c \in frontier : c = b \/ less(c, b)
      parents == H[next].parents
  IN IF frontier = {} THEN None
     ELSE IF Stops(frontier, after)
     THEN IF next = cid THEN None ELSE [critical |-> next, after |-> after]
     ELSE IF EndsAt(H, next) THEN None
     ELSE Descend(H, (frontier \ {next}) \cup (parents \ seen), seen \cup parents,
                  after \cup {next}, cid)

CriticalBlock(H, tips, cid) == Descend(H, tips, tips, {}, cid)

\* TextField::merge_from
MergeFrom(H, current, critical, after, new) ==
  LET OrNone(text) == IF text = None THEN None ELSE TextValue(H, after, text)
  IN OrNone(MergeText(TextOf(current), H[critical].len, H, after, new))

\* concurrent_value
ConcurrentValue(H, current, tips, cid, pick) ==
  LET history == Past(tips)
      OrReplayed(merged) ==
        IF merged # None THEN merged ELSE TextValue(H, history, Replay(H, history))
  IN OrReplayed(IF pick = None THEN None
                ELSE MergeFrom(H, current, pick.critical, pick.after, cid))

-----------------------------------------------------------------------------
\* The value after a block's operation on the version it was counted in.
Apply(current, b, block) ==
  IF block.nil THEN Null ELSE ApplyAll(TextOf(current), block.ops, b)

\* The edits of a write of null: they clear the parent version.
Clear == <<Delete(0, 1000)>>

Init ==
  LET first == <<Insert(0, FirstLen)>> IN
  /\ blocks = IF FirstLen = 0 THEN <<>>
              ELSE <<[parents |-> {}, past |-> {}, pri |-> 1, nil |-> FALSE,
                      ops |-> first, len |-> FirstLen]>>
  /\ published = [r \in Replicas |-> DOMAIN blocks]
  /\ value = [r \in Replicas |-> IF FirstLen = 0 THEN Null ELSE ApplyAll(<<>>, first, 1)]
  /\ checked = published
  /\ refused = {}
  /\ walk = NoWalk

\* The priority of a local block.
NextPriority(heads) == 1 + Max({0} \cup {blocks[h].pri : h \in heads})

\* A local write of edits, or of null: its parents are the heads.
Write(r, edits) ==
  LET b == Len(blocks) + 1
      nil == edits = Null
      heads == Heads(r)
      made == [parents |-> heads, past |-> Past(heads), nil |-> nil,
               pri |-> NextPriority(heads),
               ops |-> IF nil THEN Clear ELSE edits, len |-> 0]
  IN \E new \in {Apply(value[r], b, made)} :
     /\ b <= MaxBlocks
     /\ Len(TextOf(new)) <= MaxText
     /\ blocks' = Append(blocks, [made EXCEPT !.len = Len(TextOf(new))])
     /\ published' = [published EXCEPT ![r] = @ \cup {b}]
     /\ value' = [value EXCEPT ![r] = new]
     /\ checked' = [checked EXCEPT ![r] = @ \cup {b}]
     /\ walk' = NoWalk
     /\ UNCHANGED refused

\* The stored text is the block's parent version.
IsNext(b, heads) == blocks[b].parents = heads

\* The merged text is the block's own version.
Checks(b, heads) == heads \subseteq blocks[b].parents

\* merge_field_causal, of a block that is no head.
Merge(r, b) ==
  LET heads == Heads(r)
      tips == heads \cup {b}
      next == IsNext(b, heads)
  IN /\ b \notin heads
     /\ blocks[b].parents \subseteq published[r]
     /\ \E pick \in {IF next THEN None ELSE CriticalBlock(blocks, tips, b)} :
        \E new \in {IF next THEN Apply(value[r], b, blocks[b])
                   ELSE ConcurrentValue(blocks, value[r], tips, b, pick)} :
          LET fits == Checks(b, heads) => blocks[b].len = Len(TextOf(new))
          IN /\ walk' = IF pick = None THEN NoWalk
                        ELSE [critical |-> pick.critical, by |-> r, tips |-> tips]
             /\ refused' = IF fits THEN refused ELSE refused \cup {b}
             /\ checked' = IF fits /\ Checks(b, heads)
                           THEN [checked EXCEPT ![r] = @ \cup {b}] ELSE checked
             /\ published' = IF fits THEN [published EXCEPT ![r] = @ \cup {b}] ELSE published
             /\ value' = IF fits THEN [value EXCEPT ![r] = new] ELSE value
             /\ UNCHANGED blocks

Next ==
  \E r \in Replicas :
    \/ \E edits \in Edits : Write(r, edits)
    \/ \E b \in DOMAIN blocks : Merge(r, b)

Spec == Init /\ [][Next]_vars

-----------------------------------------------------------------------------
\* Types; a replica's blocks come with their ancestors.
TypeOK ==
  /\ Len(blocks) \in 0 .. MaxBlocks
  /\ \A b \in DOMAIN blocks :
       /\ blocks[b].parents \subseteq blocks[b].past
       /\ blocks[b].past \subseteq 1 .. b - 1
       /\ blocks[b].pri \in 1 .. b /\ blocks[b].len \in 0 .. MaxText
  /\ \A r \in Replicas : published[r] \subseteq DOMAIN blocks /\ Past(published[r]) = published[r]

\* The stored text is the one a replay of the whole published history makes,
\* whichever path each merge took and in whatever order, and however often,
\* the blocks came (field_causal.rs, fugue.rs "the text equals a full replay").
TextExact ==
  \A r \in Replicas :
    value[r] = TextValue(blocks, published[r], Replay(blocks, published[r]))

\* The block the walk stops at is one every other block under the tips comes
\* before or after: the debug_assert of critical_block.
PickIsCritical ==
  walk # NoWalk =>
    \A b \in Past(walk.tips) \ {walk.critical} :
      b \in blocks[walk.critical].past \/ walk.critical \in blocks[b].past

\* The merge trusts the length of a critical block because this replica once
\* compared it, or wrote it (comment in critical_block).
PickWasChecked == walk # NoWalk => walk.critical \in checked[walk.by]

\* No block that a replica wrote fails check_version anywhere.
NoneRefused == refused = {}

\* Between two characters of one insert stand only characters of blocks that
\* had seen them: concurrent inserts do not run into each other (Tree::apply).
\* Read off the stored text, where every character names its block and offset.
RunsTogether ==
  \A r \in Replicas :
    LET text == TextOf(value[r]) IN
    \A i, j, k \in DOMAIN text :
      (i < j /\ j < k /\ text[i][1] = text[k][1] /\ text[i][2] < text[k][2]
         /\ Len(blocks[text[i][1]].ops) = 1)
        => \/ text[j][1] = text[i][1]
           \/ text[i][1] \in blocks[text[j][1]].past

\* The merged text is right, and the shortcuts the merge takes are justified.
TextHolds == TypeOK /\ TextExact /\ NoneRefused /\ PickIsCritical /\ PickWasChecked
=============================================================================
